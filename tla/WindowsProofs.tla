---------------------------- MODULE WindowsProofs ----------------------------
(***************************************************************************)
(* Theorems about the linked lists of windows, for every MAX_WINDOWS and   *)
(* every order of creating windows and bringing them to the front.         *)
(***************************************************************************)
EXTENDS Windows, SequenceTheorems, WellFoundedInduction, TLAPS

Fields   == {"prev", "next", "first_child", "last_child"}
Links(D) == [D -> [Fields -> D \cup {null}]]

\* children have no children, and are linked only to children of their parent
Family(l, par, w) ==
  /\ par[w] # null => par[par[w]] = null /\ l[w].first_child = null
  /\ l[w].next # null => par[w] # null /\ par[l[w].next] = par[w]
  /\ l[w].first_child # null => par[l[w].first_child] = w
  /\ l[w].last_child # null => par[l[w].last_child] = w

KinBehind(l, par, w) == l[w].prev # null => par[w] # null /\ par[l[w].prev] = par[w]

LastIsLast(l, p) == l[p].last_child # null => l[l[p].last_child].next = null

BackAndForth(l, w) == l[w].prev # null => l[l[w].prev].next = w

\* an order of the windows in which each list goes upwards
Ranks(n) == {r \in [1 .. n -> 1 .. n] : \A x, y \in 1 .. n : r[x] = r[y] => x = y}
Upwards(D, l, r) == \A w \in D : l[w].next # null => r[w] < r[l[w].next]

Families  == \A w \in Created : Family(links, parent, w) /\ KinBehind(links, parent, w)
Ends      == \A p \in Created : LastIsLast(links, p)
NoCircle  == \E r \in Ranks(wm_num_windows) : Upwards(Created, links, r)
TwoWays   == \A w \in Created : BackAndForth(links, w)

WindowsInv ==
  /\ WindowsTypeOK
  /\ tangled => careless
  /\ ~tangled => Families /\ Ends /\ NoCircle
  /\ ~careless => TwoWays

-----------------------------------------------------------------------------
(* One assignment, and all of move_to_front.                               *)

\* m is l, but for one pointer
Assigned(m, D, l, w, field, value) ==
  /\ m \in Links(D)
  /\ \A x \in D, g \in Fields : m[x][g] = IF x = w /\ g = field THEN value ELSE l[x][g]

LEMMA AssignEffect ==
  ASSUME NEW D, null \notin D, NEW l \in Links(D), NEW w \in D \cup {null},
         NEW field \in Fields, NEW value \in D \cup {null}
  PROVE  Assigned(Assign(l, w, field, value), D, l, w, field, value)
  <1>1. CASE w = null
    BY <1>1 DEF Assign, Assigned
  <1>2. CASE w # null
    <2>1. w \in D /\ l[w] \in [Fields -> D \cup {null}]
      BY <1>2 DEF Links
    <2> DEFINE one == [l[w] EXCEPT ![field] = value]
    <2>2. /\ one \in [Fields -> D \cup {null}]
          /\ \A g \in Fields : one[g] = IF g = field THEN value ELSE l[w][g]
      BY <2>1
    <2>3. Assign(l, w, field, value) = [l EXCEPT ![w] = one]
      BY <1>2 DEF Assign
    <2> HIDE DEF one
    <2>4. [l EXCEPT ![w] = one] \in Links(D)
      BY <2>1, <2>2 DEF Links
    <2>5. \A x \in D : [l EXCEPT ![w] = one][x] = IF x = w THEN one ELSE l[x]
      BY DEF Links
    <2> QED BY <2>2, <2>3, <2>4, <2>5 DEF Assigned
  <1> QED BY <1>1, <1>2

(* w leaves its place between the windows before and behind it, and comes  *)
(* behind the last one of the others.                                      *)
Top(l, w, p)   == IF l[p].last_child = w THEN l[w].prev ELSE l[p].last_child
Below(l, w, p) == IF l[p].first_child = w THEN l[w].next ELSE l[p].first_child

LEMMA InFrontEffect ==
  ASSUME NEW D, null \notin D, NEW l \in Links(D), NEW w \in D, NEW p \in D, p # w,
         l[w].prev # w, l[w].next # w
  PROVE  /\ InFront(l, w, p) \in Links(D)
         /\ \A x \in D :
              /\ InFront(l, w, p)[x].next = IF x = Top(l, w, p) THEN w ELSE IF x = w THEN null
                                            ELSE IF x = l[w].prev THEN l[w].next ELSE l[x].next
              /\ InFront(l, w, p)[x].prev = IF x = w THEN Top(l, w, p)
                                            ELSE IF x = l[w].next THEN l[w].prev ELSE l[x].prev
              /\ InFront(l, w, p)[x].first_child =
                   IF x = p THEN (IF Below(l, w, p) = null THEN w ELSE Below(l, w, p))
                            ELSE l[x].first_child
              /\ InFront(l, w, p)[x].last_child = IF x = p THEN w ELSE l[x].last_child
  <1> DEFINE a == l[w].prev
             b == l[w].next
  <1>0. /\ a \in D \cup {null} /\ b \in D \cup {null} /\ a # w /\ b # w /\ w # null /\ p # null
        /\ "prev" \in Fields /\ "next" \in Fields
        /\ "first_child" \in Fields /\ "last_child" \in Fields
        /\ w \in D \cup {null} /\ p \in D \cup {null} /\ null \in D \cup {null}
    BY DEF Links, Fields
  <1> DEFINE m1 == Assign(l, a, "next", b)
             m2 == Assign(m1, m1[w].next, "prev", m1[w].prev)
             m3 == IF m2[p].first_child = w THEN Assign(m2, p, "first_child", m2[w].next) ELSE m2
             m4 == IF m3[p].last_child = w THEN Assign(m3, p, "last_child", m3[w].prev) ELSE m3
             m5 == Assign(m4, w, "prev", m4[p].last_child)
             m6 == Assign(m5, w, "next", null)
             m7 == Assign(m6, m6[p].last_child, "next", w)
             m8 == Assign(m7, p, "last_child", w)
             m9 == IF m8[p].first_child = null THEN Assign(m8, p, "first_child", w) ELSE m8
  <1>1. InFront(l, w, p) = m9
    BY DEF InFront, PutOnTop, EndsWithout, TakenOut
  <1>2. Assigned(m1, D, l, a, "next", b)
    BY <1>0, AssignEffect
  <1> HIDE DEF m1
  <1>3. m1 \in Links(D) /\ m1[w].next = b /\ m1[w].prev = a
    BY <1>0, <1>2 DEF Assigned
  <1>4. Assigned(m2, D, m1, b, "prev", a)
    <2>1. m2 = Assign(m1, b, "prev", a)
      BY <1>3
    <2> HIDE DEF m2
    <2> QED BY <1>0, <1>3, <2>1, AssignEffect
  <1> HIDE DEF m2
  <1>5. /\ m2 \in Links(D) /\ m2[w].next = b /\ m2[w].prev = a
        /\ m2[p].first_child = l[p].first_child /\ m2[p].last_child = l[p].last_child
    BY <1>0, <1>2, <1>3, <1>4 DEF Assigned
  <1>6. Assigned(m3, D, m2, p, "first_child", Below(l, w, p))
    <2>1. CASE l[p].first_child = w
      <3>1. m3 = Assign(m2, p, "first_child", b) /\ Below(l, w, p) = b
        BY <1>5, <2>1 DEF Below
      <3> HIDE DEF m3
      <3> QED BY <1>0, <1>5, <3>1, AssignEffect
    <2>2. CASE l[p].first_child # w
      BY <1>5, <2>2 DEF Below, Assigned
    <2> QED BY <2>1, <2>2
  <1> HIDE DEF m3
  <1>7. m3 \in Links(D) /\ m3[w].prev = a /\ m3[p].last_child = l[p].last_child
    BY <1>0, <1>5, <1>6 DEF Assigned
  <1>8. Assigned(m4, D, m3, p, "last_child", Top(l, w, p))
    <2>1. CASE l[p].last_child = w
      <3>1. m4 = Assign(m3, p, "last_child", a) /\ Top(l, w, p) = a
        BY <1>7, <2>1 DEF Top
      <3> HIDE DEF m4
      <3> QED BY <1>0, <1>7, <3>1, AssignEffect
    <2>2. CASE l[p].last_child # w
      BY <1>7, <2>2 DEF Top, Assigned
    <2> QED BY <2>1, <2>2
  <1> HIDE DEF m4
  <1> DEFINE t == Top(l, w, p)
  <1>9. m4 \in Links(D) /\ m4[p].last_child = t /\ t \in D \cup {null}
    <2>1. l[p].last_child \in D \cup {null}
      BY <1>0 DEF Links
    <2>2. t \in D \cup {null}
      BY <1>0, <2>1 DEF Top
    <2> HIDE DEF t
    <2> QED BY <1>0, <1>8, <2>2 DEF t, Assigned
  <1> HIDE DEF t
  <1>10. Assigned(m5, D, m4, w, "prev", t)
    <2>1. m5 = Assign(m4, w, "prev", t)
      BY <1>9
    <2> HIDE DEF m5
    <2> QED BY <1>0, <1>9, <2>1, AssignEffect
  <1> HIDE DEF m5
  <1>11. Assigned(m6, D, m5, w, "next", null)
    <2>1. m5 \in Links(D)
      BY <1>10 DEF Assigned
    <2> QED BY <1>0, <2>1, AssignEffect
  <1> HIDE DEF m6
  <1>12. m6 \in Links(D) /\ m6[p].last_child = t
    BY <1>0, <1>9, <1>10, <1>11 DEF Assigned
  <1>13. Assigned(m7, D, m6, t, "next", w)
    <2>1. m7 = Assign(m6, t, "next", w)
      BY <1>12
    <2> HIDE DEF m7
    <2> QED BY <1>0, <1>9, <1>12, <2>1, AssignEffect
  <1> HIDE DEF m7
  <1>14. Assigned(m8, D, m7, p, "last_child", w)
    <2>1. m7 \in Links(D)
      BY <1>13 DEF Assigned
    <2> QED BY <1>0, <2>1, AssignEffect
  <1> HIDE DEF m8
  <1>15. m8 \in Links(D) /\ m8[p].first_child = Below(l, w, p)
    BY <1>0, <1>6, <1>8, <1>10, <1>11, <1>13, <1>14 DEF Assigned
  <1> DEFINE f == IF Below(l, w, p) = null THEN w ELSE Below(l, w, p)
  <1>16. Assigned(m9, D, m8, p, "first_child", f)
    <2>1. CASE Below(l, w, p) = null
      <3>1. m9 = Assign(m8, p, "first_child", w) /\ f = w
        BY <1>15, <2>1
      <3> HIDE DEF m9, f
      <3> QED BY <1>0, <1>15, <3>1, AssignEffect
    <2>2. CASE Below(l, w, p) # null
      BY <1>15, <2>2 DEF Assigned
    <2> QED BY <2>1, <2>2
  <1> HIDE DEF m9, f
  <1>17. ASSUME NEW x \in D
         PROVE  /\ m9[x].next = IF x = t THEN w ELSE IF x = w THEN null
                                ELSE IF x = a THEN b ELSE l[x].next
                /\ m9[x].prev = IF x = w THEN t ELSE IF x = b THEN a ELSE l[x].prev
                /\ m9[x].last_child = IF x = p THEN w ELSE l[x].last_child
                /\ m9[x].first_child = IF x = p THEN f ELSE l[x].first_child
    <2>1. /\ m9[x].next = m7[x].next /\ m9[x].prev = m7[x].prev
          /\ m9[x].last_child = IF x = p THEN w ELSE m7[x].last_child
          /\ m9[x].first_child = IF x = p THEN f ELSE m7[x].first_child
      BY <1>0, <1>14, <1>16 DEF Assigned
    <2>2. /\ m7[x].next = IF x = t THEN w ELSE IF x = w THEN null ELSE m5[x].next
          /\ m7[x].prev = m5[x].prev /\ m7[x].last_child = m5[x].last_child
          /\ m7[x].first_child = m5[x].first_child
      BY <1>0, <1>11, <1>13 DEF Assigned
    <2>3. /\ m5[x].next = m3[x].next /\ m5[x].prev = IF x = w THEN t ELSE m3[x].prev
          /\ x # p => m5[x].last_child = m3[x].last_child
          /\ m5[x].first_child = m3[x].first_child
      BY <1>0, <1>8, <1>10 DEF Assigned
    <2>4. /\ m3[x].next = m1[x].next
          /\ m3[x].prev = IF x = b THEN a ELSE m1[x].prev
          /\ m3[x].last_child = m1[x].last_child
          /\ x # p => m3[x].first_child = m1[x].first_child
      BY <1>0, <1>4, <1>6 DEF Assigned
    <2>5. /\ m1[x].next = IF x = a THEN b ELSE l[x].next
          /\ m1[x].prev = l[x].prev
          /\ m1[x].last_child = l[x].last_child /\ m1[x].first_child = l[x].first_child
      BY <1>0, <1>2 DEF Assigned
    <2> QED BY <2>1, <2>2, <2>3, <2>4, <2>5
  <1>18. m9 \in Links(D)
    BY <1>16 DEF Assigned
  <1> HIDE DEF a, b
  <1> QED BY <1>1, <1>17, <1>18 DEF a, b, t, f

-----------------------------------------------------------------------------
(* What InFront keeps of the lists.  The window w is a child in its list,  *)
(* or a new one: then nothing is behind it yet, though its prev is set.    *)

New(l, w, p) == l[w].next = null /\ l[p].last_child # w

Listed(D, l, par, w, p) ==
  /\ null \notin D /\ l \in Links(D) /\ par \in [D -> D \cup {null}]
  /\ w \in D /\ p \in D /\ par[w] = p /\ w # p
  /\ l[w].prev # w /\ l[w].next # w
  /\ \A x \in D : Family(l, par, x) /\ LastIsLast(l, x)
  /\ \A x \in D \ {w} : KinBehind(l, par, x)
  /\ l[w].prev # null => par[l[w].prev] = p \/ New(l, w, p)

\* the pointers of a table, as numbers
LEMMA Pointers ==
  ASSUME NEW D, NEW l \in Links(D), NEW x \in D
  PROVE  /\ l[x].prev \in D \cup {null} /\ l[x].next \in D \cup {null}
         /\ l[x].first_child \in D \cup {null} /\ l[x].last_child \in D \cup {null}
  BY DEF Links, Fields

LEMMA FamilyKept ==
  ASSUME NEW D, NEW l, NEW par, NEW w, NEW p, Listed(D, l, par, w, p)
  PROVE  /\ InFront(l, w, p) \in Links(D)
         /\ \A x \in D : /\ Family(InFront(l, w, p), par, x)
                         /\ KinBehind(InFront(l, w, p), par, x)
                         /\ LastIsLast(InFront(l, w, p), x)
  <1> DEFINE a == l[w].prev
             b == l[w].next
             t == Top(l, w, p)
             R == InFront(l, w, p)
  <1>1. /\ null \notin D /\ l \in Links(D) /\ par \in [D -> D \cup {null}]
        /\ w \in D /\ p \in D /\ par[w] = p /\ w # p /\ a # w /\ b # w
        /\ a # null => par[a] = p \/ New(l, w, p)
    BY DEF Listed
  <1>2. /\ R \in Links(D)
        /\ \A x \in D :
             /\ R[x].next = IF x = t THEN w ELSE IF x = w THEN null
                            ELSE IF x = a THEN b ELSE l[x].next
             /\ R[x].prev = IF x = w THEN t ELSE IF x = b THEN a ELSE l[x].prev
             /\ R[x].first_child =
                  IF x = p THEN (IF Below(l, w, p) = null THEN w ELSE Below(l, w, p))
                  ELSE l[x].first_child
             /\ R[x].last_child = IF x = p THEN w ELSE l[x].last_child
    BY <1>1, InFrontEffect
  <1> HIDE DEF R
  <1>3. /\ a \in D \cup {null} /\ b \in D \cup {null} /\ t \in D \cup {null}
        /\ Below(l, w, p) \in D \cup {null} /\ t # w
    BY <1>1, Pointers DEF Top, Below
  <1>4. \A x \in D : /\ par[x] # null => par[par[x]] = null /\ l[x].first_child = null
                     /\ l[x].next # null => par[x] # null /\ par[l[x].next] = par[x]
                     /\ l[x].first_child # null => par[l[x].first_child] = x
                     /\ l[x].last_child # null => par[l[x].last_child] = x
                     /\ x # w /\ l[x].prev # null => par[x] # null /\ par[l[x].prev] = par[x]
    BY DEF Listed, Family, KinBehind
  <1>5. b # null => par[b] = p /\ (a # null => par[a] = p)
    BY <1>1, <1>4 DEF New
  <1>6. t # null => par[t] = p
    BY <1>1, <1>4 DEF Top, New
  <1>7. Below(l, w, p) # null => par[Below(l, w, p)] = p
    BY <1>1, <1>4, <1>5 DEF Below
  <1>8. par[p] = null /\ p # null /\ w # null
    BY <1>1, <1>4
  <1>9. \A x \in D : l[x].last_child # null => l[l[x].last_child].next = null
    BY DEF Listed, LastIsLast
  <1> DEFINE low == Below(l, w, p)
  <1> HIDE DEF a, b, t, low
  <1>10. ASSUME NEW x \in D PROVE Family(R, par, x)
    <2>1. par[x] # null => par[par[x]] = null /\ R[x].first_child = null
      BY <1>2, <1>4, <1>8
    <2>2. R[x].next # null => par[x] # null /\ par[R[x].next] = par[x]
      <3>1. CASE x = t
        BY <1>1, <1>2, <1>3, <1>6, <1>8, <3>1
      <3>2. CASE x # t /\ x = a
        BY <1>1, <1>2, <1>3, <1>5, <1>8, <3>2
      <3>3. CASE x # t /\ x # a
        BY <1>2, <1>4, <3>3
      <3> QED BY <3>1, <3>2, <3>3
    <2>3. R[x].first_child # null => par[R[x].first_child] = x
      BY <1>1, <1>2, <1>4, <1>7
    <2>4. R[x].last_child # null => par[R[x].last_child] = x
      BY <1>1, <1>2, <1>4
    <2> QED BY <2>1, <2>2, <2>3, <2>4 DEF Family
  <1>11. ASSUME NEW x \in D PROVE KinBehind(R, par, x)
    <2> SUFFICES ASSUME R[x].prev # null PROVE par[x] # null /\ par[R[x].prev] = par[x]
      BY DEF KinBehind
    <2>1. CASE x = w
      BY <1>1, <1>2, <1>6, <1>8, <2>1
    <2>2. CASE x # w /\ x = b
      BY <1>1, <1>2, <1>5, <1>8, <2>2
    <2>3. CASE x # w /\ x # b
      BY <1>2, <1>4, <2>3
    <2> QED BY <2>1, <2>2, <2>3
  <1>12. ASSUME NEW x \in D PROVE LastIsLast(R, x)
    <2> SUFFICES ASSUME R[x].last_child # null PROVE R[R[x].last_child].next = null
      BY DEF LastIsLast
    <2>1. CASE x = p
      BY <1>1, <1>2, <1>3, <2>1
    <2>2. CASE x # p
      <3> DEFINE z == l[x].last_child
      <3>1. R[x].last_child = z /\ z \in D /\ par[z] = x /\ l[z].next = null
        BY <1>1, <1>2, <1>4, <1>9, <2>2, Pointers
      <3> HIDE DEF z
      <3>2. z # w /\ z # t
        BY <1>1, <1>6, <1>8, <2>2, <3>1
      <3>3. CASE z = a
        BY <1>2, <1>3, <1>5, <1>8, <2>2, <3>1, <3>2, <3>3
      <3>4. CASE z # a
        BY <1>2, <3>1, <3>2, <3>4
      <3> QED BY <3>3, <3>4
    <2> QED BY <2>1, <2>2
  <1> QED BY <1>2, <1>10, <1>11, <1>12 DEF R

LEMMA NeighboursKept ==
  ASSUME NEW D, NEW l, NEW par, NEW w, NEW p, Listed(D, l, par, w, p),
         \A x \in D \ {w} : BackAndForth(l, x),
         l[w].prev # null => \/ l[l[w].prev].next = w
                             \/ l[l[w].prev].next = null /\ New(l, w, p)
  PROVE  \A x \in D : BackAndForth(InFront(l, w, p), x)
  <1> DEFINE a == l[w].prev
             b == l[w].next
             t == Top(l, w, p)
             R == InFront(l, w, p)
  <1>1. /\ null \notin D /\ l \in Links(D) /\ w \in D /\ p \in D /\ w # p /\ a # w /\ b # w
        /\ a # null => l[a].next = w \/ (l[a].next = null /\ New(l, w, p))
        /\ l[p].last_child # null => l[l[p].last_child].next = null
    BY DEF Listed, LastIsLast
  <1>2. \A x \in D :
          /\ R[x].next = IF x = t THEN w ELSE IF x = w THEN null
                         ELSE IF x = a THEN b ELSE l[x].next
          /\ R[x].prev = IF x = w THEN t ELSE IF x = b THEN a ELSE l[x].prev
    BY <1>1, InFrontEffect
  <1> HIDE DEF R
  <1>3. /\ a \in D \cup {null} /\ b \in D \cup {null} /\ t \in D \cup {null} /\ t # w /\ w # null
    BY <1>1, Pointers DEF Top
  <1>4. \/ t = a /\ l[p].last_child = w /\ b = null
        \/ t = l[p].last_child /\ l[p].last_child # w
    BY <1>1 DEF Top
  <1> SUFFICES ASSUME NEW x \in D, R[x].prev # null PROVE R[R[x].prev].next = x
    BY DEF BackAndForth, R
  <1>5. CASE x = w
    BY <1>2, <1>3, <1>5
  <1>6. CASE x # w /\ x = b
    <2>1. R[x].prev = a /\ a \in D /\ l[a].next = w
      BY <1>1, <1>2, <1>3, <1>6 DEF New
    <2>2. a # t
      BY <1>1, <1>3, <1>4, <1>6, <2>1
    <2> QED BY <1>1, <1>2, <1>6, <2>1, <2>2
  <1>7. CASE x # w /\ x # b
    <2> DEFINE y == l[x].prev
    <2>1. R[x].prev = y /\ y \in D /\ l[y].next = x
      BY <1>1, <1>2, <1>7, Pointers DEF BackAndForth
    <2> HIDE DEF y
    <2>2. y # t
      BY <1>1, <1>3, <1>4, <1>7, <2>1 DEF New
    <2>3. y # w /\ y # a
      BY <1>1, <1>3, <1>7, <2>1
    <2> QED BY <1>2, <2>1, <2>2, <2>3
  <1> QED BY <1>5, <1>6, <1>7

(* The windows above w go down by one in the order and w comes on top.     *)
LEMMA RanksKept ==
  ASSUME NEW n \in Nat, NEW l \in Links(1 .. n), NEW w \in 1 .. n, NEW p \in 1 .. n, p # w,
         l[w].prev # w, l[w].next # w,
         NEW r \in Ranks(n), Upwards(1 .. n, l, r),
         l[w].prev # null /\ l[w].next # null => l[l[w].prev].next = w
  PROVE  \E q \in Ranks(n) : Upwards(1 .. n, InFront(l, w, p), q)
  <1> DEFINE D == 1 .. n
             a == l[w].prev
             b == l[w].next
             t == Top(l, w, p)
             R == InFront(l, w, p)
             q == [x \in D |-> IF x = w THEN n ELSE IF r[x] > r[w] THEN r[x] - 1 ELSE r[x]]
  <1>0. null \notin D
    BY DEF null
  <1>1. \A x \in D : R[x].next = IF x = t THEN w ELSE IF x = w THEN null
                                 ELSE IF x = a THEN b ELSE l[x].next
    BY <1>0, InFrontEffect
  <1> HIDE DEF R
  <1>2. a \in D \cup {null} /\ b \in D \cup {null} /\ t \in D \cup {null} /\ t # w
    BY <1>0, Pointers DEF Top
  <1>3. r \in [D -> 1 .. n] /\ \A x, y \in D : r[x] = r[y] => x = y
    BY DEF Ranks
  <1>4. ASSUME NEW x \in D, x # w
        PROVE  /\ q[x] \in 1 .. n - 1 /\ r[x] \in 1 .. n /\ r[x] # r[w]
               /\ q[x] = IF r[x] > r[w] THEN r[x] - 1 ELSE r[x]
    <2>1. r[x] \in 1 .. n /\ r[w] \in 1 .. n /\ r[x] # r[w]
      BY <1>3, <1>4
    <2>2. q[x] = IF r[x] > r[w] THEN r[x] - 1 ELSE r[x]
      BY <1>4
    <2> HIDE DEF q
    <2> QED BY <2>1, <2>2
  <1>5. q[w] = n
    OBVIOUS
  <1>6. q \in Ranks(n)
    <2>1. q \in [1 .. n -> 1 .. n]
      BY <1>3, <1>4, <1>5
    <2>2. ASSUME NEW x \in D, NEW y \in D, q[x] = q[y] PROVE x = y
      <3>1. CASE x = w \/ y = w
        BY <1>4, <1>5, <2>2, <3>1
      <3>2. CASE x # w /\ y # w
        <4>1. r[x] = r[y]
          <5>1. r[w] \in 1 .. n
            BY <1>3
          <5> HIDE DEF q
          <5> QED BY <1>4, <2>2, <3>2, <5>1
        <4> QED BY <1>3, <4>1
      <3> QED BY <3>1, <3>2
    <2> HIDE DEF q
    <2> QED BY <2>1, <2>2 DEF Ranks
  <1>7. \A x, y \in D : x # w /\ y # w /\ r[x] < r[y] => q[x] < q[y]
    <2> SUFFICES ASSUME NEW x \in D, NEW y \in D, x # w, y # w, r[x] < r[y]
                 PROVE  q[x] < q[y]
      OBVIOUS
    <2>1. r[w] \in 1 .. n
      BY <1>3
    <2> HIDE DEF q
    <2> QED BY <1>4, <2>1
  <1> HIDE DEF q
  <1>8. Upwards(1 .. n, R, q)
    <2> SUFFICES ASSUME NEW x \in D, R[x].next # null PROVE q[x] < q[R[x].next]
      BY DEF Upwards
    <2>1. CASE x = t
      BY <1>1, <1>2, <1>4, <1>5, <2>1
    <2>2. CASE x # t /\ x # w /\ x = a
      <3>1. R[x].next = b /\ a \in D /\ b \in D /\ b # w
        BY <1>1, <1>2, <2>2
      <3>2. a # null /\ b # null
        BY <1>0, <3>1
      <3>3. r[a] < r[w] /\ r[w] < r[b]
        BY <1>0, <3>1, <3>2 DEF Upwards
      <3>4. r[a] < r[b]
        <4>1. r[a] \in 1 .. n /\ r[b] \in 1 .. n /\ r[w] \in 1 .. n
          BY <1>3, <3>1
        <4> QED BY <3>3, <4>1
      <3> QED BY <1>7, <2>2, <3>1, <3>4
    <2>3. CASE x # t /\ x # w /\ x # a
      <3>1. R[x].next = l[x].next /\ l[x].next \in D
        BY <1>1, <2>3, Pointers
      <3>2. r[x] < r[l[x].next]
        BY <2>3, <3>1 DEF Upwards
      <3>3. CASE l[x].next = w
        BY <1>4, <1>5, <2>3, <3>1, <3>3
      <3>4. CASE l[x].next # w
        BY <1>7, <2>3, <3>1, <3>2, <3>4
      <3> QED BY <3>3, <3>4
    <2> QED BY <1>1, <2>1, <2>2, <2>3
  <1> QED BY <1>6, <1>8 DEF R

-----------------------------------------------------------------------------
(* The steps.                                                              *)

\* whatever the pointers are, only pointers are assigned
LEMMA InFrontType ==
  ASSUME NEW D, null \notin D, NEW l \in Links(D), NEW w \in D, NEW p \in D
  PROVE  InFront(l, w, p) \in Links(D)
  <1>1. ASSUME NEW m \in Links(D), NEW x \in D \cup {null}, NEW f \in Fields,
               NEW v \in D \cup {null}
        PROVE  Assign(m, x, f, v) \in Links(D)
    BY <1>1, AssignEffect DEF Assigned
  <1>2. /\ "prev" \in Fields /\ "next" \in Fields
        /\ "first_child" \in Fields /\ "last_child" \in Fields
        /\ w \in D \cup {null} /\ p \in D \cup {null} /\ null \in D \cup {null}
    BY DEF Fields
  <1>3. TakenOut(l, w) \in Links(D)
    <2> DEFINE m == Assign(l, l[w].prev, "next", l[w].next)
    <2>1. m \in Links(D)
      BY <1>1, <1>2, Pointers
    <2> HIDE DEF m
    <2>2. Assign(m, m[w].next, "prev", m[w].prev) \in Links(D)
      BY <1>1, <1>2, <2>1, Pointers
    <2> QED BY <2>2 DEF TakenOut, m
  <1>4. ASSUME NEW m \in Links(D) PROVE EndsWithout(m, w, p) \in Links(D)
    <2> DEFINE e == IF m[p].first_child = w THEN Assign(m, p, "first_child", m[w].next) ELSE m
    <2>1. e \in Links(D)
      BY <1>1, <1>2, Pointers
    <2> HIDE DEF e
    <2>2. Assign(e, p, "last_child", e[w].prev) \in Links(D)
      BY <1>1, <1>2, <2>1, Pointers
    <2> QED BY <2>1, <2>2 DEF EndsWithout, e
  <1>5. ASSUME NEW m \in Links(D) PROVE PutOnTop(m, w, p) \in Links(D)
    <2> DEFINE m0 == Assign(m, w, "prev", m[p].last_child)
               m1 == Assign(m0, w, "next", null)
               m2 == Assign(m1, m1[p].last_child, "next", w)
               m3 == Assign(m2, p, "last_child", w)
    <2>1. m0 \in Links(D)
      BY <1>1, <1>2, Pointers
    <2> HIDE DEF m0
    <2>2. m1 \in Links(D)
      BY <1>1, <1>2, <2>1
    <2> HIDE DEF m1
    <2>3. m2 \in Links(D)
      BY <1>1, <1>2, <2>2, Pointers
    <2> HIDE DEF m2
    <2>4. m3 \in Links(D)
      BY <1>1, <1>2, <2>3
    <2> HIDE DEF m3
    <2>5. Assign(m3, p, "first_child", w) \in Links(D)
      BY <1>1, <1>2, <2>4
    <2> QED BY <2>4, <2>5 DEF PutOnTop, m0, m1, m2, m3
  <1> QED BY <1>3, <1>4, <1>5 DEF InFront

LEMMA CreatedIsNumbers ==
  ASSUME WindowsTypeOK
  PROVE  /\ wm_num_windows \in Nat /\ null \notin Created /\ Created = 1 .. wm_num_windows
         /\ links \in Links(Created) /\ parent \in [Created -> Created \cup {null}]
  BY WindowsAssumption DEF WindowsTypeOK, Created, null, Links, Fields

LEMMA WindowsInitInv == WindowsInit => WindowsInv
  <1> SUFFICES ASSUME WindowsInit PROVE WindowsInv
    OBVIOUS
  <1>1. wm_num_windows = 0 /\ links = <<>> /\ parent = <<>> /\ careless = FALSE /\ tangled = FALSE
    BY DEF WindowsInit
  <1>2. Created = {}
    BY <1>1 DEF Created
  <1>3. <<>> \in [{} -> [Fields -> {} \cup {null}]] /\ <<>> \in [{} -> {} \cup {null}]
    OBVIOUS
  <1>4. WindowsTypeOK
    <2>1. wm_num_windows \in 0 .. MAX_WINDOWS - 1
      BY <1>1, WindowsAssumption
    <2>2. /\ links \in [Created -> [Fields -> Created \cup {null}]]
          /\ parent \in [Created -> Created \cup {null}]
      BY <1>1, <1>2, <1>3
    <2> QED BY <1>1, <2>1, <2>2 DEF WindowsTypeOK, Fields
  <1>5. Families /\ Ends /\ TwoWays
    BY <1>2 DEF Families, Ends, TwoWays
  <1>6. NoCircle
    <2>1. <<>> \in Ranks(0)
      BY <1>2 DEF Ranks
    <2>2. Upwards(Created, links, <<>>)
      BY <1>2 DEF Upwards
    <2> QED BY <1>1, <2>1, <2>2 DEF NoCircle
  <1> QED BY <1>1, <1>4, <1>5, <1>6 DEF WindowsInv

(* A child is brought to the front.                                        *)
LEMMA MoveInv ==
  ASSUME WindowsInv, NEW w \in Created, move_to_front(w)
  PROVE  WindowsInv'
  <1> DEFINE p == parent[w]
             D == Created
  <1>0. /\ p # null /\ links' = InFront(links, w, p) /\ tangled' = careless
        /\ UNCHANGED <<wm_num_windows, parent, careless>>
    BY DEF move_to_front
  <1>1. /\ wm_num_windows \in Nat /\ null \notin D /\ D = 1 .. wm_num_windows
        /\ links \in Links(D) /\ parent \in [D -> D \cup {null}] /\ p \in D /\ D' = D
    BY <1>0, CreatedIsNumbers DEF WindowsInv, Created
  <1>2. WindowsTypeOK'
    <2>1. links' \in Links(D)
      BY <1>0, <1>1, InFrontType
    <2> QED BY <1>0, <1>1, <2>1 DEF WindowsInv, WindowsTypeOK, Links, Fields
  <1>3. CASE careless
    BY <1>0, <1>2, <1>3 DEF WindowsInv
  <1>4. CASE ~careless
    <2>1. ~tangled /\ Families /\ Ends /\ TwoWays
      BY <1>4 DEF WindowsInv
    <2>2. PICK r \in Ranks(wm_num_windows) : Upwards(D, links, r)
      BY <2>1, <1>4 DEF WindowsInv, NoCircle
    <2>3. r[w] \in 1 .. wm_num_windows
      BY <1>1 DEF Ranks
    <2>4. links[w].next # w
      BY <1>1, <2>2, <2>3 DEF Upwards
    <2>5. links[w].prev # null => links[links[w].prev].next = w
      BY <2>1 DEF TwoWays, BackAndForth
    <2>6. links[w].prev # w
      BY <1>1, <2>4, <2>5
    <2>7. w # p
      BY <1>0, <2>1 DEF Families, Family
    <2>8. Listed(D, links, parent, w, p)
      <3>1. \A x \in D : Family(links, parent, x) /\ KinBehind(links, parent, x)
        BY <2>1 DEF Families
      <3>2. \A x \in D : LastIsLast(links, x)
        BY <2>1 DEF Ends
      <3>3. links[w].prev # null => parent[links[w].prev] = p
        BY <3>1 DEF KinBehind
      <3> QED BY <1>1, <2>4, <2>6, <2>7, <3>1, <3>2, <3>3 DEF Listed
    <2>9. (Families /\ Ends)'
      <3>1. \A x \in D : /\ Family(links', parent, x) /\ KinBehind(links', parent, x)
                         /\ LastIsLast(links', x)
        BY <1>0, <2>8, FamilyKept
      <3> QED BY <1>0, <1>1, <3>1 DEF Families, Ends, Family, KinBehind, LastIsLast
    <2>10. TwoWays'
      <3>1. \A x \in D : BackAndForth(links', x)
        BY <1>0, <2>1, <2>5, <2>8, NeighboursKept DEF TwoWays
      <3> QED BY <1>1, <3>1 DEF TwoWays, BackAndForth
    <2>11. NoCircle'
      <3>1. Upwards(1 .. wm_num_windows, links, r)
        BY <1>1, <2>2
      <3>2. \E q \in Ranks(wm_num_windows) : Upwards(1 .. wm_num_windows, InFront(links, w, p), q)
        BY <1>1, <2>4, <2>5, <2>6, <2>7, <3>1, RanksKept
      <3> QED BY <1>0, <1>1, <3>2 DEF NoCircle, Upwards
    <2> QED BY <1>0, <1>2, <2>9, <2>10, <2>11 DEF WindowsInv
  <1> QED BY <1>3, <1>4

\* m is s and one element more
IsLonger(m, s, n, e, T) ==
  /\ m \in [1 .. n + 1 -> T]
  /\ \A x \in 1 .. n : m[x] = s[x]
  /\ m[n + 1] = e

LEMMA Appended ==
  ASSUME NEW n \in Nat, NEW S, NEW T, S \subseteq T, NEW s \in [1 .. n -> S], NEW e \in T
  PROVE  IsLonger(Append(s, e), s, n, e, T)
  <1>1. s \in Seq(T)
    <2>1. s \in [1 .. n -> T]
      OBVIOUS
    <2> QED BY <2>1, SeqDef
  <1>2. Len(s) = n
    BY <1>1, LenProperties
  <1>3. /\ Append(s, e) \in Seq(T) /\ Len(Append(s, e)) = n + 1
        /\ \A x \in 1 .. n : Append(s, e)[x] = s[x]
        /\ Append(s, e)[n + 1] = e
    BY <1>1, <1>2, AppendProperties
  <1>4. Append(s, e) \in [1 .. n + 1 -> T]
    BY <1>3, LenProperties
  <1> QED BY <1>3, <1>4 DEF IsLonger

\* the table with one window more, w, which is in no list yet
Grown(n, w, D, e, pp, l, par) ==
  /\ n = wm_num_windows /\ w = n + 1 /\ D = 1 .. w
  /\ e \in [Fields -> D \cup {null}] /\ pp \in Created \cup {null}
  /\ e.next = null /\ e.first_child = null /\ e.last_child = null
  /\ l = Append(links, e) /\ par = Append(parent, pp)

LEMMA EnlargedTables ==
  ASSUME WindowsInv, NEW n, NEW w, NEW D, NEW e, NEW pp, NEW l, NEW par,
         Grown(n, w, D, e, pp, l, par)
  PROVE  /\ n \in Nat /\ null \notin Created /\ Created = 1 .. n
         /\ null \notin D /\ w \in D /\ w \notin Created /\ Created = D \ {w} /\ w # null
         /\ l \in Links(D) /\ l[w] = e /\ par \in [D -> D \cup {null}] /\ par[w] = pp
         /\ \A x \in Created : l[x] = links[x] /\ par[x] = parent[x]
  <1>0. /\ n = wm_num_windows /\ w = n + 1 /\ D = 1 .. w
        /\ e \in [Fields -> D \cup {null}] /\ pp \in Created \cup {null}
        /\ l = Append(links, e) /\ par = Append(parent, pp)
    BY DEF Grown
  <1>1. /\ n \in Nat /\ null \notin Created /\ Created = 1 .. n
        /\ links \in Links(Created) /\ parent \in [Created -> Created \cup {null}]
    BY <1>0, CreatedIsNumbers DEF WindowsInv
  <1>2. null \notin D /\ w \in D /\ w \notin Created /\ Created = D \ {w} /\ w # null
    BY <1>0, <1>1 DEF null
  <1>3. l \in Links(D) /\ l[w] = e /\ \A x \in Created : l[x] = links[x]
    <2>0. PICK S, T : S = [Fields -> Created \cup {null}] /\ T = [Fields -> D \cup {null}]
      OBVIOUS
    <2>1. S \subseteq T
      BY <1>0, <1>1, <2>0
    <2>2. links \in [1 .. n -> S] /\ e \in T
      BY <1>0, <1>1, <2>0 DEF Links
    <2>3. Links(D) = [1 .. n + 1 -> T]
      BY <1>0, <2>0 DEF Links
    <2>4. IsLonger(Append(links, e), links, n, e, T)
      <3>1. n \in Nat
        BY <1>1
      <3> QED BY <2>1, <2>2, <3>1, Appended
    <2> QED BY <1>0, <1>1, <2>3, <2>4 DEF IsLonger
  <1>4. par \in [D -> D \cup {null}] /\ par[w] = pp /\ \A x \in Created : par[x] = parent[x]
    <2>0. PICK S, T : S = Created \cup {null} /\ T = D \cup {null}
      OBVIOUS
    <2>1. S \subseteq T /\ pp \in T /\ parent \in [1 .. n -> S]
      BY <1>0, <1>1, <2>0
    <2>2. [D -> D \cup {null}] = [1 .. n + 1 -> T]
      BY <1>0, <2>0
    <2>3. IsLonger(Append(parent, pp), parent, n, pp, T)
      <3>1. n \in Nat
        BY <1>1
      <3> QED BY <2>1, <3>1, Appended
    <2> QED BY <1>0, <1>1, <2>2, <2>3 DEF IsLonger
  <1> QED BY <1>1, <1>2, <1>3, <1>4

(* What is known of the lists is known of the larger table.                *)
LEMMA EnlargedLists ==
  ASSUME WindowsInv, NEW n, NEW w, NEW D, NEW e, NEW pp, NEW l, NEW par,
         Grown(n, w, D, e, pp, l, par)
  PROVE  /\ ~tangled =>
              /\ \A x \in D : LastIsLast(l, x)
              /\ \A x \in Created : Family(l, par, x) /\ KinBehind(l, par, x)
              /\ (pp # null => parent[pp] = null) => Family(l, par, w)
              /\ \E r \in Ranks(w) : Upwards(D, l, r)
         /\ ~careless => \A x \in Created : BackAndForth(l, x)
  <1>1. /\ n \in Nat /\ null \notin Created /\ Created = 1 .. n
        /\ null \notin D /\ w \in D /\ w \notin Created /\ Created = D \ {w} /\ w # null
    BY EnlargedTables
  <1>2. /\ links \in Links(Created) /\ \A x \in Created : parent[x] \in Created \cup {null}
    BY CreatedIsNumbers DEF WindowsInv
  <1>3. l \in Links(D) /\ l[w] = e /\ \A x \in Created : l[x] = links[x]
    BY EnlargedTables
  <1>4. par \in [D -> D \cup {null}] /\ par[w] = pp /\ \A x \in Created : par[x] = parent[x]
    BY EnlargedTables
  <1>5. \A x \in Created :
          /\ links[x].prev \in Created \cup {null} /\ links[x].next \in Created \cup {null}
          /\ links[x].first_child \in Created \cup {null}
          /\ links[x].last_child \in Created \cup {null}
    BY <1>2, Pointers
  <1>6. ASSUME ~careless, NEW x \in Created PROVE BackAndForth(l, x)
    <2>1. BackAndForth(links, x)
      BY <1>6 DEF WindowsInv, TwoWays
    <2>2. l[x] = links[x] /\ (links[x].prev # null => l[links[x].prev] = links[links[x].prev])
      BY <1>3, <1>5
    <2> QED BY <2>1, <2>2 DEF BackAndForth
  <1>7. ASSUME ~tangled
        PROVE  /\ \A x \in D : LastIsLast(l, x)
               /\ \A x \in Created : Family(l, par, x) /\ KinBehind(l, par, x)
               /\ (pp # null => parent[pp] = null) => Family(l, par, w)
               /\ \E r \in Ranks(w) : Upwards(D, l, r)
    <2>1. Families /\ Ends /\ NoCircle
      BY <1>7 DEF WindowsInv
    <2>2. ASSUME NEW x \in Created PROVE Family(l, par, x) /\ KinBehind(l, par, x)
      <3>1. Family(links, parent, x) /\ KinBehind(links, parent, x)
        BY <2>1 DEF Families
      <3>2. l[x] = links[x] /\ par[x] = parent[x] /\ parent[x] \in Created \cup {null}
        BY <1>2, <1>3, <1>4
      <3>3. \A y \in {links[x].next, links[x].prev, links[x].first_child, links[x].last_child,
                      parent[x]} : y # null => par[y] = parent[y]
        BY <1>4, <1>5, <3>2
      <3> QED BY <3>1, <3>2, <3>3 DEF Family, KinBehind
    <2>3. ASSUME NEW x \in D PROVE LastIsLast(l, x)
      <3>1. CASE x = w
        BY <1>3, <3>1 DEF Grown, LastIsLast
      <3>2. CASE x # w
        <4>1. x \in Created /\ LastIsLast(links, x)
          BY <1>1, <2>1, <3>2 DEF Ends
        <4>2. l[x] = links[x] /\ (links[x].last_child # null =>
                                    l[links[x].last_child] = links[links[x].last_child])
          BY <1>3, <1>5, <4>1
        <4> QED BY <4>1, <4>2 DEF LastIsLast
      <3> QED BY <3>1, <3>2
    <2>4. ASSUME pp # null => parent[pp] = null PROVE Family(l, par, w)
      <3>1. l[w].next = null /\ l[w].first_child = null /\ l[w].last_child = null
        BY <1>3 DEF Grown
      <3>2. par[w] # null => par[par[w]] = null
        BY <1>4, <2>4 DEF Grown
      <3> QED BY <3>1, <3>2 DEF Family
    <2>5. \E r \in Ranks(w) : Upwards(D, l, r)
      <3>0. w = n + 1 /\ D = 1 .. w
        BY DEF Grown
      <3>1. PICK r \in Ranks(n) : Upwards(Created, links, r)
        BY <2>1 DEF NoCircle, Grown
      <3>2. r \in [1 .. n -> 1 .. n] /\ \A x, y \in 1 .. n : r[x] = r[y] => x = y
        BY <3>1 DEF Ranks
      <3> DEFINE q == [x \in 1 .. w |-> IF x = w THEN w ELSE r[x]]
      <3>3. /\ \A x \in Created : q[x] = r[x] /\ r[x] \in 1 .. n /\ r[x] # w
            /\ q[w] = w
        BY <1>1, <3>0, <3>2
      <3>4. q \in Ranks(w)
        <4>1. q \in [1 .. w -> 1 .. w]
          BY <1>1, <3>0, <3>2
        <4>2. ASSUME NEW x \in 1 .. w, NEW y \in 1 .. w, q[x] = q[y] PROVE x = y
          <5> HIDE DEF q
          <5>1. CASE x = w \/ y = w
            BY <1>1, <3>0, <3>3, <4>2, <5>1
          <5>2. CASE x # w /\ y # w
            <6>1. x \in 1 .. n /\ y \in 1 .. n
              BY <1>1, <3>0, <5>2
            <6> QED BY <1>1, <3>2, <3>3, <4>2, <6>1
          <5> QED BY <5>1, <5>2
        <4> HIDE DEF q
        <4> QED BY <4>1, <4>2 DEF Ranks
      <3> HIDE DEF q
      <3>5. Upwards(D, l, q)
        <4> SUFFICES ASSUME NEW x \in D, l[x].next # null PROVE q[x] < q[l[x].next]
          BY DEF Upwards
        <4>1. x \in Created /\ l[x] = links[x]
          <5>1. x # w
            BY <1>3 DEF Grown
          <5> QED BY <1>1, <1>3, <5>1
        <4>2. links[x].next \in Created /\ r[x] < r[links[x].next]
          BY <1>5, <3>1, <4>1 DEF Upwards
        <4> QED BY <3>3, <4>1, <4>2
      <3> QED BY <3>4, <3>5
    <2> QED BY <2>2, <2>3, <2>4, <2>5
  <1> QED BY <1>6, <1>7

\* a step by which there is one window more, with the tables l and par
LEMMA OneMore ==
  ASSUME WindowsTypeOK, HasRoom, wm_num_windows' = wm_num_windows + 1, UNCHANGED tangled,
         careless' \in BOOLEAN, careless => careless', tangled => careless,
         NEW D, D = 1 .. wm_num_windows + 1,
         links' \in Links(D), parent' \in [D -> D \cup {null}],
         ~tangled => /\ \A x \in D : /\ Family(links', parent', x) /\ KinBehind(links', parent', x)
                                     /\ LastIsLast(links', x)
                     /\ \E r \in Ranks(wm_num_windows + 1) : Upwards(D, links', r),
         ~careless' => \A x \in D : BackAndForth(links', x)
  PROVE  WindowsInv'
  <1>1. Created' = D
    BY DEF Created
  <1>2. WindowsTypeOK'
    <2>1. wm_num_windows' \in 0 .. MAX_WINDOWS - 1
      BY WindowsAssumption DEF HasRoom, WindowsTypeOK
    <2>2. tangled' \in BOOLEAN
      BY DEF WindowsTypeOK
    <2> QED BY <1>1, <2>1, <2>2 DEF WindowsTypeOK, Links, Fields
  <1>3. ~tangled => (Families /\ Ends)'
    BY <1>1 DEF Families, Ends, Family, KinBehind, LastIsLast
  <1>4. ~tangled => NoCircle'
    BY <1>1 DEF NoCircle, Upwards
  <1>5. ~careless' => TwoWays'
    BY <1>1 DEF TwoWays, BackAndForth
  <1> QED BY <1>2, <1>3, <1>4, <1>5 DEF WindowsInv

(* A window that stands alone.                                             *)
LEMMA CreateAloneInv ==
  ASSUME WindowsInv, HasRoom, wm_num_windows' = wm_num_windows + 1, UNCHANGED tangled,
         CreateAlone(wm_num_windows + 1)
  PROVE  WindowsInv'
  <1> DEFINE D   == 1 .. wm_num_windows + 1
             w   == wm_num_windows + 1
  <1>1. links' = Append(links, Unlinked) /\ parent' = Append(parent, null) /\ careless' = careless
    BY DEF CreateAlone
  <1>2. /\ Unlinked \in [Fields -> (1 .. wm_num_windows + 1) \cup {null}]
        /\ Unlinked.prev = null /\ Unlinked.next = null
        /\ Unlinked.first_child = null /\ Unlinked.last_child = null
    BY DEF Unlinked, Fields
  <1>3. /\ null \notin D /\ w \in D /\ Created = D \ {w}
        /\ links' \in Links(D) /\ parent' \in [D -> D \cup {null}]
        /\ links'[w] = Unlinked /\ parent'[w] = null
        /\ ~tangled =>
             /\ \A x \in D : LastIsLast(links', x)
             /\ \A x \in Created : Family(links', parent', x) /\ KinBehind(links', parent', x)
             /\ Family(links', parent', w)
             /\ \E r \in Ranks(w) : Upwards(D, links', r)
        /\ ~careless => \A x \in Created : BackAndForth(links', x)
    <2>1. PICK n, e, l, par : /\ n = wm_num_windows /\ e = Unlinked
                              /\ l = Append(links, Unlinked) /\ par = Append(parent, null)
      OBVIOUS
    <2>2. links' = l /\ parent' = par
      BY <1>1, <2>1
    <2>3. Grown(n, w, D, e, null, l, par)
      BY <1>2, <2>1 DEF Grown
    <2> HIDE DEF D, w
    <2>4. /\ null \notin D /\ w \in D /\ Created = D \ {w}
          /\ l \in Links(D) /\ par \in [D -> D \cup {null}]
          /\ l[w] = e /\ par[w] = null
      BY <2>3, EnlargedTables
    <2>5. /\ ~tangled =>
               /\ \A x \in D : LastIsLast(l, x)
               /\ \A x \in Created : Family(l, par, x) /\ KinBehind(l, par, x)
               /\ Family(l, par, w)
               /\ \E r \in Ranks(w) : Upwards(D, l, r)
          /\ ~careless => \A x \in Created : BackAndForth(l, x)
      BY <2>3, EnlargedLists
    <2> QED BY <2>1, <2>2, <2>4, <2>5
  <1>4. KinBehind(links', parent', w) /\ BackAndForth(links', w)
    BY <1>2, <1>3 DEF KinBehind, BackAndForth
  <1>5. WindowsTypeOK /\ (tangled => careless) /\ careless \in BOOLEAN
    BY DEF WindowsInv, WindowsTypeOK
  <1> HIDE <1>1
  <1> HIDE DEF D
  <1>6. /\ \A x \in D : ~tangled =>
             Family(links', parent', x) /\ KinBehind(links', parent', x) /\ LastIsLast(links', x)
        /\ \A x \in D : ~careless => BackAndForth(links', x)
    BY <1>3, <1>4
  <1>7. D = 1 .. wm_num_windows + 1
    BY DEF D
  <1> QED BY <1>1, <1>3, <1>5, <1>6, <1>7, OneMore

(* A window beside or under another one.                                   *)
LEMMA CreateBesideInv ==
  ASSUME WindowsInv, HasRoom, wm_num_windows' = wm_num_windows + 1, UNCHANGED tangled,
         NEW prev_wind \in Created, CreateBeside(wm_num_windows + 1, prev_wind)
  PROVE  WindowsInv'
  <1> DEFINE D   == 1 .. wm_num_windows + 1
             w   == wm_num_windows + 1
             e   == [Unlinked EXCEPT !.prev = prev_wind]
             p   == ParentFor(prev_wind)
             l   == Append(links, e)
             par == Append(parent, p)
  <1>1. /\ links' = InFront(l, w, p) /\ parent' = par
        /\ careless' = (careless \/ (parent[prev_wind] # null /\ links[p].last_child # prev_wind))
    BY DEF CreateBeside
  <1>2. /\ wm_num_windows \in Nat /\ null \notin Created /\ Created = 1 .. wm_num_windows
        /\ links \in Links(Created) /\ parent \in [Created -> Created \cup {null}]
        /\ WindowsTypeOK /\ (tangled => careless) /\ careless \in BOOLEAN
    BY CreatedIsNumbers DEF WindowsInv, WindowsTypeOK
  <1>3. p \in Created /\ (parent[prev_wind] = null => p = prev_wind)
        /\ (parent[prev_wind] # null => p = parent[prev_wind])
    BY <1>2 DEF ParentFor
  <1>4. /\ e \in [Fields -> D \cup {null}] /\ e.prev = prev_wind
        /\ e.next = null /\ e.first_child = null /\ e.last_child = null
    BY <1>2 DEF Unlinked, Fields
  <1> HIDE DEF e, p
  <1>5. /\ null \notin D /\ w \in D /\ w \notin Created /\ Created = D \ {w}
        /\ l \in Links(D) /\ par \in [D -> D \cup {null}]
        /\ l[w] = e /\ par[w] = p
        /\ \A x \in Created : l[x] = links[x] /\ par[x] = parent[x]
        /\ ~tangled =>
             /\ \A x \in D : LastIsLast(l, x)
             /\ \A x \in Created : Family(l, par, x) /\ KinBehind(l, par, x)
             /\ (p # null => parent[p] = null) => Family(l, par, w)
             /\ \E r \in Ranks(w) : Upwards(D, l, r)
        /\ ~careless => \A x \in Created : BackAndForth(l, x)
    <2>1. PICK n : n = wm_num_windows
      OBVIOUS
    <2>2. Grown(n, w, D, e, p, l, par)
      BY <1>3, <1>4, <2>1 DEF Grown
    <2> HIDE DEF l, par, D, w
    <2>3. /\ null \notin D /\ w \in D /\ w \notin Created /\ Created = D \ {w}
          /\ l \in Links(D) /\ par \in [D -> D \cup {null}]
          /\ l[w] = e /\ par[w] = p
          /\ \A x \in Created : l[x] = links[x] /\ par[x] = parent[x]
      BY <2>2, EnlargedTables
    <2>4. /\ ~tangled =>
               /\ \A x \in D : LastIsLast(l, x)
               /\ \A x \in Created : Family(l, par, x) /\ KinBehind(l, par, x)
               /\ (p # null => parent[p] = null) => Family(l, par, w)
               /\ \E r \in Ranks(w) : Upwards(D, l, r)
          /\ ~careless => \A x \in Created : BackAndForth(l, x)
      BY <2>2, EnlargedLists
    <2> QED BY <2>3, <2>4
  <1> HIDE DEF l, par, D, w
  <1>6. p \in D /\ p # w /\ prev_wind \in D /\ prev_wind # w /\ prev_wind # null
    BY <1>2, <1>3, <1>5
  <1>7. links' \in Links(D)
    BY <1>1, <1>5, <1>6, InFrontType
  <1>8. ASSUME ~tangled
        PROVE  /\ Listed(D, l, par, w, p) /\ parent[p] = null
               /\ links[p].next = null
    <2>1. Families
      BY <1>8 DEF WindowsInv
    <2>2. \A x \in Created : Family(links, parent, x)
      BY <2>1 DEF Families
    <2>3. parent[p] = null
      <3>1. CASE parent[prev_wind] = null
        BY <1>3, <3>1
      <3>2. CASE parent[prev_wind] # null
        BY <1>3, <2>2, <3>2 DEF Family
      <3> QED BY <3>1, <3>2
    <2>4. links[p].next = null
      BY <1>3, <2>2, <2>3 DEF Family
    <2>5. New(l, w, p)
      <3>1. links[p].last_child \in Created \cup {null}
        BY <1>2, <1>3, Pointers
      <3>2. w # null
        BY <1>5
      <3>3. l[p] = links[p]
        BY <1>3, <1>5
      <3> QED BY <1>4, <1>5, <3>1, <3>2, <3>3 DEF New
    <2>6. l[w].prev # w /\ l[w].next # w
      BY <1>4, <1>5, <1>6
    <2>7. \A x \in D : Family(l, par, x) /\ LastIsLast(l, x)
      BY <1>5, <1>8, <2>3
    <2>8. \A x \in D \ {w} : KinBehind(l, par, x)
      BY <1>5, <1>8
    <2> QED BY <1>5, <1>6, <2>3, <2>4, <2>5, <2>6, <2>7, <2>8 DEF Listed
  <1>9. ASSUME ~tangled
        PROVE  /\ \A x \in D : /\ Family(links', parent', x) /\ KinBehind(links', parent', x)
                               /\ LastIsLast(links', x)
               /\ \E r \in Ranks(wm_num_windows + 1) : Upwards(D, links', r)
    <2>1. \A x \in D : /\ Family(links', parent', x) /\ KinBehind(links', parent', x)
                       /\ LastIsLast(links', x)
      BY <1>1, <1>8, <1>9, FamilyKept
    <2>2. PICK r \in Ranks(wm_num_windows + 1) : Upwards(D, l, r)
      BY <1>5, <1>9 DEF w
    <2>3. \E q \in Ranks(wm_num_windows + 1) : Upwards(D, InFront(l, w, p), q)
      <3>1. l[w].next = null /\ l[w].prev # w /\ l[w].next # w
        BY <1>4, <1>5, <1>6
      <3>2. wm_num_windows + 1 \in Nat
        BY <1>2
      <3> QED BY <1>5, <1>6, <2>2, <3>1, <3>2, RanksKept DEF D
    <2> QED BY <1>1, <2>1, <2>3
  <1>10. ASSUME ~careless'
         PROVE  \A x \in D : BackAndForth(links', x)
    <2>1. /\ ~careless /\ ~tangled
          /\ parent[prev_wind] # null => links[p].last_child = prev_wind
      BY <1>1, <1>2, <1>10
    <2>2. links[prev_wind].next = null
      <3>1. CASE parent[prev_wind] = null
        BY <1>3, <1>8, <2>1, <3>1
      <3>2. CASE parent[prev_wind] # null
        <4>1. LastIsLast(links, p)
          BY <1>3, <2>1 DEF WindowsInv, Ends
        <4> QED BY <1>6, <2>1, <3>2, <4>1 DEF LastIsLast
      <3> QED BY <3>1, <3>2
    <2>3. New(l, w, p)
      <3>1. links[p].last_child \in Created \cup {null} /\ l[p] = links[p]
        BY <1>2, <1>3, <1>5, Pointers
      <3> QED BY <1>4, <1>5, <3>1 DEF New
    <2>4. l[w].prev = prev_wind /\ l[prev_wind].next = null
      BY <1>4, <1>5, <2>2
    <2>5. \A x \in D \ {w} : BackAndForth(l, x)
      BY <1>5, <2>1
    <2>6. \A x \in D : BackAndForth(InFront(l, w, p), x)
      BY <1>8, <2>1, <2>3, <2>4, <2>5, NeighboursKept
    <2> QED BY <1>1, <2>6
  <1>11. D = 1 .. wm_num_windows + 1 /\ parent' \in [D -> D \cup {null}]
    BY <1>1, <1>5 DEF D
  <1>12. careless' \in BOOLEAN /\ (careless => careless')
    BY <1>1
  <1> QED BY <1>2, <1>7, <1>9, <1>10, <1>11, <1>12, OneMore

LEMMA WindowsStepInv == WindowsInv /\ [WindowsNext]_windowVars => WindowsInv'
  <1> SUFFICES ASSUME WindowsInv, [WindowsNext]_windowVars PROVE WindowsInv'
    OBVIOUS
  <1>1. CASE create_window
    <2>1. HasRoom /\ wm_num_windows' = wm_num_windows + 1 /\ UNCHANGED tangled
      BY <1>1 DEF create_window
    <2>2. CASE CreateAlone(wm_num_windows')
      BY <2>1, <2>2, CreateAloneInv
    <2>3. CASE \E prev_wind \in Created : CreateBeside(wm_num_windows', prev_wind)
      BY <2>1, <2>3, CreateBesideInv
    <2> QED BY <1>1, <2>2, <2>3 DEF create_window
  <1>2. CASE \E w \in Created : move_to_front(w)
    BY <1>2, MoveInv
  <1>3. CASE UNCHANGED windowVars
    BY <1>3 DEF windowVars, WindowsInv, WindowsTypeOK, Families, Family, KinBehind, Ends,
                LastIsLast, NoCircle, Upwards, TwoWays, BackAndForth, Created
  <1> QED BY <1>1, <1>2, <1>3 DEF WindowsNext

LEMMA WindowsInvariant == WindowsSpec => []WindowsInv
  BY WindowsInitInv, WindowsStepInv, PTL DEF WindowsSpec

-----------------------------------------------------------------------------
(* The children as repaint_children goes through them.                     *)

(* What holds of 0 and goes from each number to the next holds of all: or  *)
(* there would be a least one of which it does not.                        *)
LEMMA Induction ==
  ASSUME NEW S, 0 \in S, \A n \in Nat : n \in S => n + 1 \in S
  PROVE  Nat \subseteq S
  <1> SUFFICES ASSUME Nat \ S # {} PROVE FALSE
    OBVIOUS
  <1>1. IsWellFoundedOn(OpToRel(<, Nat), Nat)
    BY NatLessThanWellFounded
  <1>2. PICK x \in Nat \ S : \A y \in Nat \ S : ~ (<<y, x>> \in OpToRel(<, Nat))
    BY <1>1, WFMin
  <1>3. \A y \in Nat \ S : ~ (y < x)
    BY <1>2 DEF OpToRel
  <1>4. x # 0 /\ x - 1 \in Nat /\ x - 1 < x /\ x = (x - 1) + 1
    OBVIOUS
  <1>5. x - 1 \in S
    BY <1>3, <1>4
  <1> QED BY <1>4, <1>5

After(x) == IF x = null THEN null ELSE links[x].next

\* f holds the first n children of w, null from the end on
IsWalk(f, w, n) ==
  f = [k \in 1 .. n |-> IF k = 1 THEN links[w].first_child ELSE After(f[k - 1])]

LEMMA WalkExists ==
  ASSUME NEW w, NEW n \in Nat
  PROVE  \E f : IsWalk(f, w, n)
  <1> DEFINE S == {k \in Nat : \E f : IsWalk(f, w, k)}
  <1>1. 0 \in S
    <2> DEFINE f == [k \in 1 .. 0 |-> null]
    <2>1. IsWalk(f, w, 0)
      BY DEF IsWalk
    <2> QED BY <2>1
  <1>2. ASSUME NEW k \in Nat, k \in S PROVE k + 1 \in S
    <2>1. PICK f : IsWalk(f, w, k)
      BY <1>2
    <2> DEFINE last == IF k = 0 THEN links[w].first_child ELSE After(f[k])
               g    == [m \in 1 .. k + 1 |-> IF m = k + 1 THEN last ELSE f[m]]
    <2>2. ASSUME NEW m \in 1 .. k + 1
          PROVE  g[m] = IF m = 1 THEN links[w].first_child ELSE After(g[m - 1])
      <3>1. CASE m = k + 1
        BY <3>1
      <3>2. CASE m # k + 1
        <4>1. m \in 1 .. k /\ g[m] = f[m] /\ (m # 1 => g[m - 1] = f[m - 1])
          BY <3>2
        <4>2. f[m] = IF m = 1 THEN links[w].first_child ELSE After(f[m - 1])
          BY <2>1, <4>1 DEF IsWalk
        <4> QED BY <4>1, <4>2
      <3> QED BY <3>1, <3>2
    <2> HIDE DEF last
    <2>3. IsWalk(g, w, k + 1)
      BY <2>2 DEF IsWalk
    <2> QED BY <2>3
  <1> HIDE DEF S
  <1>3. Nat \subseteq S
    BY <1>1, <1>2, Induction
  <1> QED BY <1>3 DEF S

LEMMA ChildIsAWalk ==
  ASSUME NEW w, NEW n \in Nat \ {0}
  PROVE  \E f : IsWalk(f, w, n) /\ Child(w, n) = f[n]
  <1> DEFINE f == CHOOSE g : g = [k \in 1 .. n |->
                    IF k = 1 THEN links[w].first_child
                    ELSE IF g[k - 1] = null THEN null ELSE links[g[k - 1]].next]
  <1>1. Child(w, n) = f[n]
    BY DEF Child
  <1>2. \E g : g = [k \in 1 .. n |->
                     IF k = 1 THEN links[w].first_child
                     ELSE IF g[k - 1] = null THEN null ELSE links[g[k - 1]].next]
    <2>1. PICK g : IsWalk(g, w, n)
      BY WalkExists
    <2> QED BY <2>1 DEF IsWalk, After
  <1>3. f = [k \in 1 .. n |-> IF k = 1 THEN links[w].first_child
                              ELSE IF f[k - 1] = null THEN null ELSE links[f[k - 1]].next]
    BY <1>2
  <1> QED BY <1>1, <1>3 DEF IsWalk, After

(* The loop's equations: the first child, and the next one of a child.     *)
LEMMA ChildEquations ==
  ASSUME NEW w
  PROVE  /\ Child(w, 1) = links[w].first_child
         /\ \A n \in Nat \ {0} : Child(w, n + 1) = After(Child(w, n))
  <1>1. Child(w, 1) = links[w].first_child
    <2>1. PICK f : IsWalk(f, w, 1) /\ Child(w, 1) = f[1]
      BY ChildIsAWalk
    <2> QED BY <2>1 DEF IsWalk
  <1>2. ASSUME NEW n \in Nat \ {0} PROVE Child(w, n + 1) = After(Child(w, n))
    <2>1. PICK f : IsWalk(f, w, n) /\ Child(w, n) = f[n]
      BY ChildIsAWalk
    <2>2. n + 1 \in Nat \ {0}
      OBVIOUS
    <2>3. PICK g : IsWalk(g, w, n + 1) /\ Child(w, n + 1) = g[n + 1]
      BY <2>2, ChildIsAWalk
    <2> DEFINE S == {k \in Nat : k + 1 <= n => f[k + 1] = g[k + 1]}
    <2>4. 0 \in S
      BY <2>1, <2>3 DEF IsWalk
    <2>5. ASSUME NEW k \in Nat, k \in S PROVE k + 1 \in S
      <3> SUFFICES ASSUME k + 2 <= n PROVE f[k + 2] = g[k + 2]
        OBVIOUS
      <3>1. f[k + 1] = g[k + 1]
        BY <2>5
      <3>2. f[k + 2] = After(f[k + 1])
        BY <2>1 DEF IsWalk
      <3>3. g[k + 2] = After(g[k + 1])
        BY <2>3 DEF IsWalk
      <3> QED BY <3>1, <3>2, <3>3
    <2> HIDE DEF S
    <2>6. n - 1 \in S
      <3>1. Nat \subseteq S
        BY <2>4, <2>5, Induction
      <3>2. n - 1 \in Nat
        OBVIOUS
      <3> QED BY <3>1, <3>2
    <2>7. f[n] = g[n]
      BY <2>6 DEF S
    <2>8. g[n + 1] = After(g[n])
      BY <2>3 DEF IsWalk
    <2> QED BY <2>1, <2>3, <2>7, <2>8
  <1> QED BY <1>1, <1>2

(* The order of the windows goes up along the children, so that the n-th   *)
(* of them is at place n or beyond, and there are no more than windows.    *)
LEMMA ChildrenGoUpwards ==
  ASSUME WindowsInv, ~tangled, NEW w \in Created,
         NEW r \in Ranks(wm_num_windows), Upwards(Created, links, r)
  PROVE  \A n \in Nat \ {0} : Child(w, n) # null =>
           /\ Child(w, n) \in Created /\ parent[Child(w, n)] = w
           /\ r[Child(w, n)] >= n
           /\ \A m \in 1 .. n - 1 : Child(w, m) \in Created /\ r[Child(w, m)] < r[Child(w, n)]
  <1>1. /\ wm_num_windows \in Nat /\ null \notin Created /\ Created = 1 .. wm_num_windows
        /\ links \in Links(Created)
    BY CreatedIsNumbers DEF WindowsInv
  <1>2. \A x \in Created : Family(links, parent, x)
    BY DEF WindowsInv, Families
  <1>3. r \in [1 .. wm_num_windows -> 1 .. wm_num_windows]
    BY DEF Ranks
  <1> DEFINE Good(n) == Child(w, n) # null =>
               /\ Child(w, n) \in Created /\ parent[Child(w, n)] = w
               /\ r[Child(w, n)] >= n
               /\ \A m \in 1 .. n - 1 : Child(w, m) \in Created /\ r[Child(w, m)] < r[Child(w, n)]
             S == {n \in Nat : Good(n + 1)}
  <1>4. 0 \in S
    <2>1. Child(w, 1) = links[w].first_child /\ links[w].first_child \in Created \cup {null}
      BY <1>1, ChildEquations, Pointers
    <2>2. Child(w, 1) # null => parent[Child(w, 1)] = w
      BY <1>2, <2>1 DEF Family
    <2>3. Child(w, 1) # null => Child(w, 1) \in Created /\ r[Child(w, 1)] >= 1
      BY <1>1, <1>3, <2>1
    <2>4. Good(1)
      BY <2>2, <2>3
    <2> QED BY <2>4
  <1>5. ASSUME NEW n \in Nat, n \in S PROVE n + 1 \in S
    <2>1. Good(n + 1)
      BY <1>5
    <2> DEFINE x == Child(w, n + 1)
               y == Child(w, n + 2)
    <2>2. y = After(x)
      <3>1. n + 1 \in Nat \ {0} /\ (n + 1) + 1 = n + 2
        OBVIOUS
      <3>2. Child(w, (n + 1) + 1) = After(Child(w, n + 1))
        BY <3>1, ChildEquations
      <3> QED BY <3>1, <3>2
    <2>3. ASSUME y # null
          PROVE  /\ y \in Created /\ parent[y] = w /\ r[y] >= n + 2
                 /\ \A m \in 1 .. n + 1 : Child(w, m) \in Created /\ r[Child(w, m)] < r[y]
      <3>1. /\ x # null /\ x \in Created /\ parent[x] = w /\ r[x] >= n + 1
            /\ \A m \in 1 .. n : Child(w, m) \in Created /\ r[Child(w, m)] < r[x]
        BY <2>1, <2>2, <2>3 DEF After
      <3>2. y = links[x].next /\ y \in Created
        BY <1>1, <2>2, <2>3, <3>1, Pointers DEF After
      <3>3. parent[y] = w
        BY <1>2, <2>3, <3>1, <3>2 DEF Family
      <3>4. r[x] < r[y] /\ r[x] \in Nat /\ r[y] \in Nat
        <4>1. links[x].next # null => r[x] < r[links[x].next]
          BY <3>1 DEF Upwards
        <4>2. x \in 1 .. wm_num_windows /\ y \in 1 .. wm_num_windows
          BY <1>1, <3>1, <3>2
        <4> HIDE DEF x, y
        <4> QED BY <1>3, <2>3, <3>2, <4>1, <4>2
      <3>5. ASSUME NEW m \in 1 .. n + 1 PROVE Child(w, m) \in Created /\ r[Child(w, m)] < r[y]
        <4>1. CASE m = n + 1
          BY <3>1, <3>4, <4>1
        <4>2. CASE m # n + 1
          <5>1. m \in 1 .. n
            BY <4>2
          <5>2. Child(w, m) \in Created /\ r[Child(w, m)] < r[x]
            BY <3>1, <5>1
          <5>3. r[Child(w, m)] \in Nat
            BY <1>1, <1>3, <5>2
          <5> QED BY <3>4, <5>2, <5>3
        <4> QED BY <4>1, <4>2
      <3> QED BY <3>1, <3>2, <3>3, <3>4, <3>5
    <2> QED BY <2>3
  <1> HIDE DEF S
  <1>6. Nat \subseteq S
    BY <1>4, <1>5, Induction
  <1>7. ASSUME NEW n \in Nat \ {0} PROVE Good(n)
    <2>1. n - 1 \in S /\ (n - 1) + 1 = n
      BY <1>6
    <2> QED BY <2>1 DEF S
  <1> QED BY <1>7

LEMMA PaintingComesToAnEnd == WindowsInv => PaintingEnds
  <1> SUFFICES ASSUME WindowsInv, ~tangled, NEW w \in Created
               PROVE  /\ Child(w, wm_num_windows + 1) = null
                      /\ IsInjective(Painted(w))
                      /\ \A x \in ToSet(Painted(w)) : parent[x] = w /\ links[x].first_child = null
    BY DEF PaintingEnds
  <1>1. /\ wm_num_windows \in Nat /\ null \notin Created /\ Created = 1 .. wm_num_windows
    BY CreatedIsNumbers DEF WindowsInv
  <1>2. PICK r \in Ranks(wm_num_windows) : Upwards(Created, links, r)
    BY DEF WindowsInv, NoCircle
  <1>3. \A n \in Nat \ {0} : Child(w, n) # null =>
          /\ Child(w, n) \in Created /\ parent[Child(w, n)] = w
          /\ r[Child(w, n)] >= n
          /\ \A m \in 1 .. n - 1 : Child(w, m) \in Created /\ r[Child(w, m)] < r[Child(w, n)]
    BY <1>2, ChildrenGoUpwards
  <1>4. \A x \in Created : r[x] \in 1 .. wm_num_windows
    BY <1>1 DEF Ranks
  <1>5. Child(w, wm_num_windows + 1) = null
    <2> SUFFICES ASSUME Child(w, wm_num_windows + 1) # null PROVE FALSE
      OBVIOUS
    <2> DEFINE x == Child(w, wm_num_windows + 1)
    <2>1. x \in Created /\ r[x] >= wm_num_windows + 1
      <3>1. wm_num_windows + 1 \in Nat \ {0}
        BY <1>1
      <3> QED BY <1>3, <3>1
    <2> HIDE DEF x
    <2> QED BY <1>1, <1>4, <2>1
  <1> DEFINE Steps == {k \in Created : Child(w, k) # null}
  <1>6. Painted(w) = [n \in Steps |-> Child(w, n)]
    BY DEF Painted
  <1>7. \A n \in Steps : n \in Nat \ {0} /\ Child(w, n) # null
    BY <1>1
  <1> HIDE DEF Steps
  <1>8. IsInjective(Painted(w))
    <2>1. ASSUME NEW m \in Steps, NEW n \in Steps, m < n PROVE Child(w, m) # Child(w, n)
      <3>1. m \in 1 .. n - 1
        BY <1>7, <2>1
      <3>2. r[Child(w, m)] < r[Child(w, n)] /\ Child(w, n) \in Created
        BY <1>3, <1>7, <3>1
      <3>3. r[Child(w, n)] \in Nat
        BY <1>4, <3>2
      <3> QED BY <3>2, <3>3
    <2>2. \A m, n \in Steps : Child(w, m) = Child(w, n) => m = n
      <3> SUFFICES ASSUME NEW m \in Steps, NEW n \in Steps, Child(w, m) = Child(w, n), m # n
                   PROVE  FALSE
        OBVIOUS
      <3>1. m < n \/ n < m
        BY <1>7
      <3> QED BY <2>1, <3>1
    <2> QED BY <1>6, <2>2 DEF IsInjective
  <1>9. ASSUME NEW x \in ToSet(Painted(w)) PROVE parent[x] = w /\ links[x].first_child = null
    <2>1. PICK n \in Steps : x = Child(w, n)
      BY <1>6, <1>9 DEF ToSet
    <2>2. x \in Created /\ parent[x] = w
      BY <1>3, <1>7, <2>1
    <2>3. Family(links, parent, x)
      BY <2>2 DEF WindowsInv, Families
    <2>4. w # null
      BY <1>1
    <2> QED BY <2>2, <2>3, <2>4 DEF Family
  <1> QED BY <1>5, <1>8, <1>9

(* Every pointer names a window that exists, or none, whatever was asked   *)
(* for, and the number of windows stays below MAX_WINDOWS                  *)
(* (vesa_graphics.c:155-201).                                              *)
THEOREM WindowsTypeCorrect == WindowsSpec => []WindowsTypeOK
  BY WindowsInvariant, PTL DEF WindowsInv

(* repaint_children comes to an end, for any number of windows and any     *)
(* order of calls, careless ones included, until a list that was cut off   *)
(* is reordered (vesa_graphics.c:140-153).                                 *)
THEOREM RepaintingEnds == WindowsSpec => []PaintingEnds
  BY WindowsInvariant, PaintingComesToAnEnd, PTL

-----------------------------------------------------------------------------
(* The children of a window as a doubly linked list: the pointers of p and *)
(* of its children say that s is the list.                                 *)

At(s, i) == IF i \in 1 .. Len(s) THEN s[i] ELSE null

IsList(D, l, p, s) ==
  /\ s \in Seq(D)
  /\ \A i, j \in 1 .. Len(s) : s[i] = s[j] => i = j
  /\ l[p].first_child = At(s, 1) /\ l[p].last_child = At(s, Len(s))
  /\ \A i \in 1 .. Len(s) : l[s[i]].next = At(s, i + 1) /\ l[s[i]].prev = At(s, i - 1)

LEMMA RaisedEffect ==
  ASSUME NEW D, NEW s \in Seq(D), NEW i \in 1 .. Len(s)
  PROVE  /\ WS!Raised(s, i) \in Seq(D) /\ Len(WS!Raised(s, i)) = Len(s)
         /\ \A j \in 1 .. Len(s) :
              WS!Raised(s, i)[j] = IF j = Len(s) THEN s[i] ELSE IF j < i THEN s[j] ELSE s[j + 1]
  <1> DEFINE below == SubSeq(s, 1, i - 1)
             above == SubSeq(s, i + 1, Len(s))
  <1>1. Len(s) \in Nat /\ \A j \in 1 .. Len(s) : s[j] \in D
    BY LenProperties, ElementOfSeq
  <1>2. /\ below \in Seq(D) /\ Len(below) = i - 1
        /\ \A j \in 1 .. i - 1 : below[j] = s[j]
    <2>1. 1 \in Int /\ i - 1 \in Int /\ \A j \in 1 .. i - 1 : s[j] \in D
      BY <1>1
    <2>2. /\ below \in Seq(D) /\ Len(below) = IF 1 <= i - 1 THEN i - 1 - 1 + 1 ELSE 0
          /\ \A j \in 1 .. i - 1 - 1 + 1 : below[j] = s[1 + j - 1]
      BY <2>1, SubSeqProperties
    <2> HIDE DEF below
    <2> QED BY <1>1, <2>2
  <1>3. /\ above \in Seq(D) /\ Len(above) = Len(s) - i
        /\ \A j \in 1 .. Len(s) - i : above[j] = s[i + j]
    <2>1. i + 1 \in Int /\ Len(s) \in Int /\ \A j \in i + 1 .. Len(s) : s[j] \in D
      BY <1>1
    <2>2. /\ above \in Seq(D) /\ Len(above) = IF i + 1 <= Len(s) THEN Len(s) - (i + 1) + 1 ELSE 0
          /\ \A j \in 1 .. Len(s) - (i + 1) + 1 : above[j] = s[i + 1 + j - 1]
      BY <2>1, SubSeqProperties
    <2> HIDE DEF above
    <2> QED BY <1>1, <2>2
  <1> DEFINE others == RemoveAt(s, i)
  <1>4. others = below \o above
    BY DEF RemoveAt
  <1> HIDE DEF below, above, others
  <1>5. /\ others \in Seq(D) /\ Len(others) = Len(s) - 1
        /\ \A j \in 1 .. Len(s) - 1 : others[j] = IF j < i THEN s[j] ELSE s[j + 1]
    <2>1. /\ others \in Seq(D) /\ Len(others) = Len(below) + Len(above)
          /\ \A j \in 1 .. Len(below) + Len(above) :
               others[j] = IF j <= Len(below) THEN below[j] ELSE above[j - Len(below)]
      BY <1>2, <1>3, <1>4, ConcatProperties
    <2>2. Len(others) = Len(s) - 1
      BY <1>1, <1>2, <1>3, <2>1
    <2>3. ASSUME NEW j \in 1 .. Len(s) - 1
          PROVE  others[j] = IF j < i THEN s[j] ELSE s[j + 1]
      <3>1. others[j] = IF j <= i - 1 THEN below[j] ELSE above[j - (i - 1)]
        BY <1>1, <1>2, <1>3, <2>1
      <3>2. CASE j < i
        BY <1>1, <1>2, <3>1, <3>2
      <3>3. CASE j >= i
        <4>1. j - (i - 1) \in 1 .. Len(s) - i /\ i + (j - (i - 1)) = j + 1
          BY <1>1, <3>3
        <4>2. above[j - (i - 1)] = s[j + 1]
          BY <1>3, <4>1
        <4> QED BY <3>1, <3>3, <4>2
      <3> QED BY <1>1, <3>2, <3>3
    <2> QED BY <2>1, <2>2, <2>3
  <1>6. WS!Raised(s, i) = Append(others, s[i])
    BY DEF WS!Raised, WS!RemoveAt, RemoveAt, others
  <1>7. /\ Append(others, s[i]) \in Seq(D) /\ Len(Append(others, s[i])) = Len(others) + 1
        /\ \A j \in 1 .. Len(others) : Append(others, s[i])[j] = others[j]
        /\ Append(others, s[i])[Len(others) + 1] = s[i]
    BY <1>1, <1>5, AppendProperties
  <1> DEFINE m == Append(others, s[i])
  <1> HIDE DEF m
  <1>8. m \in Seq(D) /\ Len(m) = Len(s)
    BY <1>1, <1>5, <1>7 DEF m
  <1>9. ASSUME NEW j \in 1 .. Len(s)
        PROVE  m[j] = IF j = Len(s) THEN s[i] ELSE IF j < i THEN s[j] ELSE s[j + 1]
    BY <1>1, <1>5, <1>7 DEF m
  <1> QED BY <1>6, <1>8, <1>9 DEF m

(* The n-th child is the n-th of the list.                                 *)
LEMMA ListIsPainted ==
  ASSUME WindowsInv, ~tangled, NEW p \in Created, NEW s, IsList(Created, links, p, s)
  PROVE  Painted(p) = s
  <1>1. /\ wm_num_windows \in Nat /\ null \notin Created /\ Created = 1 .. wm_num_windows
    BY CreatedIsNumbers DEF WindowsInv
  <1>2. s \in Seq(Created) /\ Len(s) \in Nat /\ \A i \in 1 .. Len(s) : s[i] \in Created
    <2>1. s \in Seq(Created)
      BY DEF IsList
    <2> QED BY <2>1, LenProperties, ElementOfSeq
  <1> DEFINE S == {n \in Nat : Child(p, n + 1) = At(s, n + 1)}
  <1>3. 0 \in S
    BY ChildEquations DEF IsList
  <1>4. ASSUME NEW n \in Nat, n \in S PROVE n + 1 \in S
    <2>1. Child(p, n + 1) = At(s, n + 1)
      BY <1>4
    <2>2. Child(p, (n + 1) + 1) = After(Child(p, n + 1))
      <3>1. n + 1 \in Nat \ {0}
        OBVIOUS
      <3> QED BY <3>1, ChildEquations
    <2>3. After(At(s, n + 1)) = At(s, (n + 1) + 1)
      <3>1. CASE n + 1 \in 1 .. Len(s)
        <4>1. At(s, n + 1) = s[n + 1] /\ s[n + 1] # null
          BY <1>1, <1>2, <3>1 DEF At
        <4>2. links[s[n + 1]].next = At(s, (n + 1) + 1)
          BY <3>1 DEF IsList
        <4> QED BY <4>1, <4>2 DEF After
      <3>2. CASE n + 1 \notin 1 .. Len(s)
        <4>1. (n + 1) + 1 \notin 1 .. Len(s)
          BY <1>2, <3>2
        <4> QED BY <3>2, <4>1 DEF At, After
      <3> QED BY <3>1, <3>2
    <2> QED BY <2>1, <2>2, <2>3
  <1> HIDE DEF S
  <1>5. Nat \subseteq S
    BY <1>3, <1>4, Induction
  <1>6. ASSUME NEW n \in Nat \ {0} PROVE Child(p, n) = At(s, n)
    <2>1. n - 1 \in S /\ (n - 1) + 1 = n
      BY <1>5
    <2> QED BY <2>1 DEF S
  <1>7. Len(s) <= wm_num_windows
    <2>1. Child(p, wm_num_windows + 1) = null
      BY PaintingComesToAnEnd DEF PaintingEnds
    <2>2. At(s, wm_num_windows + 1) = null
      BY <1>1, <1>6, <2>1
    <2>3. wm_num_windows + 1 \notin 1 .. Len(s)
      BY <1>1, <1>2, <2>2 DEF At
    <2> QED BY <1>1, <1>2, <2>3
  <1>8. {k \in Created : Child(p, k) # null} = 1 .. Len(s)
    <2>1. ASSUME NEW k \in Created PROVE Child(p, k) # null <=> k \in 1 .. Len(s)
      <3>1. k \in Nat \ {0}
        BY <1>1
      <3>2. Child(p, k) = At(s, k)
        BY <1>6, <3>1
      <3> QED BY <1>1, <1>2, <3>2 DEF At
    <2>2. 1 .. Len(s) \subseteq Created
      BY <1>1, <1>2, <1>7
    <2> QED BY <2>1, <2>2
  <1>9. Painted(p) = [n \in 1 .. Len(s) |-> s[n]]
    <2>1. \A n \in 1 .. Len(s) : Child(p, n) = s[n]
      BY <1>2, <1>6 DEF At
    <2> QED BY <1>8, <2>1 DEF Painted
  <1> QED BY <1>2, <1>9, LenProperties

(* InFront on the list of p: a child comes on top, or a new window does,   *)
(* whose prev is p or the child that was topmost.                          *)
LEMMA ChildComesOnTop ==
  ASSUME NEW D, null \notin D, NEW l \in Links(D), NEW p \in D, NEW s, IsList(D, l, p, s),
         NEW i \in 1 .. Len(s), s[i] # p
  PROVE  IsList(D, InFront(l, s[i], p), p, WS!Raised(s, i))
  <1> DEFINE w == s[i]
             a == At(s, i - 1)
             b == At(s, i + 1)
             n == Len(s)
             t == Top(l, w, p)
             R == InFront(l, w, p)
             m == WS!Raised(s, i)
  <1>1. /\ s \in Seq(D) /\ n \in Nat /\ \A j \in 1 .. n : s[j] \in D /\ s[j] # null
        /\ \A j, k \in 1 .. n : s[j] = s[k] => j = k
        /\ l[p].first_child = At(s, 1) /\ l[p].last_child = At(s, n)
        /\ \A j \in 1 .. n : l[s[j]].next = At(s, j + 1) /\ l[s[j]].prev = At(s, j - 1)
        /\ i \in 1 .. n /\ w \in D /\ p # w
    <2>1. s \in Seq(D)
      BY DEF IsList
    <2> QED BY <2>1, LenProperties, ElementOfSeq DEF IsList
  <1>2. /\ m \in Seq(D) /\ Len(m) = n
        /\ \A j \in 1 .. n : m[j] = IF j = n THEN w ELSE IF j < i THEN s[j] ELSE s[j + 1]
    BY <1>1, RaisedEffect
  <1>3. l[w].prev = a /\ l[w].next = b
    BY <1>1
  <1> HIDE DEF m, n
  <1>4. \A j \in 1 .. n : /\ s[j] = w <=> j = i
                          /\ s[j] = a <=> j = i - 1
                          /\ s[j] = b <=> j = i + 1
    BY <1>1 DEF At, n
  <1>5. a # w /\ b # w
    BY <1>1, <1>4 DEF At, n
  <1>6. /\ t = IF i = n THEN a ELSE s[n]
        /\ Below(l, w, p) = IF i = 1 THEN b ELSE s[1]
    BY <1>1, <1>3, <1>4 DEF Top, Below, At, n
  <1>7. \A x \in D :
          /\ R[x].next = IF x = t THEN w ELSE IF x = w THEN null ELSE IF x = a THEN b ELSE l[x].next
          /\ R[x].prev = IF x = w THEN t ELSE IF x = b THEN a ELSE l[x].prev
          /\ R[x].first_child = IF x = p THEN (IF Below(l, w, p) = null THEN w ELSE Below(l, w, p))
                                ELSE l[x].first_child
          /\ R[x].last_child = IF x = p THEN w ELSE l[x].last_child
    BY <1>1, <1>3, <1>5, InFrontEffect
  <1>8. /\ a = IF i = 1 THEN null ELSE s[i - 1]
        /\ b = IF i = n THEN null ELSE s[i + 1]
    BY <1>1 DEF At, n
  <1>9. \A j \in 0 .. n + 1 : At(m, j) = IF j \in 1 .. n THEN m[j] ELSE null
    BY <1>2 DEF At
  <1> HIDE DEF R, t, a, b, w
  <1>10. \A j, k \in 1 .. n : m[j] = m[k] => j = k
    <2> DEFINE from(j) == IF j = n THEN i ELSE IF j < i THEN j ELSE j + 1
    <2>1. \A j \in 1 .. n : from(j) \in 1 .. n
      BY <1>1
    <2>2. \A j \in 1 .. n : m[j] = s[from(j)]
      BY <1>2 DEF w
    <2>3. \A j, k \in 1 .. n : from(j) = from(k) => j = k
      BY <1>1
    <2> HIDE DEF from
    <2> SUFFICES ASSUME NEW j \in 1 .. n, NEW k \in 1 .. n, m[j] = m[k] PROVE j = k
      OBVIOUS
    <2>4. s[from(j)] = s[from(k)] /\ from(j) \in 1 .. n /\ from(k) \in 1 .. n
      BY <2>1, <2>2
    <2>5. from(j) = from(k)
      BY <1>1, <2>4
    <2> QED BY <2>3, <2>5
  <1>11. R[p].first_child = At(m, 1)
    <2>1. R[p].first_child = m[1]
      BY <1>1, <1>2, <1>6, <1>7, <1>8
    <2> QED BY <1>1, <1>9, <2>1
  <1>12. R[p].last_child = At(m, n)
    <2>1. n \in 1 .. n /\ m[n] = w
      BY <1>1, <1>2
    <2> QED BY <1>1, <1>7, <1>9, <2>1
  <1>13. ASSUME NEW j \in 1 .. n PROVE R[m[j]].next = At(m, j + 1) /\ R[m[j]].prev = At(m, j - 1)
    <2>1. /\ At(m, j + 1) = IF j = n THEN null ELSE m[j + 1]
          /\ At(m, j - 1) = IF j = 1 THEN null ELSE m[j - 1]
      <3>1. /\ j + 1 \in 0 .. n + 1 /\ (j + 1 \in 1 .. n <=> j # n)
            /\ j - 1 \in 0 .. n + 1 /\ (j - 1 \in 1 .. n <=> j # 1)
        BY <1>1
      <3> QED BY <1>9, <3>1
    <2>2. \A k \in 1 .. n : s[k] = t <=> k = IF i = n THEN n - 1 ELSE n
      BY <1>1, <1>4, <1>6, <1>8
    <2>3. CASE j = n
      <3>1. m[j] = w /\ t # w
        BY <1>1, <1>2, <1>4, <2>2, <2>3
      <3>2. R[w].next = null /\ R[w].prev = t
        <4>1. w \in D
          BY <1>1
        <4> QED BY <1>7, <3>1, <4>1
      <3>3. t = IF j = 1 THEN null ELSE m[j - 1]
        BY <1>1, <1>2, <1>6, <1>8, <2>3
      <3> QED BY <2>1, <2>3, <3>1, <3>2, <3>3
    <2>4. CASE j # n /\ j < i
      <3> DEFINE x == s[j]
      <3>1. m[j] = x /\ x \in D /\ x # w /\ x # b /\ l[x].next = At(s, j + 1) /\ l[x].prev = At(s, j - 1)
        BY <1>1, <1>2, <1>4, <2>4
      <3>2. (x = t <=> i = n /\ j = n - 1) /\ (x = a <=> j = i - 1)
        BY <1>1, <1>4, <2>2, <2>4
      <3> HIDE DEF x
      <3>3. R[x].prev = At(s, j - 1)
        BY <1>7, <3>1
      <3>4. At(s, j - 1) = IF j = 1 THEN null ELSE m[j - 1]
        BY <1>1, <1>2, <2>4 DEF At, n
      <3>5. R[x].next = IF i = n /\ j = n - 1 THEN w ELSE IF j = i - 1 THEN b ELSE At(s, j + 1)
        BY <1>7, <3>1, <3>2
      <3>6. m[j + 1] = IF i = n /\ j = n - 1 THEN w ELSE IF j = i - 1 THEN s[i + 1] ELSE s[j + 1]
        <4>1. j + 1 \in 1 .. n /\ (j + 1 = n <=> i = n /\ j = n - 1)
          BY <1>1, <2>4
        <4>2. m[j + 1] = IF j + 1 = n THEN w ELSE IF j + 1 < i THEN s[j + 1] ELSE s[j + 1 + 1]
          BY <1>2, <4>1
        <4>3. ~ (j + 1 < i) => j = i - 1 /\ j + 1 + 1 = i + 1
          BY <1>1, <2>4
        <4>4. j + 1 < i => j # i - 1
          BY <1>1, <2>4
        <4> QED BY <4>1, <4>2, <4>3, <4>4
      <3>7. At(s, j + 1) = s[j + 1]
        BY <1>1, <2>4 DEF At, n
      <3>8. R[x].next = m[j + 1]
        BY <1>1, <1>8, <2>4, <3>5, <3>6, <3>7
      <3> QED BY <2>1, <2>4, <3>1, <3>3, <3>4, <3>8
    <2>5. CASE j # n /\ j >= i
      <3>1. PICK k \in 1 .. n : k = j + 1
        BY <1>1, <2>5
      <3> DEFINE x == s[k]
      <3>2. m[j] = x /\ x \in D /\ l[x].next = At(s, k + 1) /\ l[x].prev = At(s, k - 1)
        BY <1>1, <1>2, <2>5, <3>1
      <3>3. x # w /\ x # a /\ (x = t <=> k = n) /\ (x = b <=> j = i)
        BY <1>1, <1>4, <2>2, <2>5, <3>1
      <3> HIDE DEF x
      <3>4. R[x].prev = IF j = i THEN a ELSE At(s, j)
        BY <1>1, <1>7, <3>1, <3>2, <3>3
      <3>5. At(s, j) = s[j]
        BY <1>1, <2>5 DEF At, n
      <3>6. j # 1 => m[j - 1] = IF j = i THEN s[i - 1] ELSE s[j]
        <4> SUFFICES ASSUME j # 1 PROVE m[j - 1] = IF j = i THEN s[i - 1] ELSE s[j]
          OBVIOUS
        <4>1. PICK h \in 1 .. n : h = j - 1 /\ h + 1 = j /\ h # n
          BY <1>1, <2>5
        <4>2. m[h] = IF h < i THEN s[h] ELSE s[h + 1]
          BY <1>2, <4>1
        <4>3. h < i <=> j = i
          BY <1>1, <2>5, <4>1
        <4> QED BY <4>1, <4>2, <4>3
      <3>7. R[x].prev = IF j = 1 THEN null ELSE m[j - 1]
        BY <1>1, <1>8, <2>5, <3>4, <3>5, <3>6
      <3>8. R[x].next = IF k = n THEN w ELSE At(s, k + 1)
        BY <1>7, <3>2, <3>3
      <3>9. m[k] = IF k = n THEN w ELSE s[k + 1]
        BY <1>1, <1>2, <2>5, <3>1
      <3>10. k # n => At(s, k + 1) = s[k + 1]
        BY <1>1, <3>1 DEF At, n
      <3>11. R[x].next = m[k]
        BY <3>8, <3>9, <3>10
      <3> QED BY <2>1, <2>5, <3>1, <3>2, <3>7, <3>11
    <2> QED BY <2>3, <2>4, <2>5
  <1> QED BY <1>2, <1>10, <1>11, <1>12, <1>13 DEF IsList, R, m, w

LEMMA NewComesOnTop ==
  ASSUME NEW D, null \notin D, NEW l \in Links(D), NEW p \in D, NEW s, IsList(D, l, p, s),
         NEW w \in D, w # p, l[w].next = null, l[w].prev # w, l[w].prev \in {p, At(s, Len(s))},
         \A j \in 1 .. Len(s) : s[j] # w /\ s[j] # p
  PROVE  IsList(D, InFront(l, w, p), p, Append(s, w))
  <1> DEFINE a == l[w].prev
             n == Len(s)
             R == InFront(l, w, p)
             m == Append(s, w)
  <1>1. /\ s \in Seq(D) /\ n \in Nat /\ \A j \in 1 .. n : s[j] \in D /\ s[j] # null
        /\ \A j, k \in 1 .. n : s[j] = s[k] => j = k
        /\ l[p].first_child = At(s, 1) /\ l[p].last_child = At(s, n)
        /\ \A j \in 1 .. n : l[s[j]].next = At(s, j + 1) /\ l[s[j]].prev = At(s, j - 1)
    <2>1. s \in Seq(D)
      BY DEF IsList
    <2> QED BY <2>1, LenProperties, ElementOfSeq DEF IsList
  <1>2. /\ m \in Seq(D) /\ Len(m) = n + 1
        /\ \A j \in 1 .. n : m[j] = s[j]
        /\ m[n + 1] = w
    BY <1>1, AppendProperties
  <1> HIDE DEF m, n
  <1>3. w # null /\ p # null /\ null \in D \cup {null} /\ l[w].next # w
    OBVIOUS
  <1>4. Top(l, w, p) = At(s, n) /\ Below(l, w, p) = At(s, 1) /\ At(s, n) # w
    BY <1>1, <1>3 DEF Top, Below, At, n
  <1>5. \A x \in D :
          /\ R[x].next = IF x = At(s, n) THEN w ELSE IF x = w THEN null
                         ELSE IF x = a THEN null ELSE l[x].next
          /\ R[x].prev = IF x = w THEN At(s, n) ELSE l[x].prev
          /\ R[x].first_child = IF x = p THEN (IF At(s, 1) = null THEN w ELSE At(s, 1))
                                ELSE l[x].first_child
          /\ R[x].last_child = IF x = p THEN w ELSE l[x].last_child
    BY <1>3, <1>4, InFrontEffect
  <1> HIDE DEF R
  <1>6. \A j, k \in 1 .. n + 1 : m[j] = m[k] => j = k
    BY <1>1, <1>2 DEF n
  <1>7. R[p].first_child = At(m, 1)
    BY <1>1, <1>2, <1>5 DEF At, n
  <1>8. R[p].last_child = At(m, n + 1)
    BY <1>1, <1>2, <1>5 DEF At
  <1>9. ASSUME NEW j \in 1 .. n + 1
        PROVE  R[m[j]].next = At(m, j + 1) /\ R[m[j]].prev = At(m, j - 1)
    <2>1. At(m, j - 1) = At(s, j - 1)
      BY <1>1, <1>2 DEF At, n
    <2>2. CASE j = n + 1
      <3>1. m[j] = w /\ R[w].next = null /\ R[w].prev = At(s, n)
        BY <1>2, <1>4, <1>5, <2>2
      <3>2. At(m, j + 1) = null /\ j - 1 = n
        BY <1>1, <1>2, <2>2 DEF At
      <3> QED BY <2>1, <3>1, <3>2
    <2>3. CASE j # n + 1
      <3>1. j \in 1 .. n /\ m[j] = s[j] /\ s[j] # w /\ s[j] # p
        BY <1>1, <1>2, <2>3 DEF n
      <3>2. R[m[j]].prev = At(s, j - 1)
        <4>1. m[j] \in D /\ m[j] # w /\ l[m[j]].prev = At(s, j - 1)
          BY <1>1, <3>1
        <4> QED BY <1>5, <4>1
      <3>3. At(m, j + 1) = IF j = n THEN w ELSE s[j + 1]
        BY <1>1, <1>2, <3>1 DEF At
      <3>4. s[j] = At(s, n) <=> j = n
        BY <1>1, <3>1 DEF At, n
      <3>5. j # n => a # s[j] /\ l[s[j]].next = s[j + 1]
        BY <1>1, <3>1, <3>4 DEF At, n
      <3>6. R[m[j]].next = IF j = n THEN w ELSE s[j + 1]
        <4>1. m[j] \in D /\ m[j] # w /\ m[j] = s[j]
          BY <1>1, <3>1
        <4>2. CASE j = n
          BY <1>5, <3>4, <4>1, <4>2
        <4>3. CASE j # n
          BY <1>5, <3>4, <3>5, <4>1, <4>3
        <4> QED BY <4>2, <4>3
      <3> QED BY <2>1, <3>2, <3>3, <3>6
    <2> QED BY <2>2, <2>3
  <1> QED BY <1>2, <1>6, <1>7, <1>8, <1>9 DEF IsList, R, m

LEMMA OtherListsStay ==
  ASSUME NEW D, null \notin D, NEW l \in Links(D), NEW p \in D, NEW q \in D, q # p, NEW w \in D, w # p,
         l[w].prev # w, l[w].next # w,
         NEW s, IsList(D, l, q, s),
         \A j \in 1 .. Len(s) : s[j] \notin {w, Top(l, w, p), l[w].prev, l[w].next}
  PROVE  IsList(D, InFront(l, w, p), q, s)
  <1>1. s \in Seq(D) /\ \A j \in 1 .. Len(s) : s[j] \in D
    <2>1. s \in Seq(D)
      BY DEF IsList
    <2> QED BY <2>1, ElementOfSeq
  <1> DEFINE R == InFront(l, w, p)
  <1>2. /\ \A j \in 1 .. Len(s) : R[s[j]].next = l[s[j]].next /\ R[s[j]].prev = l[s[j]].prev
        /\ R[q].first_child = l[q].first_child /\ R[q].last_child = l[q].last_child
    BY <1>1, InFrontEffect
  <1> HIDE DEF R
  <1>3. IsList(D, R, q, s)
    BY <1>2 DEF IsList
  <1> QED BY <1>3 DEF R

-----------------------------------------------------------------------------
(* The refinement: as long as nobody has been careless, what is painted    *)
(* under each window that stands alone is the list of all its children.    *)

Children(p) == {x \in Created : parent[x] = p}

Whole ==
  ~careless => \A p \in Alone :
    IsList(Created, links, p, Painted(p)) /\ ToSet(Painted(p)) = Children(p)

Represented ==
  ~tangled => \A p \in Created : \A s : IsList(Created, links, p, s) => Painted(p) = s

LEMMA ListsAreRepresented == WindowsInv => Represented
  BY ListIsPainted DEF Represented

(* Whoever knows the lists after a step knows the stacks.                  *)
LEMMA StacksFollow ==
  ASSUME Represented', ~tangled', NEW A, A = Alone', NEW M,
         \A q \in A : /\ IsList(Created', links', q, M[q])
                      /\ ToSet(M[q]) = {x \in Created' : parent'[x] = q}
  PROVE  Whole' /\ Stacks' = [q \in A |-> M[q]]
  <1>1. A \subseteq Created'
    BY DEF Alone
  <1>2. ASSUME NEW q \in A PROVE Painted(q)' = M[q]
    BY <1>1 DEF Represented
  <1>3. Stacks' = [q \in A |-> M[q]]
    BY <1>2 DEF Stacks
  <1>4. ASSUME NEW q \in A
        PROVE  IsList(Created', links', q, Painted(q)') /\ ToSet(Painted(q)') = Children(q)'
    BY <1>2 DEF Children
  <1> QED BY <1>3, <1>4 DEF Whole

LEMMA RaisedKeepsAll ==
  ASSUME NEW D, NEW s \in Seq(D), NEW i \in 1 .. Len(s)
  PROVE  ToSet(WS!Raised(s, i)) = ToSet(s)
  <1>1. Len(s) \in Nat /\ DOMAIN s = 1 .. Len(s)
    BY LenProperties
  <1> DEFINE m == WS!Raised(s, i)
             n == Len(s)
  <1>2. /\ m \in Seq(D) /\ Len(m) = n
        /\ \A j \in 1 .. n : m[j] = IF j = n THEN s[i] ELSE IF j < i THEN s[j] ELSE s[j + 1]
    BY RaisedEffect
  <1>3. DOMAIN m = 1 .. n
    BY <1>2, LenProperties
  <1> HIDE DEF m, n
  <1>4. i \in 1 .. n /\ n \in Nat
    BY <1>1 DEF n
  <1>5. ASSUME NEW j \in 1 .. n PROVE \E k \in 1 .. n : m[j] = s[k]
    <2>1. CASE j = n
      BY <1>2, <1>4, <2>1
    <2>2. CASE j # n /\ j < i
      BY <1>2, <2>2
    <2>3. CASE j # n /\ ~ (j < i)
      <3>1. j + 1 \in 1 .. n
        BY <1>4, <2>3
      <3> QED BY <1>2, <2>3, <3>1
    <2> QED BY <2>1, <2>2, <2>3
  <1>6. ASSUME NEW k \in 1 .. n PROVE \E j \in 1 .. n : m[j] = s[k]
    <2>1. CASE k = i
      <3>1. n \in 1 .. n /\ m[n] = s[k]
        BY <1>2, <1>4, <2>1
      <3> QED BY <3>1
    <2>2. CASE k < i
      <3>1. k # n
        BY <1>4, <2>2
      <3> QED BY <1>2, <2>2, <3>1
    <2>3. CASE k > i
      <3>1. PICK j \in 1 .. n : j = k - 1 /\ j + 1 = k /\ j # n /\ ~ (j < i)
        BY <1>4, <2>3
      <3> QED BY <1>2, <3>1
    <2> QED BY <1>4, <2>1, <2>2, <2>3
  <1>7. ToSet(m) = {m[j] : j \in 1 .. n} /\ ToSet(s) = {s[k] : k \in 1 .. n}
    BY <1>1, <1>3 DEF ToSet, n
  <1>8. ToSet(m) = ToSet(s)
    <2>1. ToSet(m) \subseteq ToSet(s)
      BY <1>5, <1>7
    <2>2. ToSet(s) \subseteq ToSet(m)
      BY <1>6, <1>7
    <2> QED BY <2>1, <2>2
  <1> QED BY <1>8 DEF m

LEMMA StacksKnown ==
  ASSUME Whole, ~careless, NEW S, S = Stacks
  PROVE  /\ DOMAIN S = Alone
         /\ \A q \in Alone :
              /\ IsList(Created, links, q, S[q]) /\ ToSet(S[q]) = Children(q)
              /\ S[q] \in Seq(Created) /\ Len(S[q]) \in Nat
              /\ DOMAIN S[q] = 1 .. Len(S[q])
              /\ \A j \in 1 .. Len(S[q]) : S[q][j] \in Created /\ parent[S[q][j]] = q
  <1>1. /\ DOMAIN S = Alone
        /\ \A q \in Alone : IsList(Created, links, q, S[q]) /\ ToSet(S[q]) = Children(q)
    BY DEF Stacks, Whole
  <1>2. ASSUME NEW q \in Alone
        PROVE  /\ S[q] \in Seq(Created) /\ Len(S[q]) \in Nat
               /\ DOMAIN S[q] = 1 .. Len(S[q])
               /\ \A j \in 1 .. Len(S[q]) : S[q][j] \in Created /\ parent[S[q][j]] = q
    <2>1. S[q] \in Seq(Created)
      BY <1>1 DEF IsList
    <2>2. Len(S[q]) \in Nat /\ DOMAIN S[q] = 1 .. Len(S[q])
      BY <2>1, LenProperties
    <2>3. \A j \in 1 .. Len(S[q]) : S[q][j] \in Children(q)
      BY <1>1, <2>2 DEF ToSet
    <2> QED BY <2>1, <2>2, <2>3 DEF Children
  <1> QED BY <1>1, <1>2

(* A child is brought to the front.                                        *)
LEMMA MoveStacks ==
  ASSUME WindowsInv, Represented', Whole, ~careless, NEW w \in Created, move_to_front(w)
  PROVE  Whole' /\ WS!StackNext
  <1>1. PICK p : p = parent[w]
    OBVIOUS
  <1>2. /\ p # null /\ links' = InFront(links, w, p) /\ ~tangled'
        /\ UNCHANGED <<wm_num_windows, parent, careless>>
    BY <1>1 DEF move_to_front
  <1>3. /\ null \notin Created /\ links \in Links(Created) /\ p \in Created
        /\ \A x \in Created : Family(links, parent, x)
    BY <1>1, <1>2, CreatedIsNumbers DEF WindowsInv, Families
  <1>4. Created' = Created /\ Alone' = Alone
    BY <1>2 DEF Created, Alone
  <1>5. p \in Alone /\ w # p
    <2>1. parent[p] = null
      BY <1>1, <1>2, <1>3 DEF Family
    <2> QED BY <1>1, <1>2, <1>3, <2>1 DEF Alone
  <1>6. PICK S : S = Stacks
    OBVIOUS
  <1>7. /\ DOMAIN S = Alone
        /\ \A q \in Alone : IsList(Created, links, q, S[q]) /\ ToSet(S[q]) = Children(q)
    BY <1>6, StacksKnown
  <1>8. \A q \in Alone : /\ S[q] \in Seq(Created) /\ Len(S[q]) \in Nat
                         /\ DOMAIN S[q] = 1 .. Len(S[q])
                         /\ \A j \in 1 .. Len(S[q]) : S[q][j] \in Created /\ parent[S[q][j]] = q
    BY <1>6, StacksKnown
  <1>9. PICK i \in 1 .. Len(S[p]) : S[p][i] = w
    <2>1. w \in ToSet(S[p])
      BY <1>1, <1>5, <1>7 DEF Children
    <2> QED BY <1>5, <1>8, <2>1 DEF ToSet
  <1>10. PICK M : M = [S EXCEPT ![p] = WS!Raised(S[p], i)]
    OBVIOUS
  <1>11. /\ DOMAIN M = Alone /\ M[p] = WS!Raised(S[p], i)
         /\ \A q \in Alone : q # p => M[q] = S[q]
    BY <1>5, <1>6, <1>10 DEF Stacks
  <1>12. ASSUME NEW q \in Alone
         PROVE  /\ IsList(Created', links', q, M[q])
                /\ ToSet(M[q]) = {x \in Created' : parent'[x] = q}
    <2>1. CASE q = p
      <3>1. IsList(Created, InFront(links, S[p][i], p), p, WS!Raised(S[p], i))
        BY <1>3, <1>5, <1>7, <1>9, ChildComesOnTop
      <3>2. ToSet(M[p]) = ToSet(S[p])
        BY <1>5, <1>8, <1>11, RaisedKeepsAll
      <3> QED BY <1>2, <1>4, <1>5, <1>7, <1>9, <1>11, <2>1, <3>1, <3>2 DEF Children
    <2>2. CASE q # p
      <3>1. /\ links[w].next = At(S[p], i + 1) /\ links[w].prev = At(S[p], i - 1)
            /\ links[p].last_child = At(S[p], Len(S[p]))
            /\ \A j, k \in 1 .. Len(S[p]) : S[p][j] = S[p][k] => j = k
        BY <1>5, <1>7, <1>9 DEF IsList
      <3>2. ASSUME NEW k, At(S[p], k) # null PROVE parent[At(S[p], k)] = p
        BY <1>5, <1>8, <3>2 DEF At
      <3>3. links[w].next # w /\ links[w].prev # w
        BY <1>3, <1>5, <1>8, <1>9, <3>1 DEF At
      <3>4. \A y \in {w, Top(links, w, p), links[w].prev, links[w].next} : y # null => parent[y] = p
        BY <1>1, <3>1, <3>2 DEF Top
      <3>5. \A j \in 1 .. Len(S[q]) :
              S[q][j] \notin {w, Top(links, w, p), links[w].prev, links[w].next}
        BY <1>3, <1>8, <2>2, <3>4
      <3>6. q \in Created
        BY DEF Alone
      <3>7. IsList(Created, InFront(links, w, p), q, S[q])
        BY <1>3, <1>5, <1>7, <2>2, <3>3, <3>5, <3>6, OtherListsStay
      <3> QED BY <1>2, <1>4, <1>7, <1>11, <2>2, <3>7 DEF Children
    <2> QED BY <2>1, <2>2
  <1>13. Whole' /\ Stacks' = [q \in Alone |-> M[q]]
    BY <1>2, <1>4, <1>12, StacksFollow
  <1>14. Stacks' = M
    BY <1>6, <1>10, <1>11, <1>13 DEF Stacks
  <1>15. WS!ToFront(p, i)
    BY <1>2, <1>6, <1>10, <1>14 DEF WS!ToFront
  <1>16. DOMAIN Stacks = Alone /\ i \in DOMAIN Stacks[p]
    BY <1>5, <1>6, <1>8, <1>9 DEF Stacks
  <1> QED BY <1>5, <1>13, <1>15, <1>16 DEF WS!StackNext

\* a list is not disturbed by a window that is in none yet
LEMMA ListInLarger ==
  ASSUME NEW C, NEW D, C \subseteq D, NEW l, NEW m, \A x \in C : m[x] = l[x],
         NEW q \in C, NEW s, IsList(C, l, q, s)
  PROVE  IsList(D, m, q, s)
  <1>1. s \in Seq(C)
    BY DEF IsList
  <1>2. Len(s) \in Nat /\ s \in [1 .. Len(s) -> C] /\ \A j \in 1 .. Len(s) : s[j] \in C
    BY <1>1, LenProperties, ElementOfSeq
  <1>3. s \in Seq(D)
    <2>1. s \in [1 .. Len(s) -> D]
      BY <1>2
    <2> QED BY <1>2, <2>1, SeqDef
  <1> QED BY <1>2, <1>3 DEF IsList

(* A window that stands alone.                                             *)
LEMMA CreateAloneStacks ==
  ASSUME WindowsInv, Represented', Whole, ~careless, wm_num_windows' = wm_num_windows + 1,
         UNCHANGED tangled, CreateAlone(wm_num_windows + 1)
  PROVE  Whole' /\ WS!StackNext
  <1> DEFINE w == wm_num_windows + 1
             D == 1 .. w
  <1>1. /\ links' = Append(links, Unlinked) /\ parent' = Append(parent, null) /\ careless' = careless
        /\ Unlinked \in [Fields -> D \cup {null}]
        /\ Unlinked.next = null /\ Unlinked.first_child = null /\ Unlinked.last_child = null
    BY DEF CreateAlone, Unlinked, Fields
  <1>2. /\ null \notin D /\ w \in D /\ w \notin Created /\ Created = D \ {w}
        /\ links'[w] = Unlinked /\ parent'[w] = null
        /\ \A x \in Created : links'[x] = links[x] /\ parent'[x] = parent[x]
    <2>1. PICK n, e, l, par : /\ n = wm_num_windows /\ e = Unlinked
                              /\ l = Append(links, Unlinked) /\ par = Append(parent, null)
      OBVIOUS
    <2>2. links' = l /\ parent' = par
      BY <1>1, <2>1
    <2>3. Grown(n, w, D, e, null, l, par)
      BY <1>1, <2>1 DEF Grown
    <2> HIDE DEF D, w
    <2>4. /\ null \notin D /\ w \in D /\ w \notin Created /\ Created = D \ {w}
          /\ l[w] = e /\ par[w] = null
          /\ \A x \in Created : l[x] = links[x] /\ par[x] = parent[x]
      BY <2>3, EnlargedTables
    <2> QED BY <2>1, <2>2, <2>4
  <1>3. \A x \in Created : parent[x] \in Created \cup {null}
    BY CreatedIsNumbers DEF WindowsInv
  <1>4. ~tangled'
    BY DEF WindowsInv
  <1>5. Created' = D /\ wm_num_windows' = w
    BY DEF Created
  <1> HIDE DEF D, w
  <1>6. Alone' = Alone \cup {w}
    BY <1>2, <1>5 DEF Alone
  <1>7. PICK S : S = Stacks
    OBVIOUS
  <1>8. /\ DOMAIN S = Alone
        /\ \A q \in Alone : IsList(Created, links, q, S[q]) /\ ToSet(S[q]) = Children(q)
    BY <1>7, StacksKnown
  <1>9. PICK A, M : A = Alone \cup {w} /\ M = [q \in A |-> IF q = w THEN <<>> ELSE S[q]]
    OBVIOUS
  <1>10. ASSUME NEW q \in A
         PROVE  /\ IsList(Created', links', q, M[q])
                /\ ToSet(M[q]) = {x \in Created' : parent'[x] = q}
    <2>1. CASE q = w
      <3>1. M[q] = <<>> /\ ToSet(<<>>) = {} /\ <<>> \in Seq(D) /\ Len(<<>>) = 0
        BY <1>9, <2>1 DEF ToSet
      <3>2. IsList(D, links', w, <<>>)
        BY <1>1, <1>2, <3>1 DEF IsList, At
      <3>3. {x \in D : parent'[x] = w} = {}
        BY <1>2, <1>3
      <3> QED BY <1>5, <2>1, <3>1, <3>2, <3>3
    <2>2. CASE q # w
      <3>1. q \in Alone /\ q \in Created /\ M[q] = S[q]
        BY <1>9, <2>2 DEF Alone
      <3>2. IsList(D, links', q, S[q])
        <4>1. Created \subseteq D
          BY <1>2
        <4> QED BY <1>2, <1>8, <3>1, <4>1, ListInLarger
      <3>3. Children(q) = {x \in D : parent'[x] = q}
        BY <1>2, <3>1 DEF Children
      <3> QED BY <1>5, <1>8, <3>1, <3>2, <3>3
    <2> QED BY <2>1, <2>2
  <1>11. Whole' /\ Stacks' = [q \in A |-> M[q]]
    <2>1. A = Alone'
      BY <1>6, <1>9
    <2> QED BY <1>4, <1>10, <2>1, StacksFollow
  <1>12. Stacks' = M
    BY <1>9, <1>11
  <1>13. WS!NewWindow
    BY <1>5, <1>7, <1>8, <1>9, <1>12 DEF WS!NewWindow, w
  <1> QED BY <1>11, <1>13 DEF WS!StackNext

LEMMA AppendedSet ==
  ASSUME NEW C, NEW s \in Seq(C), NEW D, C \subseteq D, NEW w \in D
  PROVE  ToSet(Append(s, w)) = ToSet(s) \cup {w}
  <1>1. Len(s) \in Nat /\ s \in [1 .. Len(s) -> C]
    BY LenProperties
  <1>2. s \in Seq(D)
    <2>1. s \in [1 .. Len(s) -> D]
      BY <1>1
    <2> QED BY <1>1, <2>1, SeqDef
  <1> DEFINE m == Append(s, w)
             n == Len(s)
  <1>3. /\ m \in Seq(D) /\ Len(m) = n + 1 /\ m[n + 1] = w
        /\ \A j \in 1 .. n : m[j] = s[j]
    BY <1>2, AppendProperties
  <1>4. DOMAIN m = 1 .. n + 1 /\ DOMAIN s = 1 .. n
    BY <1>1, <1>3, LenProperties
  <1> HIDE DEF m, n
  <1>5. n \in Nat /\ 1 .. n + 1 = (1 .. n) \cup {n + 1}
    BY <1>1 DEF n
  <1>6. ToSet(m) = {m[j] : j \in (1 .. n) \cup {n + 1}} /\ ToSet(s) = {s[j] : j \in 1 .. n}
    BY <1>4, <1>5 DEF ToSet
  <1>7. ToSet(m) = ToSet(s) \cup {w}
    BY <1>3, <1>6
  <1> QED BY <1>7 DEF m

(* A window beside or under another one.                                   *)
LEMMA CreateBesideStacks ==
  ASSUME WindowsInv, Represented', Whole, ~careless', wm_num_windows' = wm_num_windows + 1,
         UNCHANGED tangled, NEW prev_wind \in Created, CreateBeside(wm_num_windows + 1, prev_wind)
  PROVE  Whole' /\ WS!StackNext
  <1> DEFINE w == wm_num_windows + 1
             D == 1 .. w
             e == [Unlinked EXCEPT !.prev = prev_wind]
             l == Append(links, e)
  <1>1. PICK p : p = ParentFor(prev_wind)
    OBVIOUS
  <1>2. /\ links' = InFront(l, w, p) /\ parent' = Append(parent, p)
        /\ ~careless /\ ~tangled /\ ~tangled'
        /\ parent[prev_wind] # null => links[p].last_child = prev_wind
    BY <1>1 DEF CreateBeside, WindowsInv, WindowsTypeOK
  <1>3. /\ wm_num_windows \in Nat /\ null \notin Created /\ Created = 1 .. wm_num_windows
        /\ parent \in [Created -> Created \cup {null}]
        /\ \A x \in Created : Family(links, parent, x)
    BY <1>2, CreatedIsNumbers DEF WindowsInv, Families
  <1>4. /\ p \in Created /\ parent[p] = null
        /\ p = prev_wind \/ links[p].last_child = prev_wind
    BY <1>1, <1>2, <1>3 DEF ParentFor, Family
  <1>5. /\ e \in [Fields -> D \cup {null}] /\ e.prev = prev_wind
        /\ e.next = null /\ e.first_child = null /\ e.last_child = null
    BY <1>3 DEF Unlinked, Fields
  <1> HIDE DEF e
  <1>6. /\ null \notin D /\ w \in D /\ w \notin Created /\ Created = D \ {w}
        /\ l \in Links(D) /\ l[w] = e /\ parent'[w] = p
        /\ \A x \in Created : l[x] = links[x] /\ parent'[x] = parent[x]
    <2>1. PICK n, par : n = wm_num_windows /\ par = Append(parent, p)
      OBVIOUS
    <2>2. parent' = par
      BY <1>2, <2>1
    <2>3. Grown(n, w, D, e, p, l, par)
      BY <1>4, <1>5, <2>1 DEF Grown
    <2> HIDE DEF l, D, w
    <2>4. /\ null \notin D /\ w \in D /\ w \notin Created /\ Created = D \ {w}
          /\ l \in Links(D) /\ l[w] = e /\ par[w] = p
          /\ \A x \in Created : l[x] = links[x] /\ par[x] = parent[x]
      BY <2>3, EnlargedTables
    <2> QED BY <2>2, <2>4
  <1>7. Created' = D /\ wm_num_windows' = w
    BY DEF Created
  <1> HIDE DEF l, D, w
  <1>8. Alone' = Alone /\ p \in Alone /\ Alone \subseteq Created
    BY <1>3, <1>4, <1>6, <1>7 DEF Alone
  <1>9. PICK S : S = Stacks
    OBVIOUS
  <1>10. /\ DOMAIN S = Alone
         /\ \A q \in Alone :
              /\ IsList(Created, links, q, S[q]) /\ ToSet(S[q]) = Children(q)
              /\ S[q] \in Seq(Created) /\ Len(S[q]) \in Nat
              /\ \A j \in 1 .. Len(S[q]) : S[q][j] \in Created /\ parent[S[q][j]] = q
    BY <1>2, <1>9, StacksKnown
  <1>11. PICK M : M = [S EXCEPT ![p] = Append(S[p], w)]
    OBVIOUS
  <1>12. /\ DOMAIN M = Alone /\ M[p] = Append(S[p], w)
         /\ \A q \in Alone : q # p => M[q] = S[q]
    BY <1>8, <1>10, <1>11
  <1>13. \A q \in Alone : IsList(D, l, q, S[q])
    <2>1. Created \subseteq D
      BY <1>6
    <2> QED BY <1>6, <1>8, <1>10, <2>1, ListInLarger
  <1>14. /\ l[w].next = null /\ l[w].prev = prev_wind /\ prev_wind # w /\ p # w /\ p \in D
         /\ l[w].next # w
    BY <1>4, <1>5, <1>6
  <1>15. links[p].last_child = At(S[p], Len(S[p])) /\ l[p].last_child = At(S[p], Len(S[p]))
    BY <1>8, <1>10, <1>13 DEF IsList
  <1>16. At(S[p], Len(S[p])) # null =>
           At(S[p], Len(S[p])) \in Created /\ parent[At(S[p], Len(S[p]))] = p
    BY <1>8, <1>10 DEF At
  <1>17. ASSUME NEW q \in Alone
         PROVE  /\ IsList(Created', links', q, M[q])
                /\ ToSet(M[q]) = {x \in Created' : parent'[x] = q}
    <2>1. CASE q = p
      <3>1. \A j \in 1 .. Len(S[p]) : S[p][j] # w /\ S[p][j] # p
        BY <1>3, <1>4, <1>6, <1>8, <1>10
      <3>2. prev_wind \in {p, At(S[p], Len(S[p]))}
        BY <1>4, <1>15
      <3>3. IsList(D, InFront(l, w, p), p, Append(S[p], w))
        BY <1>6, <1>8, <1>13, <1>14, <3>1, <3>2, NewComesOnTop
      <3>4. ToSet(M[p]) = Children(p) \cup {w}
        <4>1. Created \subseteq D
          BY <1>6
        <4> QED BY <1>6, <1>8, <1>10, <1>12, <4>1, AppendedSet
      <3>5. Children(p) \cup {w} = {x \in D : parent'[x] = p}
        BY <1>6 DEF Children
      <3> QED BY <1>2, <1>7, <1>12, <2>1, <3>3, <3>4, <3>5
    <2>2. CASE q # p
      <3>1. Top(l, w, p) = At(S[p], Len(S[p]))
        BY <1>6, <1>14, <1>15, <1>16 DEF Top
      <3>2. \A j \in 1 .. Len(S[q]) :
              S[q][j] \notin {w, Top(l, w, p), l[w].prev, l[w].next}
        <4> SUFFICES ASSUME NEW j \in 1 .. Len(S[q])
                     PROVE  S[q][j] \notin {w, Top(l, w, p), l[w].prev, l[w].next}
          OBVIOUS
        <4>1. S[q][j] \in Created /\ parent[S[q][j]] = q /\ q # null
          BY <1>3, <1>8, <1>10
        <4>2. S[q][j] # null /\ S[q][j] # w
          BY <1>3, <1>6, <4>1
        <4>3. S[q][j] # At(S[p], Len(S[p])) /\ S[q][j] # p
          BY <1>4, <1>16, <2>2, <4>1, <4>2
        <4> QED BY <1>4, <1>14, <1>15, <3>1, <4>2, <4>3
      <3>3. q \in D
        BY <1>6, <1>8
      <3>4. IsList(D, InFront(l, w, p), q, S[q])
        BY <1>6, <1>13, <1>14, <2>2, <3>2, <3>3, OtherListsStay
      <3>5. Children(q) = {x \in D : parent'[x] = q}
        BY <1>6, <2>2 DEF Children
      <3> QED BY <1>2, <1>7, <1>10, <1>12, <2>2, <3>4, <3>5
    <2> QED BY <2>1, <2>2
  <1>18. Whole' /\ Stacks' = [q \in Alone |-> M[q]]
    <2>1. PICK A : A = Alone
      OBVIOUS
    <2>2. /\ A = Alone'
          /\ \A q \in A : /\ IsList(Created', links', q, M[q])
                         /\ ToSet(M[q]) = {x \in Created' : parent'[x] = q}
      BY <1>8, <1>17, <2>1
    <2>3. ~tangled'
      BY <1>2
    <2>4. Whole' /\ Stacks' = [q \in A |-> M[q]]
      BY <2>2, <2>3, StacksFollow
    <2> QED BY <2>1, <2>4
  <1>19. Stacks' = M
    BY <1>10, <1>11, <1>18
  <1>20. WS!NewChild(p)
    BY <1>7, <1>9, <1>11, <1>19 DEF WS!NewChild, w
  <1>21. DOMAIN Stacks = Alone
    BY DEF Stacks
  <1> QED BY <1>8, <1>18, <1>20, <1>21 DEF WS!StackNext

LEMMA WholeInit == WindowsInit => Whole /\ WS!StackInit
  <1> SUFFICES ASSUME WindowsInit PROVE Whole /\ WS!StackInit
    OBVIOUS
  <1>1. wm_num_windows = 0 /\ Alone = {}
    BY DEF WindowsInit, Alone, Created
  <1>2. Stacks = [w \in {} |-> <<>>]
    BY <1>1 DEF Stacks
  <1> QED BY <1>1, <1>2 DEF Whole, WS!StackInit

LEMMA WholeStep ==
  ASSUME WindowsInv, Represented', Whole, [WindowsNext]_windowVars
  PROVE  Whole' /\ [WS!StackNext \/ careless']_<<wm_num_windows, Stacks>>
  <1>1. CASE careless'
    BY <1>1 DEF Whole
  <1>2. CASE ~careless' /\ create_window
    <2>1. wm_num_windows' = wm_num_windows + 1 /\ UNCHANGED tangled
      BY <1>2 DEF create_window
    <2>2. CASE CreateAlone(wm_num_windows')
      <3>1. ~careless
        BY <1>2, <2>2 DEF CreateAlone
      <3> QED BY <2>1, <2>2, <3>1, CreateAloneStacks
    <2>3. CASE \E prev_wind \in Created : CreateBeside(wm_num_windows', prev_wind)
      BY <1>2, <2>1, <2>3, CreateBesideStacks
    <2> QED BY <1>2, <2>2, <2>3 DEF create_window
  <1>3. CASE ~careless' /\ \E w \in Created : move_to_front(w)
    <2>1. PICK w \in Created : move_to_front(w)
      BY <1>3
    <2>2. ~careless
      BY <1>3, <2>1 DEF move_to_front
    <2> QED BY <2>1, <2>2, MoveStacks
  <1>4. CASE UNCHANGED windowVars
    <2>1. UNCHANGED <<wm_num_windows, links, parent, careless>>
      BY <1>4 DEF windowVars
    <2>2. Created' = Created /\ Alone' = Alone
      BY <2>1 DEF Created, Alone
    <2>3. \A q \in Created : Painted(q)' = Painted(q)
      BY <2>1, <2>2 DEF Painted, Child
    <2>4. Alone \subseteq Created
      BY DEF Alone
    <2>5. Stacks' = Stacks
      BY <2>2, <2>3, <2>4 DEF Stacks
    <2>6. \A q \in Alone : Children(q)' = Children(q)
      BY <2>1, <2>2 DEF Children
    <2> QED BY <2>1, <2>2, <2>3, <2>4, <2>5, <2>6 DEF Whole
  <1> QED BY <1>1, <1>2, <1>3, <1>4 DEF WindowsNext

(* The linked lists are stacks: as long as every prev_wind stands alone or *)
(* is the topmost child, a new window comes on top of its parent's others, *)
(* move_to_front brings one of them there and keeps the order of the rest, *)
(* and no window is lost (vesa_graphics.c:92-126, 155-201).                *)
THEOREM WindowsImplementStacks == WindowsSpec => ImplementsWindowStack
  <1>1. WindowsInv /\ Represented' /\ Whole /\ [WindowsNext]_windowVars =>
          Whole' /\ [WS!StackNext \/ careless']_<<wm_num_windows, Stacks>>
    BY WholeStep
  <1> QED BY <1>1, WholeInit, ListsAreRepresented, WindowsInvariant, PTL
          DEF WindowsSpec, ImplementsWindowStack
=============================================================================
