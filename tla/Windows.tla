------------------------------ MODULE Windows ------------------------------
(***************************************************************************)
(* The windows of gfx/vesa_graphics.c (struct wind_list): create_window,   *)
(* move_to_front and the order in which repaint_children paints.  Windows  *)
(* are numbered from 1 in the order of their creation; 0 is the null       *)
(* pointer.  What a window looks like, where it is and its memory are left *)
(* out.  Nothing calls these functions in the kernel as it stands (the     *)
(* lines of vesa_graphics_init that do are commented out), so they are     *)
(* taken as they offer themselves: any window may be named as prev_wind,   *)
(* any child brought to the front.                                         *)
(***************************************************************************)
EXTENDS Integers, Sequences, SequencesExt, FiniteSets

CONSTANT MAX_WINDOWS

ASSUME WindowsAssumption == MAX_WINDOWS \in Nat \ {0}

VARIABLES
  wm_num_windows,
  links,               \* of each window: prev, next, first_child, last_child
  parent,
  careless,            \* ghost: a child that was not topmost has been named as prev_wind
  tangled              \* ghost: and later a window has been brought to the front

windowVars == <<wm_num_windows, links, parent, careless, tangled>>

null == 0
Created == 1 .. wm_num_windows

Unlinked == [prev |-> null, next |-> null, first_child |-> null, last_child |-> null]

WindowsInit ==
  /\ wm_num_windows = 0
  /\ links = <<>>
  /\ parent = <<>>
  /\ careless = FALSE /\ tangled = FALSE

-----------------------------------------------------------------------------
(* move_to_front, statement by statement; an assignment through a null     *)
(* pointer is guarded in the code.                                         *)

Assign(l, w, field, value) ==
  IF w = null THEN l ELSE [l EXCEPT ![w] = [@ EXCEPT ![field] = value]]

\* the neighbours, then the ends, of the list that w leaves
TakenOut(l, w) ==
  LET l1 == Assign(l, l[w].prev, "next", l[w].next)
  IN  Assign(l1, l1[w].next, "prev", l1[w].prev)

EndsWithout(l, w, p) ==
  LET l1 == IF l[p].first_child = w THEN Assign(l, p, "first_child", l[w].next) ELSE l
  IN  IF l1[p].last_child = w THEN Assign(l1, p, "last_child", l1[w].prev) ELSE l1

\* mutant: the old topmost window is not linked to the new one
PutOnTop_Unlinked(l, w, p) ==
  LET l1 == Assign(Assign(l, w, "prev", l[p].last_child), w, "next", null)
      l2 == Assign(l1, p, "last_child", w)
  IN  IF l2[p].first_child = null THEN Assign(l2, p, "first_child", w) ELSE l2

PutOnTop(l, w, p) ==
  LET l1 == Assign(Assign(l, w, "prev", l[p].last_child), w, "next", null)
      l2 == Assign(l1, l1[p].last_child, "next", w)
      l3 == Assign(l2, p, "last_child", w)
  IN  IF l3[p].first_child = null THEN Assign(l3, p, "first_child", w) ELSE l3

InFront(l, w, p) == PutOnTop(EndsWithout(TakenOut(l, w), w, p), w, p)

\* wnd->parent is followed without a test: a window that stands alone has none
move_to_front(w) ==
  /\ parent[w] # null
  /\ links' = InFront(links, w, parent[w])
  /\ tangled' = careless
  /\ UNCHANGED <<wm_num_windows, parent, careless>>

\* mutant: a child's child is the child's
ParentFor_Direct(prev_wind) == prev_wind

\* prev_wind->parent ? prev_wind->parent : prev_wind
ParentFor(prev_wind) ==
  IF parent[prev_wind] # null THEN parent[prev_wind] ELSE prev_wind

CreateAlone(w) ==
  /\ links' = Append(links, Unlinked)
  /\ parent' = Append(parent, null)
  /\ UNCHANGED careless

(* The new window's prev is prev_wind when move_to_front unlinks it.       *)
CreateBeside(w, prev_wind) ==
  LET p == ParentFor(prev_wind)
      l == Append(links, [Unlinked EXCEPT !.prev = prev_wind])
  IN  /\ links' = InFront(l, w, p)
      /\ parent' = Append(parent, p)
      /\ careless' = (careless \/ (parent[prev_wind] # null /\ links[p].last_child # prev_wind))

\* mutant: the last place is used too
HasRoom_Late == wm_num_windows < MAX_WINDOWS

HasRoom == wm_num_windows + 1 < MAX_WINDOWS

\* without room the code returns -1 and changes nothing
create_window ==
  /\ HasRoom
  /\ wm_num_windows' = wm_num_windows + 1
  /\ UNCHANGED tangled
  /\ \/ CreateAlone(wm_num_windows')
     \/ \E prev_wind \in Created : CreateBeside(wm_num_windows', prev_wind)

WindowsNext == create_window \/ \E w \in Created : move_to_front(w)

WindowsSpec == WindowsInit /\ [][WindowsNext]_windowVars

-----------------------------------------------------------------------------
(* The children of a window as repaint_children goes through them: the     *)
(* n-th, null when there are no more.                                      *)
Child(w, n) ==
  LET nth[k \in 1 .. n] ==
        IF k = 1 THEN links[w].first_child
        ELSE IF nth[k - 1] = null THEN null ELSE links[nth[k - 1]].next
  IN  nth[n]

\* there is none after the one that is null
Painted(w) ==
  [n \in {k \in Created : Child(w, k) # null} |-> Child(w, n)]

WindowsTypeOK ==
  /\ wm_num_windows \in 0 .. MAX_WINDOWS - 1
  /\ links \in [Created -> [{"prev", "next", "first_child", "last_child"} -> Created \cup {null}]]
  /\ parent \in [Created -> Created \cup {null}]
  /\ careless \in BOOLEAN /\ tangled \in BOOLEAN

(* repaint_children comes to an end, whatever windows create_window was    *)
(* given: no chain of children is a circle, none is painted twice, each    *)
(* under its own parent, and no child has children that a second level of  *)
(* the recursion would paint (vesa_graphics.c:140-153).  Only when a list  *)
(* that was cut off is then reordered may the chain become a circle.       *)
PaintingEnds ==
  ~tangled => \A w \in Created :
    /\ Child(w, wm_num_windows + 1) = null
    /\ IsInjective(Painted(w))
    /\ \A c \in ToSet(Painted(w)) : parent[c] = w /\ links[c].first_child = null

Alone == {w \in Created : parent[w] = null}

(* As long as every prev_wind stands alone or is the topmost child, what   *)
(* is painted are the stacks: new windows on top, none of them lost        *)
(* (vesa_graphics.c:155-201).  Naming another child cuts off its later     *)
(* siblings.                                                               *)
Stacks == [w \in Alone |-> Painted(w)]

WS == INSTANCE WindowStack WITH count <- wm_num_windows, stacks <- Stacks

ImplementsWindowStack ==
  WS!StackInit /\ [][WS!StackNext \/ careless']_<<wm_num_windows, Stacks>>
=============================================================================
