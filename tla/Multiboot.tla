----------------------------- MODULE Multiboot -----------------------------
(***************************************************************************)
(* The modules that GRUB has loaded, kernel/arch/i386/misc/multiboot.c.    *)
(* Names are only compared, by memcmp over the length of the name that is  *)
(* looked for: a name that begins with it is equal to it.                  *)
(***************************************************************************)
EXTENDS Naturals, Sequences, FiniteSetsExt

CONSTANTS
  MAX_MODULES,
  BASE_VIRTUAL,
  ModuleLists,         \* what GRUB may have loaded: names and physical addresses
  Longer               \* pairs of names: the first begins with the second

Strings == UNION {{l[i].string : i \in DOMAIN l} : l \in ModuleLists}

ASSUME MultibootAssumption ==
  /\ MAX_MODULES \in Nat /\ BASE_VIRTUAL \in Nat
  /\ ModuleLists \subseteq Seq([string : Strings, mod_start : Nat])

VARIABLES
  mbt,                 \* the modules of GRUB's table
  mods                 \* the kernel's copy of it, an array of MAX_MODULES

multibootVars == <<mbt, mods>>

mods_count == Len(mbt)

MultibootInit ==
  /\ mbt \in ModuleLists
  /\ mods = <<>>

load_modules ==
  /\ mods' = [i \in 1 .. Min({mods_count, MAX_MODULES}) |->
                [mbt[i] EXCEPT !.mod_start = @ + BASE_VIRTUAL]]
  /\ UNCHANGED mbt

\* what is behind the array is not known
Beyond == [string |-> "unknown", mod_start |-> 0]

\* entry i as get_module and print_modules read it, who go up to mods_count
Entry(i) == IF i \in DOMAIN mods THEN mods[i] ELSE Beyond

Matches(string, wanted) == string = wanted \/ <<string, wanted>> \in Longer

(* The first match, or 0 (<<>>); an entry behind the array may match.      *)
get_module(wanted) ==
  LET found == {i \in DOMAIN mods : Matches(mods[i].string, wanted)}
  IN IF found # {} THEN {<<mods[Min(found)]>>}
     ELSE {<<>>} \cup {<<Entry(i)>> : i \in MAX_MODULES + 1 .. mods_count}
=============================================================================
