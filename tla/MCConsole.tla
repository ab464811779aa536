----------------------------- MODULE MCConsole -----------------------------
(***************************************************************************)
(* Console with up to two of three files, one of them called dev, a screen *)
(* of 2 x 8 characters, whose lines are pixels of three bytes and four     *)
(* bytes of padding, and a history of 16.  GRUB has loaded the two modules *)
(* of iso.sh, or only one of them, or one too many, or one whose name      *)
(* begins with "initrd".                                                   *)
(***************************************************************************)
EXTENDS Console

MC_Files == {[name |-> "f", bytes |-> <<"x", "NL", "y", "z">>],
             [name |-> "g", bytes |-> <<"u", "v", "w">>],
             [name |-> "dev", bytes |-> <<"w">>]}
MC_Disk  == [string |-> "initrd", mod_start |-> 1024]
MC_User  == [string |-> "init_user", mod_start |-> 512]
MC_Old   == [string |-> "initrd_old", mod_start |-> 768]
MC_ModuleLists ==
  {<<MC_Disk>>, <<MC_User, MC_Disk>>, <<MC_User>>, <<MC_Old, MC_Disk>>, <<MC_User, MC_Old, MC_Disk>>,
   <<MC_Disk, MC_User, MC_User>>, <<MC_User, MC_User, MC_Disk>>}
MC_Longer == {<<"initrd_old", "initrd">>}
MC_Packets == {<<7, 0>>, <<0, 35>>, <<0, -35>>, <<100, 100>>}
MC_Numbers == {0, 1, 2, 4, 5, Word - 2}
=============================================================================
