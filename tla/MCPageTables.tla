----------------------------- MODULE MCPageTables -----------------------------
(* Three levels of two entries.  The loader has mapped a huge page of two  *)
(* frames and one page; callers map and unmap pages that share all, some   *)
(* or none of their tables, the loader's page and one in the huge page.    *)
EXTENDS PageTables, TLC

ConstBootTables ==
  10 :> (0 :> Absent @@ 1 :> Link(11, Rights)) @@
  11 :> (0 :> Huge(20, {"WRITE"}) @@ 1 :> Link(12, Rights)) @@
  12 :> (0 :> Link(40, {"USER"}) @@ 1 :> Absent)
ConstPages == {<<0, 0, 0>>, <<0, 0, 1>>, <<0, 1, 0>>, <<1, 0, 1>>, <<1, 1, 0>>}
ConstPermissions == {{"WRITE", "USER"}}
===============================================================================
