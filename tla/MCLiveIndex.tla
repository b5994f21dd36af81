---------------------------- MODULE MCLiveIndex -----------------------------
(***************************************************************************)
(* Two small trees: a file beside a nested directory, and a file beside a  *)
(* directory of a vendored name.                                           *)
(***************************************************************************)
EXTENDS LiveIndex

NestedDirs == {"root", "a", "a/b", "a/vendor"}
NestedFiles == {"top.py", "a/x.py"}
NestedNames == NestedDirs \union NestedFiles
NestedParent ==
  [n \in {"a", "a/b", "a/vendor", "top.py", "a/x.py"} |->
     IF n \in {"a", "top.py"} THEN "root" ELSE "a"]

VendorDirs == {"root", "vendor"}
VendorFiles == {"top.py", "vendor/x.py"}
VendorParent ==
  [n \in {"vendor", "top.py", "vendor/x.py"} |->
     IF n = "vendor/x.py" THEN "vendor" ELSE "root"]
=============================================================================
