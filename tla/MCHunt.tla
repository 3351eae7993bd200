--------------------------------- MODULE MCHunt ---------------------------------
(* Hunt with directories of up to three rules.                             *)
EXTENDS Hunt

R(id, kind) == [id |-> id, kind |-> kind]
FewRules == {<<R("r", "sound")>>,
             <<R("r", "sound"), R("s", "sound"), R("t", "sound")>>,
             <<R("r", "broken"), R("s", "quiet"), R("t", "sound")>>,
             <<R("r", "sound"), R("s", "tableless"), R("r", "sound")>>}
==================================================================================
