----------------------------- MODULE MCPackages -----------------------------
(* A project that loses or gains its only file besides the manifest as it    *)
(* changes its version, or is edited without either; versions whose names    *)
(* sort the other way round than their numbers, and two pre-releases of one  *)
(* release, others' work.                                                    *)
EXTENDS Packages

Old == <<0, 9, 1, 0>>
New == <<0, 10, 0, 0>>
State(files, v) == [files |-> files, version |-> v]
MCProjects == {State({"f"}, Old), State({}, New)}
MCNameOrder == <<New, Old>>
MCShelf == {<<0, 9, 0, 0>>, <<0, 10, 0, 1>>, <<0, 10, 0, 2>>, <<1, 0, 1, 0>>}
=============================================================================
