--------------------------------- MODULE MCFs ---------------------------------
(* Instances of Fs for TLC.                                                *)
EXTENDS Fs

CONSTANTS p1, p2

SomeNames == {"a", "b", ".", ".."}

Op(o, path, new) == [op |-> o, path |-> path, new |-> new]

\* One process makes and removes what the other works with.
SomeCalls == [p \in {p1, p2} |-> IF p = p1
  THEN {Op("create", <<"/", "a">>, <<>>), Op("mkdir", <<"a">>, <<>>),
        Op("unlink", <<"a">>, <<>>), Op("link", <<"/", "a">>, <<"b">>)}
  ELSE {Op("create", <<"a", "b">>, <<>>), Op("mkdir", <<"a", "b">>, <<>>),
        Op("unlink", <<"b">>, <<>>), Op("unlink", <<"/">>, <<>>),
        Op("unlink", <<"a", ".">>, <<>>), Op("openw", <<"a">>, <<>>),
        Op("chdir", <<"a">>, <<>>)}]

\* What NothingFreedInUse (FsProofs) asks of the calls.
ASSUME NoneGoesUp == NoUpwards

=============================================================================
