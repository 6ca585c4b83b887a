------------------------------ MODULE MCFiles ------------------------------
(***************************************************************************)
(* Small instances of Files for TLC.                                       *)
(***************************************************************************)
EXTENDS Files, TLC

CONSTANTS c1, c2, u1, u2, p1, p2, p3, s1, a, b, n

MCWorkspace == (p1 :> <<a>>) @@ (p2 :> <<b>>) @@ (p3 :> Missing) @@ (s1 :> Missing)

\* the file is deleted, or saved with the text other requests write as well
MCEdited == {Missing, <<n>>}

to(from, dest) == [source |-> from, destination |-> dest, text |-> <<>>]
new(dest) == [source |-> dest, destination |-> dest, text |-> <<n>>]
call(tl, its) == [tool |-> tl, items |-> its]

\* one request for each tool, and a batch that moves a file twice; the second
\* item of the other batch of two and of the archive meets a file that is there
MCRequests == {
  call("write", <<new(p3)>>),
  call("append", <<new(p1)>>),
  call("copy", <<to(p1, p3)>>),
  call("move", <<to(p1, p3)>>),
  call("batch_copy", <<to(p2, p3)>>),
  call("batch_move", <<to(p1, p3), to(p2, p3)>>),
  call("batch_move", <<to(p1, p3), to(p3, p1)>>),
  call("extract", <<new(p3), new(p2)>>),
  call("store", <<to(p1, s1)>>),
  call("restore", <<to(s1, p1)>>) }

MCSymmetry == Permutations({c1, c2}) \cup Permutations({u1, u2})
====
