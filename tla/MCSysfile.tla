------------------------------ MODULE MCSysfile -----------------------------
(* Small instances of Sysfile for TLC.                                     *)
EXTENDS Sysfile, TLC

At(elems) == [abs |-> TRUE, elems |-> elems]
From(elems) == [abs |-> FALSE, elems |-> elems]

\* A directory a, a file /a/b with a second name /b, and a device that is made
\* wherever the process is.
TreeCalls ==
  {<<"mkdir", At(<<"a">>)>>, <<"chdir", At(<<"a">>)>>, <<"unlink", At(<<"a">>)>>,
   <<"open", At(<<"a">>), "write">>, <<"open", At(<<"a", "b">>), "create">>,
   <<"link", At(<<"a", "b">>), At(<<"b">>)>>, <<"unlink", At(<<"b">>)>>,
   <<"mknod", From(<<"b">>)>>}

\* One name that is made and removed again.
FileCalls == {<<"open", At(<<"a">>), "create">>, <<"unlink", At(<<"a">>)>>}

Symmetry == Permutations(Proc)
=============================================================================
