----------------------------- MODULE MCListener -----------------------------
(* Two clients at the listener of server 0, in all pairs of programs.      *)
EXTENDS Listener

MCNodeOf == [c \in Clients |-> 0]

MCWorkloads ==
    { [c \in Clients |-> IF c = 0 THEN w[1] ELSE w[2]] :
          w \in { <<p, p>> : p \in {"ping", "echo", "sum", "sumrepeat"} } \cup
               {<<"ping", "echo">>, <<"ping", "sum">>, <<"ping", "sumrepeat">>,
                <<"echo", "sumrepeat">>, <<"sum", "sumrepeat">>} }
=============================================================================
