----------------------------- MODULE MCCommands -----------------------------
(***************************************************************************)
(* Instances of Commands for TLC.  Each configuration is a scenario: the   *)
(* clients and keys it is about and how often each event may happen.       *)
(***************************************************************************)
EXTENDS Commands, TLC

CONSTANTS c1, c2, c3, s1, s2

Names == {"a", "b"}

Symmetry == Permutations(Client) \cup Permutations(Slave)

Times(f) == [e \in Event |-> IF e \in DOMAIN f THEN f[e] ELSE 0]

A == <<0, "a">>
B == <<0, "b">>

\* Two clients block, one pushes; the target of BRPOPLPUSH may be a string
Blocking == [clients |-> 3, keys |-> {A, B}, ends |-> {"head"},
  max |-> Times([push |-> 2, bpop |-> 1, brpoplpush |-> 1, set |-> 1, timeout |-> 1])]

\* The target of BRPOPLPUSH expires when the client is served
Vanishing == [Blocking EXCEPT !.clients = 2,
  !.max = Times([push |-> 1, brpoplpush |-> 1, set |-> 1, expire |-> 1])]

\* Three clients, BLPOP and BRPOP, a transaction that pushes and deletes
Queueing == [clients |-> 3, keys |-> {A}, ends |-> End,
  max |-> Times([push |-> 2, bpop |-> 2, multi |-> 1, del |-> 1])]

\* Clients leave in any state and come back
Leaving == [clients |-> 2, keys |-> {A}, ends |-> {"head"},
  max |-> Times([bpop |-> 2, watch |-> 1, wait |-> 1, timeout |-> 1, close |-> 1,
                 slaveof |-> 1])]

Watching == [clients |-> 2, keys |-> {A, B}, ends |-> {"head"},
  max |-> Times([push |-> 2, pop |-> 1, watch |-> 1, multi |-> 1, flush |-> 1])]

\* Lists that appear through MOVE, SWAPDB and RENAME
Moving == [clients |-> 2, keys |-> {A, <<1, "a">>}, ends |-> {"head"},
  max |-> Times([push |-> 1, bpop |-> 1, multi |-> 1, move |-> 1, swapdb |-> 1])]

Renaming == [clients |-> 2, keys |-> {A, B}, ends |-> {"head"},
  max |-> Times([push |-> 1, bpop |-> 1, rename |-> 1, expire |-> 1, multi |-> 1])]

Transaction == [clients |-> 2, keys |-> {A, B}, ends |-> {"head"},
  max |-> Times([push |-> 1, brpoplpush |-> 1, multi |-> 1, expire |-> 1, read |-> 1])]

Waiting == [clients |-> 2, keys |-> {A}, ends |-> {"head"},
  max |-> Times([push |-> 2, wait |-> 2, ack |-> 2, timeout |-> 1])]

\* MOVE and SWAPDB change watched keys
Unsignalled == [clients |-> 2, keys |-> {A, <<1, "a">>}, ends |-> {"head"},
  max |-> Times([push |-> 1, watch |-> 1, multi |-> 1, move |-> 1, swapdb |-> 1])]

\* A client that was served waits for its write
Served == [clients |-> 2, keys |-> {A, B}, ends |-> {"head"},
  max |-> Times([push |-> 1, bpop |-> 1, brpoplpush |-> 1, wait |-> 1, ack |-> 2])]

\* WAIT in a transaction does not block
Deferred == [Waiting EXCEPT !.max = Times([push |-> 1, multi |-> 1, wait |-> 2, ack |-> 2,
                                           timeout |-> 1])]

Expiring == [clients |-> 2, keys |-> {A, B}, ends |-> {"head"},
  max |-> Times([push |-> 1, rpoplpush |-> 1, watch |-> 1, multi |-> 1, expire |-> 1,
                 error |-> 1])]

Scenarios == {Blocking, Vanishing, Queueing, Leaving, Watching, Moving, Renaming, Transaction,
              Unsignalled, Served, Waiting, Deferred, Expiring}

=============================================================================
