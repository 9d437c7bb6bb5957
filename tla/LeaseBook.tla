----------------------------- MODULE LeaseBook -----------------------------
(***************************************************************************)
(* What a pool of addresses promises, whatever keeps it: an address goes   *)
(* only to a client while nobody has it, and leaves a client only by that  *)
(* client's own request, or when the whole book is forgotten.  An address  *)
(* a client abandons by asking again is Lost: no one can have it.          *)
(***************************************************************************)
CONSTANTS
    Client, \* who asks for addresses
    Server, \* who keeps a pool
    Addr,   \* the addresses
    Free,   \* nobody has the address
    Lost    \* the address is given out and nobody knows to whom

VARIABLE book \* server -> address -> its client, Free or Lost

BookInit == book = [b \in Server |-> [a \in Addr |-> Free]]

\* Address a of server b goes to client s; whatever s had is Lost.
Grant(s, b, a) ==
    /\ book[b][a] = Free
    /\ book' = [x \in Server |-> [y \in Addr |->
                  IF x = b /\ y = a THEN s ELSE IF book[x][y] = s THEN Lost ELSE book[x][y]]]

\* Client s gives back what it has.
Return(s) ==
    book' = [x \in Server |-> [y \in Addr |-> IF book[x][y] = s THEN Free ELSE book[x][y]]]

\* The servers restart.
Forget == book' = [b \in Server |-> [a \in Addr |-> Free]]

BookNext ==
    \/ \E s \in Client, b \in Server, a \in Addr : Grant(s, b, a)
    \/ \E s \in Client : Return(s)
    \/ Forget

BookSpec == BookInit /\ [][BookNext]_book
=============================================================================
