------------------------------ MODULE Sessions ------------------------------
(***************************************************************************)
(* What the presence server promises about its connections, as if finding  *)
(* a session, telling its friends, closing its socket and striking it off  *)
(* the list were nobody's business:                                        *)
(*                                                                         *)
(*   - a socket is shut only for a reason: its peer is gone, its thread    *)
(*     has ended its input, or somebody hunts the profile it holds;        *)
(*   - a hunt, of a login for its profile or of an admin who kicks it, is  *)
(*     over only when every session that was listed under that profile     *)
(*     when it began has been shut and has left the list, or has taken     *)
(*     another profile since;                                              *)
(*   - a login takes the profile only then, and only when nobody else on   *)
(*     the list has it, unless two logins hunted it at once;               *)
(*   - nothing else gives, moves or takes a profile.                       *)
(*                                                                         *)
(* Gpcm implements this module.                                            *)
(***************************************************************************)
CONSTANTS Conn, Hunter, Profile, None

VARIABLES
  listed,   \* the connections a search finds
  socket,   \* none before the accept, open, closed
  holder,   \* holder[c]: the profile connection c is logged in as
  wants,    \* wants[h]: the profile h is hunting
  due,      \* due[h]: the sessions that have to go before its hunt is over
  ending,   \* connections that end by themselves: the world's business
  raced     \* profiles two logins have hunted at once

Holding(p) == {c \in listed : holder[c] = p}

Accept(c) ==
  /\ socket[c] = "none"
  /\ socket' = [socket EXCEPT ![c] = "open"]
  /\ listed' = listed \union {c}
  /\ UNCHANGED <<holder, wants, due>>

Seek(h, p) ==
  /\ wants[h] = None
  /\ wants' = [wants EXCEPT ![h] = p]
  /\ due' = [due EXCEPT ![h] = Holding(p)]
  /\ UNCHANGED <<listed, socket, holder>>

Shut(c) ==
  /\ socket[c] = "open"
  /\ c \in ending \/ \E h \in Hunter : c \in due[h]
  /\ socket' = [socket EXCEPT ![c] = "closed"]
  /\ UNCHANGED <<listed, holder, wants, due>>

\* At most one of the hunts that are after c is told.
Leave(c) ==
  /\ socket[c] = "closed"
  /\ listed' = listed \ {c}
  /\ \/ UNCHANGED due
     \/ \E h \in Hunter : due' = [due EXCEPT ![h] = @ \ {c}]
  /\ UNCHANGED <<socket, holder, wants>>

Over(h) ==
  /\ wants[h] # None /\ due[h] = {}
  /\ wants' = [wants EXCEPT ![h] = None]

GiveUp(h) == Over(h) /\ UNCHANGED <<listed, socket, holder, due>>

\* Hunts for the profile c has left may let it go, those for the one it takes
\* may be after it now.
Assume(c) ==
  LET p == wants[c] IN
  /\ Over(c)
  /\ Holding(p) \subseteq {c} \/ p \in raced
  /\ holder' = [holder EXCEPT ![c] = p]
  /\ \A h \in Hunter :
       /\ due'[h] \ {c} = due[h] \ {c}
       /\ c \in due'[h] \ due[h] => wants[h] = p
       /\ c \in due[h] \ due'[h] => wants[h] # p
  /\ UNCHANGED <<listed, socket>>

Rest == UNCHANGED <<listed, socket, holder, wants, due>>

Races ==
  raced' = raced \union {p \in Profile : \E c, d \in Conn :
                           c # d /\ wants'[c] = p /\ wants'[d] = p}

Init ==
  /\ listed = {} /\ ending = {} /\ raced = {}
  /\ socket = [c \in Conn |-> "none"]
  /\ holder = [c \in Conn |-> None]
  /\ wants  = [h \in Hunter |-> None]
  /\ due    = [h \in Hunter |-> {}]

Next ==
  /\ \/ \E c \in Conn : Accept(c) \/ Shut(c) \/ Leave(c) \/ Assume(c)
     \/ \E h \in Hunter : GiveUp(h) \/ \E p \in Profile : Seek(h, p)
     \/ Rest
  /\ Races

Spec == Init /\ [][Next]_<<listed, socket, holder, wants, due, ending, raced>>

=============================================================================
