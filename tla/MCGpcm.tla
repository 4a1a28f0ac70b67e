------------------------------- MODULE MCGpcm -------------------------------
(***************************************************************************)
(* Instances of Gpcm for TLC.                                              *)
(***************************************************************************)
EXTENDS Gpcm, TLC

\* Connections and profiles are interchangeable.
Symmetry == Permutations(Conn) \union Permutations(Profile)

\* The requests clients send.
Logins   == {"login"}
Endings  == {"login", "unknown"}
Presence == {"login", "status", "unknown"}
Friends  == {"login", "authadd", "delbuddy", "pinvite", "getprofile"}

\* The friends there are at the start.
Nobody   == {}
Everyone == {r \in Pair : Cardinality(r) = 2}

(***************************************************************************)
(* Bounds on the behaviours a run follows.                                 *)
(***************************************************************************)
\* Up to the first race or lost look-up: the properties excuse what comes
\* after it.
Unraced     ==
  noted \intersect (LoginNotes \union TellNotes \union FriendNotes \union UntoldNotes) = {}

\* A connection logs in once.
OneLogin    == \A c \in Conn : profile[c] # None => ~\E p \in Profile : LoggingIn(c, p)

NoSilence   == \A c \in Conn : peer[c] # "lost"
NoHeartbeat == job[Heartbeat].at = "idle"
NoKick      == job[Admin].at = "idle"

\* A kick does not meet a request no handler knows: both end in Disconnect, as
\* the end of a connection does, which the kick does meet.
KickAlone   == NoKick \/ \A c \in Conn : job[c].op # "unknown"

\* Once three connections are accepted they log in, and nothing races.
ThreeLogIn  ==
  \/ Cardinality(Accepted) < 3
  \/ Unraced /\ NoKick /\ \A c \in Conn : job[c].op # "unknown"

=============================================================================
