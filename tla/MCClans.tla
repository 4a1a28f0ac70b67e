------------------------------ MODULE MCClans ------------------------------
(***************************************************************************)
(* Instances of Clans for TLC.                                             *)
(***************************************************************************)
EXTENDS Clans, TLC

\* Ids and texts are interchangeable: no handler orders them.
Symmetry ==
  Permutations(Player) \union Permutations(Clan) \union Permutations(Name)
    \union Permutations(Tag) \union Permutations(Worker)

\* Numbers on both sides of every boundary of convertRank.
MCRankText == {2, 3, 256}

\* What a handler may spoil when one of its calls fails.
Concerns(j) ==
  ({"rank"} \X {c \in Clan : j.op = "ChangeRank" /\ j.clan = c})
    \union ({"close"} \X {c \in Clan : j.op = "Disband" /\ j.clan = c})
    \union ({"enrol"} \X {p \in Player : Enrols(j, p)})
    \union ({"name"} \X {x \in Name \union TagText : Spells(j, x)})

Alone(w) == \A v \in Worker \ {w} : job[v] = NoJob

\* Behaviours are followed to the end of their first race, or to the end of the
\* handler, alone at work, of which a call failed.
FewNotes ==
  \/ Cardinality(noted) <= 1 /\ noted \subseteq Races
  \/ \E w \in Worker : Alone(w) /\ noted \subseteq Concerns(job[w])

\* An empty tag, which only a failed read writes, is followed through handlers
\* that run one after the other.
NoTagAlone ==
  NoTag \in {clans[c].tag : c \in Clan} \union {job[w].tag : w \in Worker} =>
    \E w \in Worker : Alone(w)

\* The behaviours in which no call fails: what contradicts a comment of the code
\* needs no failure.
NothingFails == Init /\ [][(Crash \/ \E w \in Worker : Step(w)) /\ Note({})]_vars

=============================================================================
