------------------------ MODULE MCRelationInclude ------------------------
(* Users have posts and a team, posts have an author.  In memory each of   *)
(* the resources has a pool of its own with one slot.                      *)
EXTENDS RelationInclude

CONSTANTS users, posts, teams

Posts == [from |-> users, to |-> posts, many |-> TRUE]
Team == [from |-> users, to |-> teams, many |-> FALSE]
TeamOfPost == [from |-> posts, to |-> teams, many |-> FALSE]
Author == [from |-> posts, to |-> users, many |-> FALSE]

MCAcyclic == {Posts, Team}
MCChain == {Posts, TeamOfPost}
MCCyclic == {Posts, Author}

\* Only the relations of the run that hangs lead around a cycle.
ASSUME CycleAssumption == NoCycle <=> Relations # MCCyclic

MCOwnPool == [t \in Resources |-> t]
MCOneSlot == [p \in Pools |-> 1]
=============================================================================
