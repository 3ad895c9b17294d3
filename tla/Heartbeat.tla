----------------------------- MODULE Heartbeat -----------------------------
(***************************************************************************)
(* The heartbeater of one node (src/dist/heartbeat), which keeps the       *)
(* node's ServerGroup up to date: it asks the servers of the group, one    *)
(* after the other, over UDP; a server that does not answer three times is *)
(* declared dead; an answer has the chunks of the server and its news of   *)
(* servers added and dead, and news that contradict the group make the     *)
(* heartbeater ask the server they are about before it goes on.            *)
(*                                                                         *)
(* The other goroutines that change the group take steps in between: the   *)
(* handler of OpAddServerToGroup, and the repair loop and the releaser,    *)
(* which list the local chunks and then give the list to the group.  A     *)
(* step is one exchange over UDP, one list or one operation on the group.  *)
(***************************************************************************)
EXTENDS ServerGroup

CONSTANTS
    me,             \* LocalhostIPPort
    MaxChanges,     \* bound on the changes of the other servers
    MaxLosses       \* bound on the exchanges that a server in service misses

ASSUME HeartbeatAssumption ==
    /\ me \in Server /\ IsFiniteSet(Server) /\ Checksum # {}
    /\ MaxChanges \in Nat /\ MaxLosses \in Nat

timeoutRetries == 3     \* the literal of request

VARIABLES
    up,             \* the servers in service
    has,            \* the chunks each server has
    tells, buries,  \* the news each server gives: servers added and dead
    stack,          \* request's activations, innermost first: whom to ask, and
                    \* which check comes before asking
    timeouts,       \* Heartbeater.timeouts, 0 for no entry
    aa,             \* the answer being processed, or none
    recentlyAdded, recentlyDead,    \* this node's news
    local,          \* the lists of local chunks taken and not given to the group
    changes, losses

env    == <<up, has, tells, buries, local, changes>>
group  == vars
news   == <<recentlyAdded, recentlyDead>>
hbvars == <<servers, dead, heldChunks, holders, env, stack, timeouts, aa, news, losses>>

Other  == Server \ {me}
Lister == {"repair", "release"}

-----------------------------------------------------------------------------
(* AmAlive on the wire: the lists of addresses follow each other, each     *)
(* ended by an address of length 0.  Their order plays no part.            *)

Marshal(s) == [KnownChunks |-> has[s], added |-> tells[s], dead |-> buries[s]]

\* The loop that reads the added servers leaves the 0 that ends them where it is,
\* and the loop for the dead servers finds it first.  A mutant reads on behind it
UnMarshalAll(m) ==
    [KnownChunks |-> m.KnownChunks, added |-> m.added, dead |-> m.dead]

UnMarshal(m) ==
    [KnownChunks |-> m.KnownChunks, added |-> m.added, dead |-> {}]

-----------------------------------------------------------------------------
(* This node's news, which ListenReply gives to who asks.  What is older   *)
(* than GossipNewsExpirationTime is removed before news are told.          *)

GossipAdded(s) == recentlyAdded' = recentlyAdded \cup {s} /\ UNCHANGED recentlyDead
GossipDead(s)  == recentlyDead' = recentlyDead \cup {s} /\ UNCHANGED recentlyAdded

cleanNews(s) ==
    /\ s \in recentlyAdded \cup recentlyDead
    /\ \/ recentlyAdded' = recentlyAdded \ {s} /\ UNCHANGED recentlyDead
       \/ recentlyDead' = recentlyDead \ {s} /\ UNCHANGED recentlyAdded
    /\ UNCHANGED <<group, env, stack, timeouts, aa, losses>>

-----------------------------------------------------------------------------
(* request                                                                 *)

Top == Head(stack)

\* A mutant leaves the servers out that are dead
RoundAlive(s) ==
    /\ stack = <<>> /\ s \in servers \ {me} /\ ~dead[s]
    /\ stack' = <<[addr |-> s, why |-> "none"]>>
    /\ UNCHANGED <<group, env, timeouts, aa, news, losses>>

\* The loop of Start comes to a server of the group
Round(s) ==
    /\ stack = <<>> /\ s \in servers \ {me}
    /\ stack' = <<[addr |-> s, why |-> "none"]>>
    /\ UNCHANGED <<group, env, timeouts, aa, news, losses>>

\* News that the group does not contradict (any more), or of this node
Known(e) == \/ e.addr = me
            \/ e.why = "added" /\ e.addr \in servers
            \/ e.why = "dead" /\ e.addr \notin servers

Skips ==
    /\ stack # <<>> /\ aa = none /\ Known(Top)
    /\ stack' = Tail(stack)
    /\ UNCHANGED <<group, env, timeouts, aa, news, losses>>

Asking(s) == stack # <<>> /\ aa = none /\ ~Known(Top) /\ Top.addr = s

\* The activation goes on asking, so its check is behind it
Again == <<[Top EXCEPT !.why = "none"]>> \o Tail(stack)

TooMany(s) == timeouts[s] + 1 >= timeoutRetries

\* UDPRequest fails: the server is down, or a packet is lost
Fails(s) ==
    /\ Asking(s)
    /\ \/ s \notin up /\ UNCHANGED losses
       \/ s \in up /\ losses < MaxLosses /\ losses' = losses + 1
    /\ \/ /\ s \notin servers
          /\ timeouts' = [timeouts EXCEPT ![s] = 0]
          /\ stack' = Tail(stack) /\ UNCHANGED <<group, news>>
       \/ /\ s \in servers /\ ~TooMany(s)
          /\ timeouts' = [timeouts EXCEPT ![s] = @ + 1]
          /\ stack' = Again /\ UNCHANGED <<group, news>>
       \/ /\ s \in servers /\ TooMany(s)
          /\ timeouts' = [timeouts EXCEPT ![s] = 0]
          /\ stack' = Tail(stack) /\ DeadServer(s) /\ GossipDead(s)
    /\ UNCHANGED <<env, aa>>

\* UDPRequest returns what the server answered.  A mutant keeps the count
AnswersOnly(s) ==
    /\ Asking(s) /\ s \in up
    /\ aa' = UnMarshal(Marshal(s))
    /\ stack' = Again
    /\ UNCHANGED <<group, env, timeouts, news, losses>>

Answers(s) ==
    /\ Asking(s) /\ s \in up
    /\ aa' = UnMarshal(Marshal(s))
    /\ timeouts' = [timeouts EXCEPT ![s] = 0]
    /\ stack' = Again
    /\ UNCHANGED <<group, env, news, losses>>

\* A server that answers is added if it is not in the group (by now)
Adds(s) ==
    /\ aa # none /\ Top.addr = s
    /\ AddServerToGroup(s) /\ GossipAdded(s)
    /\ UNCHANGED <<env, stack, timeouts, aa, losses>>

\* Its chunks are listed, and its news are to be looked at: first those of added
\* servers
Orders(S, why) ==
    {f \in [1 .. Cardinality(S) -> [addr : S, why : {why}]] :
        \A s \in S : \E i \in DOMAIN f : f[i].addr = s}

Processes(s) ==
    /\ aa # none /\ Top.addr = s
    /\ SetServerChunks(s, aa.KnownChunks)
    /\ \E added \in Orders(aa.added, "added"), buried \in Orders(aa.dead, "dead") :
          stack' = added \o buried \o Tail(stack)
    /\ aa' = none
    /\ UNCHANGED <<env, timeouts, news, losses>>

-----------------------------------------------------------------------------
(* The other goroutines of the node, and the other servers                 *)

\* OpAddServerToGroup: the address is news even if it was known
OpAddServerToGroup(s) ==
    /\ changes < MaxChanges /\ changes' = changes + 1
    /\ AddServerToGroup(s) \/ (s \in servers /\ UNCHANGED group)
    /\ GossipAdded(s)
    /\ UNCHANGED <<up, has, tells, buries, local, stack, timeouts, aa, losses>>

\* The loop of StartRepairSystem: lh.PresentChunksList()
Lists ==
    /\ local["repair"] = none
    /\ local' = [local EXCEPT !["repair"] = has[me]]
    /\ UNCHANGED <<group, up, has, tells, buries, changes, stack, timeouts, aa, news, losses>>

\* The releaser makes a chunk absent and takes the list
Releases ==
    /\ changes < MaxChanges /\ changes' = changes + 1
    /\ local["release"] = none
    /\ \E c \in Chunk : has[me][c] # none /\ has' = [has EXCEPT ![me][c] = none]
    /\ local' = [local EXCEPT !["release"] = has'[me]]
    /\ UNCHANGED <<group, up, tells, buries, stack, timeouts, aa, news, losses>>

\* The list, out of date by now maybe, is given to the group
SetsLocal(g) ==
    /\ local[g] # none
    /\ SetServerChunks(me, local[g])
    /\ local' = [local EXCEPT ![g] = none]
    /\ UNCHANGED <<up, has, tells, buries, changes, stack, timeouts, aa, news, losses>>

\* A server gets, changes or releases chunks, this node too; another one stops or
\* starts, or has other news
Changes(s) ==
    /\ changes < MaxChanges /\ changes' = changes + 1
    /\ \/ /\ \E cids \in ChunkList : has' = [has EXCEPT ![s] = cids]
          /\ UNCHANGED <<up, tells, buries>>
       \/ /\ s # me
          /\ up' = IF s \in up THEN up \ {s} ELSE up \cup {s}
          /\ UNCHANGED <<has, tells, buries>>
       \/ /\ s # me
          /\ \E r \in Other \ {s} : tells' = [tells EXCEPT ![s] = {r}]
          /\ UNCHANGED <<up, has, buries>>
       \/ /\ s # me
          /\ \E r \in Other \ {s} : buries' = [buries EXCEPT ![s] = {r}]
          /\ UNCHANGED <<up, has, tells>>
    /\ UNCHANGED <<group, local, stack, timeouts, aa, news, losses>>

HBInit ==
    /\ Init /\ me \in servers
    /\ up = Server /\ has = [s \in Server |-> [c \in Chunk |-> CHOOSE x \in Checksum : TRUE]]
    /\ tells = [s \in Server |-> {}] /\ buries = [s \in Server |-> {}]
    /\ stack = <<>> /\ timeouts = [s \in Server |-> 0] /\ aa = none
    /\ recentlyAdded = {} /\ recentlyDead = {} /\ local = [g \in Lister |-> none]
    /\ changes = 0 /\ losses = 0

HBNext ==
    \/ Skips \/ Lists \/ Releases \/ (\E g \in Lister : SetsLocal(g))
    \/ \E s \in Server :
          \/ Round(s) \/ Fails(s) \/ Answers(s) \/ Adds(s) \/ Processes(s)
          \/ cleanNews(s) \/ OpAddServerToGroup(s) \/ Changes(s)

HBSpec == HBInit /\ [][HBNext]_hbvars

\* The heartbeater goes on and its loop comes to every server of the group; a
\* server in service answers, but for MaxLosses times; the repair loop goes on and
\* lists are given to the group
HBFairness ==
    /\ WF_hbvars(Skips) /\ WF_hbvars(Lists) /\ \A g \in Lister : WF_hbvars(SetsLocal(g))
    /\ \A s \in Server : /\ SF_hbvars(Round(s)) /\ WF_hbvars(Answers(s) \/ Fails(s))
                         /\ WF_hbvars(Adds(s) \/ Processes(s))

HBFairSpec == HBSpec /\ HBFairness

-----------------------------------------------------------------------------
(* Properties                                                              *)

HBTypeOK ==
    /\ TypeOK
    /\ up \subseteq Server /\ has \in [Server -> ChunkList]
    /\ tells \in [Server -> SUBSET Server] /\ buries \in [Server -> SUBSET Server]
    /\ stack \in Seq([addr : Server, why : {"none", "added", "dead"}])
    /\ aa \in [KnownChunks : ChunkList, added : SUBSET Server, dead : SUBSET Server] \cup {none}
    /\ aa # none => stack # <<>>
    /\ timeouts \in [Server -> 0 .. (timeoutRetries - 1)]
    /\ recentlyAdded \subseteq Server /\ recentlyDead \subseteq Server
    /\ local \in [Lister -> ChunkList \cup {none}]
    /\ changes \in 0 .. MaxChanges /\ losses \in 0 .. MaxLosses

\* Failures are counted within one request only: a count left behind by an
\* earlier one, or by an activation around it, would have a server declared dead
\* after fewer failures than three
CountIsCurrent ==
    \A s \in Server : timeouts[s] > 0 => stack # <<>> /\ Top.addr = s /\ aa = none

\* The recursion of request ends, whatever the servers tell of each other
RequestEnds == []<>(stack = <<>>)

\* What the group has is true: who is in service is listed with its chunks, this
\* node included, who is not is dead, and who a server in service tells of and is
\* in service itself is in the group
Accurate ==
    /\ heldChunks[me] = has[me]
    /\ \A s \in servers \ {me} :
          IF s \in up THEN /\ ~dead[s] /\ heldChunks[s] = has[s]
                           /\ tells[s] \cap up \subseteq servers
                      ELSE dead[s] /\ heldChunks[s] = NoChunks

\* Once the servers do not change any more and no more packets are lost, the group
\* comes to be accurate and stays so, although answers and lists are out of date
\* when they are given to the group, in another order than they were taken
ViewConverges == <>[]Accurate
=============================================================================
