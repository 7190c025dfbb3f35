------------------------------ MODULE Maekawa ------------------------------
(***************************************************************************)
(* src/mutex/maekawa.py over the connections of src/network.               *)
(*                                                                         *)
(* A site runs one client thread, which calls request_cs and release_cs in *)
(* turn, and one receiver thread per connection.  Messages are sent under  *)
(* self._lock, or right after it, and a connection keeps their order.  All *)
(* sites are up.  A vote is for a site, whatever the resource, so there is *)
(* one resource here.                                                      *)
(*                                                                         *)
(* request_ts is a Lamport time: higher than any the site has seen.        *)
(***************************************************************************)
EXTENDS Naturals, Sequences, FiniteSets

CONSTANTS Site,           \* config.NODES
          Quorum,         \* QUORUMS
          NoSite,         \* None, of _voted_for
          MaxTs,          \* bound: times given to requests
          MaxCalls,    \* bound: requests made
          Impatient,      \* sites whose client may time out waiting
          Overtaken       \* sites at which an INQUIRE may be handled between
                          \* the end of the waiting and _in_cs = True

ASSUME MaekawaAssumption ==
  /\ Site \subseteq Nat
  /\ IsFiniteSet(Site)
  /\ NoSite \notin Site
  /\ Quorum \in [Site -> SUBSET Site]
  /\ \A i, j \in Site : Quorum[i] \cap Quorum[j] # {}
  /\ Impatient \subseteq Site /\ Overtaken \subseteq Site
  /\ MaxCalls \in Nat

VARIABLES
  votedFor, votedTs,    \* _voted_for, _voted_ts
  inquireSent,          \* _inquire_sent
  requestQueue,         \* _request_queue, which is kept sorted
  votesHeld,            \* _votes_held
  allVotes,             \* _cs_event
  inCs,                 \* _in_cs
  at,                   \* where the client thread is
  seenTs,               \* the highest request time a site knows of
  mNet,                 \* mNet[i][j]: what is on the connection from i to j
  gaveUp,               \* history: sites that have timed out
  requests              \* history: how often a request was made

voting == <<votedFor, votedTs, inquireSent, requestQueue>>
asking == <<votesHeld, allVotes, inCs, at>>
history == <<gaveUp, requests>>
maekawaVars == <<voting, asking, seenTs, mNet, history>>

Entry == [ts : Nat, site : Site]

MaekawaMessage ==
  [type : {"REQUEST", "LOCKED", "FAILED", "INQUIRE", "RELINQUISH", "RELEASE"}, ts : Nat]

MaekawaTypeOK ==
  /\ votedFor \in [Site -> Site \cup {NoSite}]
  /\ votedTs \in [Site -> Nat]
  /\ inquireSent \in [Site -> BOOLEAN]
  /\ requestQueue \in [Site -> SUBSET Entry]
  /\ votesHeld \in [Site -> SUBSET Site]
  /\ allVotes \in [Site -> BOOLEAN]
  /\ inCs \in [Site -> BOOLEAN]
  /\ at \in [Site -> {"idle", "wait", "woken", "cs"}]
  /\ seenTs \in [Site -> Nat]
  /\ mNet \in [Site -> [Site -> Seq(MaekawaMessage)]]
  /\ gaveUp \subseteq Site
  /\ requests \in 0 .. MaxCalls

MaekawaInit ==
  /\ votedFor = [v \in Site |-> NoSite]
  /\ votedTs = [v \in Site |-> 0]
  /\ inquireSent = [v \in Site |-> FALSE]
  /\ requestQueue = [v \in Site |-> {}]
  /\ votesHeld = [i \in Site |-> {}]
  /\ allVotes = [i \in Site |-> FALSE]
  /\ inCs = [i \in Site |-> FALSE]
  /\ at = [i \in Site |-> "idle"]
  /\ seenTs = [i \in Site |-> 0]
  /\ mNet = [i \in Site |-> [j \in Site |-> << >>]]
  /\ gaveUp = {}
  /\ requests = 0

-----------------------------------------------------------------------------

Message(type, ts) == [type |-> type, ts |-> ts]

\* The connections after site i has sent the message to the targets.
MSending(links, i, targets, type, ts) ==
  [links EXCEPT ![i] =
     [j \in Site |-> IF j \in targets THEN Append(@[j], Message(type, ts)) ELSE @[j]]]

MTaking(i, from) == [mNet EXCEPT ![from][i] = Tail(@)]

MArriving(i, from) == IF mNet[from][i] = << >> THEN {} ELSE {Head(mNet[from][i])}

-----------------------------------------------------------------------------
(* The client thread.                                                      *)

RequestVotes(i, ts) ==
  /\ at[i] = "idle" /\ requests < MaxCalls
  /\ requests' = requests + 1
  /\ ts > seenTs[i]
  /\ seenTs' = [seenTs EXCEPT ![i] = ts]
  /\ votesHeld' = [votesHeld EXCEPT ![i] = {}]
  /\ inCs' = [inCs EXCEPT ![i] = FALSE]
  /\ allVotes' = [allVotes EXCEPT ![i] = FALSE]
  /\ at' = [at EXCEPT ![i] = "wait"]
  /\ mNet' = MSending(mNet, i, Quorum[i], "REQUEST", ts)
  /\ UNCHANGED <<voting, gaveUp>>

\* The client finds the event set, or has been notified.  It goes on whatever
\* becomes of the event before it has taken the lock.
Wake(i) ==
  /\ at[i] = "wait" /\ allVotes[i]
  /\ at' = [at EXCEPT ![i] = "woken"]
  /\ UNCHANGED <<voting, votesHeld, allVotes, inCs, seenTs, mNet, history>>

EnterCs(i) ==
  /\ at[i] = "woken"
  /\ at' = [at EXCEPT ![i] = "cs"]
  /\ inCs' = [inCs EXCEPT ![i] = TRUE]
  /\ UNCHANGED <<voting, votesHeld, allVotes, seenTs, mNet, history>>

\* Votes are not given back.
GiveUp(i) ==
  /\ i \in Impatient
  /\ at[i] = "wait" /\ ~ allVotes[i]
  /\ at' = [at EXCEPT ![i] = "idle"]
  /\ gaveUp' = gaveUp \cup {i}
  /\ UNCHANGED <<voting, votesHeld, allVotes, inCs, seenTs, mNet, requests>>

ReleaseVotes(i) ==
  /\ at[i] = "cs"
  /\ at' = [at EXCEPT ![i] = "idle"]
  /\ inCs' = [inCs EXCEPT ![i] = FALSE]
  /\ votesHeld' = [votesHeld EXCEPT ![i] = {}]
  /\ mNet' = MSending(mNet, i, Quorum[i], "RELEASE", 0)
  /\ UNCHANGED <<voting, allVotes, seenTs, history>>

-----------------------------------------------------------------------------
(* The voter.                                                              *)

GoesFirst(a, b) == a.ts < b.ts \/ (a.ts = b.ts /\ a.site < b.site)

Voted(v) == [ts |-> votedTs[v], site |-> votedFor[v]]

\* Mutant: times alone decide.
CallsBackByTime(v, entry) == ~ inquireSent[v] /\ entry.ts < votedTs[v]

\* The vote of v is called back in favour of entry.
CallsBack(v, entry) == ~ inquireSent[v] /\ GoesFirst(entry, Voted(v))

\* The vote of v goes to entry, the queue is what is left.
GrantVote(v, entry, queue, links) ==
  /\ votedFor' = [votedFor EXCEPT ![v] = entry.site]
  /\ votedTs' = [votedTs EXCEPT ![v] = entry.ts]
  /\ inquireSent' = [inquireSent EXCEPT ![v] = FALSE]
  /\ requestQueue' = [requestQueue EXCEPT ![v] = queue]
  /\ mNet' = MSending(links, v, {entry.site}, "LOCKED", 0)

GrantFirst(v, queue, links) ==
  \E first \in queue :
    /\ \A other \in queue \ {first} : GoesFirst(first, other)
    /\ GrantVote(v, first, queue \ {first}, links)

HandleVoteRequest(v, i, msg) ==
  LET entry == [ts |-> msg.ts, site |-> i] IN
  /\ msg.type = "REQUEST"
  /\ seenTs' = [seenTs EXCEPT ![v] = IF msg.ts > @ THEN msg.ts ELSE @]
  /\ \/ /\ votedFor[v] = NoSite
        /\ GrantVote(v, entry, requestQueue[v], MTaking(v, i))
     \/ /\ votedFor[v] # NoSite
        /\ requestQueue' = [requestQueue EXCEPT ![v] = @ \cup {entry}]
        /\ IF CallsBack(v, entry)
           THEN /\ inquireSent' = [inquireSent EXCEPT ![v] = TRUE]
                /\ mNet' = MSending(MTaking(v, i), v, {votedFor[v]}, "INQUIRE", 0)
           ELSE /\ mNet' = MSending(MTaking(v, i), v, {i}, "FAILED", 0)
                /\ UNCHANGED inquireSent
        /\ UNCHANGED <<votedFor, votedTs>>
  /\ UNCHANGED <<asking, history>>

VoteFree(v, links) ==
  /\ votedFor' = [votedFor EXCEPT ![v] = NoSite]
  /\ votedTs' = [votedTs EXCEPT ![v] = 0]
  /\ inquireSent' = [inquireSent EXCEPT ![v] = FALSE]
  /\ mNet' = links
  /\ UNCHANGED requestQueue

\* Whoever sends it, the vote is taken to be the sender's.
HandleRelinquish(v, i, msg) ==
  LET back == IF votedFor[v] = NoSite THEN {} ELSE {Voted(v)}
      queue == requestQueue[v] \cup back
  IN
  /\ msg.type = "RELINQUISH"
  /\ IF queue = {} THEN VoteFree(v, MTaking(v, i)) ELSE GrantFirst(v, queue, MTaking(v, i))
  /\ UNCHANGED <<asking, seenTs, history>>

HandleRelease(v, i, msg) ==
  /\ msg.type = "RELEASE"
  /\ IF requestQueue[v] = {} THEN VoteFree(v, MTaking(v, i))
     ELSE GrantFirst(v, requestQueue[v], MTaking(v, i))
  /\ UNCHANGED <<asking, seenTs, history>>

-----------------------------------------------------------------------------
(* The site that asks.                                                     *)

\* Mutant: two votes of three are taken for all.
EnoughAlmost(i, votes) == Cardinality(votes) + 1 >= Cardinality(Quorum[i])

Enough(i, votes) == Cardinality(votes) >= Cardinality(Quorum[i])

HandleLocked(i, v, msg) ==
  /\ msg.type = "LOCKED"
  /\ votesHeld' = [votesHeld EXCEPT ![i] = @ \cup {v}]
  /\ allVotes' = [allVotes EXCEPT ![i] = @ \/ Enough(i, votesHeld[i] \cup {v})]
  /\ mNet' = MTaking(i, v)
  /\ UNCHANGED <<voting, inCs, at, seenTs, history>>

HandleFailed(i, v, msg) ==
  /\ msg.type = "FAILED"
  /\ mNet' = MTaking(i, v)
  /\ UNCHANGED <<voting, asking, seenTs, history>>

\* Mutant: a site that is in gives the vote back as well.
KeepsNever(i, v) == v \notin votesHeld[i]

Keeps(i, v) == inCs[i] \/ v \notin votesHeld[i]

HandleInquire(i, v, msg) ==
  /\ msg.type = "INQUIRE"
  /\ at[i] = "woken" => i \in Overtaken
  /\ \/ /\ Keeps(i, v)
        /\ mNet' = MTaking(i, v)
        /\ UNCHANGED <<votesHeld, allVotes>>
     \/ /\ ~ Keeps(i, v)
        /\ votesHeld' = [votesHeld EXCEPT ![i] = @ \ {v}]
        /\ allVotes' = [allVotes EXCEPT ![i] = FALSE]
        /\ mNet' = MSending(MTaking(i, v), i, {v}, "RELINQUISH", 0)
  /\ UNCHANGED <<voting, inCs, at, seenTs, history>>

-----------------------------------------------------------------------------

MReceiver(i) ==
  \E j \in Site : \E msg \in MArriving(i, j) :
    \/ HandleVoteRequest(i, j, msg) \/ HandleRelinquish(i, j, msg)
    \/ HandleRelease(i, j, msg) \/ HandleLocked(i, j, msg)
    \/ HandleFailed(i, j, msg) \/ HandleInquire(i, j, msg)

MClient(i) == Wake(i) \/ EnterCs(i) \/ ReleaseVotes(i)

MaekawaNext ==
  \E i \in Site :
    \/ MReceiver(i) \/ MClient(i) \/ GiveUp(i)
    \/ \E ts \in 1 .. MaxTs : RequestVotes(i, ts)

\* As long as some thread can run some thread does; see RicartAgrawala.
MThreads == \E i \in Site : MReceiver(i) \/ MClient(i)

MaekawaSpec ==
  MaekawaInit /\ [][MaekawaNext]_maekawaVars /\ WF_maekawaVars(MThreads)

-----------------------------------------------------------------------------
(* What the algorithm is for.                                              *)

\* Two sites are never in at once, although votes wander between requests,
\* clients time out and come back, and answers to old requests arrive late.
OneSiteIn == \A i, j \in Site : inCs[i] /\ inCs[j] => i = j

\* A site holds only votes that are cast for it: no vote is counted by two,
\* not even while RELINQUISH and RELEASE, which do not name the request they
\* are about, are under way.
VotesAreReal == \A i \in Site : \A v \in votesHeld[i] : votedFor[v] = i

\* As long as nobody gives up everybody who asks gets in: votes that are
\* called back in time order leave no circle of sites that wait for each
\* other.  Requests are bounded, so it is enough that nobody waits in the end.
EverySiteGetsIn == <>[](gaveUp # {} \/ \A i \in Site : at[i] = "idle")

=============================================================================
