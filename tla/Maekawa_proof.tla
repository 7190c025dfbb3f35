---------------------------- MODULE Maekawa_proof ----------------------------
(***************************************************************************)
(* Votes and mutual exclusion of Maekawa, for any number of sites, any     *)
(* quorums that meet, and clients that give up, as long as no INQUIRE is   *)
(* handled between the end of the waiting and _in_cs = True.               *)
(***************************************************************************)
EXTENDS Maekawa, FiniteSetTheorems, TLAPS

Carries(links, a, b, types) ==
  \E k \in DOMAIN links[a][b] : links[a][b][k].type \in types

CarriesOne(links, a, b, types) ==
  \A k, l \in DOMAIN links[a][b] :
    links[a][b][k].type \in types /\ links[a][b][l].type \in types => k = l

Granted(links, i, v) == Carries(links, v, i, {"LOCKED"})

GivenBack(links, i, v) == Carries(links, i, v, {"RELINQUISH", "RELEASE"})

\* The vote of v that i was granted is on the way to i, with i, or on the way
\* back; it is there once, and v has not given it to anybody else.
VotesSound(links) ==
  \A i, v \in Site :
    /\ Granted(links, i, v) \/ v \in votesHeld[i] \/ GivenBack(links, i, v) => votedFor[v] = i
    /\ v \in votesHeld[i] => ~ Granted(links, i, v) /\ ~ GivenBack(links, i, v)
    /\ ~ (Granted(links, i, v) /\ GivenBack(links, i, v))
    /\ CarriesOne(links, v, i, {"LOCKED"})
    /\ CarriesOne(links, i, v, {"RELINQUISH", "RELEASE"})

\* Votes are asked of the quorum only, and so only they are given.
AskedSound(links) ==
  \A i, v \in Site :
    /\ Carries(links, i, v, {"REQUEST"}) => v \in Quorum[i]
    /\ \A entry \in requestQueue[v] : entry.site = i => v \in Quorum[i]
    /\ votedFor[v] = i => v \in Quorum[i]

\* A client that goes on, or is about to, has all votes.
ClientInv ==
  \A i \in Site :
    /\ inCs[i] <=> at[i] = "cs"
    /\ at[i] \in {"woken", "cs"} \/ (at[i] = "wait" /\ allVotes[i]) => votesHeld[i] = Quorum[i]

VotesInv == MaekawaTypeOK /\ VotesSound(mNet) /\ AskedSound(mNet) /\ ClientInv

-----------------------------------------------------------------------------
(* Connections.                                                            *)

MessageType == {"REQUEST", "LOCKED", "FAILED", "INQUIRE", "RELINQUISH", "RELEASE"}

Links == [Site -> [Site -> Seq(MaekawaMessage)]]

LEMMA SendingLinks ==
  ASSUME NEW links \in Links, NEW i \in Site, NEW targets, NEW type \in MessageType,
         NEW ts \in Nat
  PROVE  /\ MSending(links, i, targets, type, ts) \in Links
         /\ \A a, b \in Site :
              MSending(links, i, targets, type, ts)[a][b] =
                (IF a = i /\ b \in targets
                 THEN Append(links[a][b], Message(type, ts)) ELSE links[a][b])
<1>1. Message(type, ts) \in MaekawaMessage
  BY DEF Message, MaekawaMessage, MessageType
<1>. QED BY <1>1 DEF Links, MSending

LEMMA SendingTyped ==
  \A links \in Links : \A i \in Site : \A targets :
    \A type \in MessageType : \A ts \in Nat : MSending(links, i, targets, type, ts) \in Links
BY SendingLinks

LEMMA Appended ==
  ASSUME NEW S, NEW s \in Seq(S), NEW e \in S
  PROVE  /\ DOMAIN Append(s, e) = DOMAIN s \cup {Len(s) + 1} /\ Len(s) + 1 \notin DOMAIN s
         /\ \A k \in DOMAIN s : Append(s, e)[k] = s[k]
         /\ Append(s, e)[Len(s) + 1] = e
OBVIOUS

LEMMA SendingCarries ==
  ASSUME NEW links \in Links, NEW i \in Site, NEW targets, NEW type \in MessageType,
         NEW ts \in Nat, NEW a \in Site, NEW b \in Site, NEW types
  PROVE  LET after == MSending(links, i, targets, type, ts)
             sent == a = i /\ b \in targets /\ type \in types
         IN /\ Carries(after, a, b, types) <=> Carries(links, a, b, types) \/ sent
            /\ CarriesOne(links, a, b, types) /\ ~ (sent /\ Carries(links, a, b, types))
                 => CarriesOne(after, a, b, types)
<1>. DEFINE after == MSending(links, i, targets, type, ts)
            s == links[a][b]
            msg == Message(type, ts)
<1>1. msg \in MaekawaMessage /\ msg.type = type /\ s \in Seq(MaekawaMessage)
  BY DEF Message, MaekawaMessage, MessageType, Links
<1>2. after[a][b] = IF a = i /\ b \in targets THEN Append(s, msg) ELSE s
  BY SendingLinks
<1>3. CASE a = i /\ b \in targets
  <2>1. /\ DOMAIN after[a][b] = DOMAIN s \cup {Len(s) + 1} /\ Len(s) + 1 \notin DOMAIN s
        /\ \A k \in DOMAIN s : after[a][b][k] = s[k]
        /\ after[a][b][Len(s) + 1].type = type
    BY <1>1, <1>2, <1>3, Appended
  <2>. HIDE DEF after, s, msg
  <2>2. Carries(after, a, b, types) <=> Carries(links, a, b, types) \/ type \in types
    BY <2>1 DEF Carries, s
  <2>3. CarriesOne(links, a, b, types) /\ ~ (type \in types /\ Carries(links, a, b, types))
          => CarriesOne(after, a, b, types)
    BY <2>1 DEF Carries, CarriesOne, s
  <2>. QED BY <1>3, <2>2, <2>3 DEF after
<1>4. CASE ~ (a = i /\ b \in targets)
  BY <1>2, <1>4 DEF Carries, CarriesOne
<1>. QED BY <1>3, <1>4

LEMMA TakingLinks ==
  ASSUME mNet \in Links, NEW i \in Site, NEW from \in Site, NEW msg \in MArriving(i, from)
  PROVE  /\ msg \in MaekawaMessage
         /\ MTaking(i, from) \in Links
         /\ \A a, b \in Site : ~ (a = from /\ b = i) => MTaking(i, from)[a][b] = mNet[a][b]
         /\ DOMAIN MTaking(i, from)[from][i] = 1 .. Len(mNet[from][i]) - 1
         /\ \A k \in DOMAIN MTaking(i, from)[from][i] :
              MTaking(i, from)[from][i][k] = mNet[from][i][k + 1]
         /\ DOMAIN mNet[from][i] = 1 .. Len(mNet[from][i]) /\ Len(mNet[from][i]) \in Nat \ {0}
         /\ mNet[from][i][1] = msg
<1>1. mNet[from][i] # << >> /\ msg = Head(mNet[from][i]) /\ mNet[from][i] \in Seq(MaekawaMessage)
  BY DEF MArriving, Links
<1>2. Tail(mNet[from][i]) \in Seq(MaekawaMessage)
  BY <1>1
<1>3. MTaking(i, from) = [mNet EXCEPT ![from][i] = Tail(mNet[from][i])]
  BY DEF MTaking
<1>4. /\ MTaking(i, from) \in Links
      /\ \A a, b \in Site : ~ (a = from /\ b = i) => MTaking(i, from)[a][b] = mNet[a][b]
      /\ MTaking(i, from)[from][i] = Tail(mNet[from][i])
  BY <1>2, <1>3 DEF Links
<1>. QED BY <1>1, <1>4

LEMMA TakingCarries ==
  ASSUME mNet \in Links, NEW i \in Site, NEW from \in Site, NEW msg \in MArriving(i, from),
         NEW a \in Site, NEW b \in Site, NEW types
  PROVE  LET after == MTaking(i, from)
         IN /\ Carries(after, a, b, types) => Carries(mNet, a, b, types)
            /\ CarriesOne(mNet, a, b, types) => CarriesOne(after, a, b, types)
            /\ a = from /\ b = i /\ msg.type \in types =>
                 /\ Carries(mNet, a, b, types)
                 /\ CarriesOne(mNet, a, b, types) => ~ Carries(after, a, b, types)
<1>. DEFINE after == MTaking(i, from)
<1>1. CASE a = from /\ b = i
  <2>. DEFINE n == Len(mNet[a][b])
  <2>1. /\ n \in Nat \ {0} /\ DOMAIN mNet[a][b] = 1 .. n /\ mNet[a][b][1] = msg
        /\ DOMAIN after[a][b] = 1 .. n - 1
        /\ \A k \in 1 .. n - 1 : after[a][b][k] = mNet[a][b][k + 1]
    BY <1>1, TakingLinks
  <2>2. \A k \in 1 .. n - 1 : k + 1 \in 1 .. n /\ k + 1 # 1
    BY <2>1
  <2>3. 1 \in 1 .. n
    BY <2>1
  <2>. HIDE DEF n, after
  <2>4. Carries(after, a, b, types) => Carries(mNet, a, b, types)
    BY <2>1, <2>2 DEF Carries
  <2>5. CarriesOne(mNet, a, b, types) => CarriesOne(after, a, b, types)
    <3>. SUFFICES ASSUME CarriesOne(mNet, a, b, types),
                         NEW k \in DOMAIN after[a][b], NEW l \in DOMAIN after[a][b],
                         after[a][b][k].type \in types, after[a][b][l].type \in types
                  PROVE  k = l
      BY DEF CarriesOne
    <3>1. k + 1 = l + 1
      BY <2>1, <2>2 DEF CarriesOne
    <3>. QED BY <2>1, <3>1
  <2>6. msg.type \in types => Carries(mNet, a, b, types)
    BY <2>1, <2>3 DEF Carries
  <2>7. msg.type \in types /\ CarriesOne(mNet, a, b, types) => ~ Carries(after, a, b, types)
    BY <2>1, <2>2, <2>3 DEF Carries, CarriesOne
  <2>. QED BY <1>1, <2>4, <2>5, <2>6, <2>7 DEF after
<1>2. CASE ~ (a = from /\ b = i)
  <2>1. after[a][b] = mNet[a][b]
    BY <1>2, TakingLinks
  <2>. QED BY <1>2, <2>1 DEF Carries, CarriesOne
<1>. QED BY <1>1, <1>2

-----------------------------------------------------------------------------
(* What a step does to the votes, by the connections before anything is    *)
(* sent and after.                                                         *)

\* The vote of v is with nobody.
Vacant(links, v) ==
  \A j \in Site : ~ Granted(links, j, v) /\ v \notin votesHeld[j] /\ ~ GivenBack(links, j, v)

LEMMA LinksTyped == MaekawaTypeOK => mNet \in Links
BY DEF MaekawaTypeOK, Links

LEMMA TakingKeeps ==
  ASSUME VotesInv, NEW i \in Site, NEW from \in Site, NEW msg \in MArriving(i, from)
  PROVE  /\ VotesSound(MTaking(i, from)) /\ AskedSound(MTaking(i, from))
         /\ MTaking(i, from) \in Links /\ msg \in MaekawaMessage
<1>1. mNet \in Links
  BY LinksTyped DEF VotesInv
<1>. DEFINE after == MTaking(i, from)
<1>2. after \in Links /\ msg \in MaekawaMessage
  BY <1>1, TakingLinks
<1>3. \A a, b \in Site : \A types :
        /\ Carries(after, a, b, types) => Carries(mNet, a, b, types)
        /\ CarriesOne(mNet, a, b, types) => CarriesOne(after, a, b, types)
  BY <1>1, TakingCarries
<1>. HIDE DEF after
<1>4. VotesSound(after)
  BY <1>3 DEF VotesInv, VotesSound, Granted, GivenBack
<1>5. AskedSound(after)
  BY <1>3 DEF VotesInv, AskedSound
<1>. QED BY <1>2, <1>4, <1>5 DEF after

\* A vote that comes back is then with nobody.
LEMMA TakingBack ==
  ASSUME VotesInv, NEW v \in Site, NEW i \in Site, NEW msg \in MArriving(v, i),
         msg.type \in {"RELINQUISH", "RELEASE"}
  PROVE  votedFor[v] = i /\ Vacant(MTaking(v, i), v)
<1>1. mNet \in Links
  BY LinksTyped DEF VotesInv
<1>. DEFINE after == MTaking(v, i)
<1>2. GivenBack(mNet, i, v) /\ ~ GivenBack(after, i, v)
  BY <1>1, TakingCarries DEF VotesInv, VotesSound, GivenBack
<1>3. votedFor[v] = i /\ v \notin votesHeld[i] /\ ~ Granted(mNet, i, v)
  BY <1>2 DEF VotesInv, VotesSound
<1>4. \A j \in Site : j # i =>
        ~ Granted(mNet, j, v) /\ v \notin votesHeld[j] /\ ~ GivenBack(mNet, j, v)
  BY <1>3 DEF VotesInv, VotesSound
<1>5. \A j \in Site : /\ Granted(after, j, v) => Granted(mNet, j, v)
                      /\ GivenBack(after, j, v) => GivenBack(mNet, j, v)
  BY <1>1, TakingCarries DEF Granted, GivenBack
<1>. QED BY <1>2, <1>3, <1>4, <1>5 DEF Vacant

\* Messages that carry no vote.
LEMMA SendingKeepsVotes ==
  ASSUME NEW links \in Links, VotesSound(links), NEW i \in Site, NEW targets,
         NEW type \in {"REQUEST", "FAILED", "INQUIRE"}, NEW ts \in Nat,
         mNet' = MSending(links, i, targets, type, ts),
         votesHeld' = votesHeld, votedFor' = votedFor
  PROVE  VotesSound(mNet)'
<1>1. \A a, b \in Site : \A types :
        type \notin types =>
          /\ Carries(mNet', a, b, types) <=> Carries(links, a, b, types)
          /\ CarriesOne(links, a, b, types) => CarriesOne(mNet', a, b, types)
  <2>1. type \in MessageType
    BY DEF MessageType
  <2>. QED BY <2>1, SendingCarries
<1>2. type \notin {"LOCKED"} /\ type \notin {"RELINQUISH", "RELEASE"}
  OBVIOUS
<1>. QED BY <1>1, <1>2 DEF VotesSound, Granted, GivenBack

\* A vote that is with nobody is given to somebody.
LEMMA GrantKeepsVotes ==
  ASSUME NEW links \in Links, VotesSound(links), NEW v \in Site, Vacant(links, v),
         NEW entry \in Entry, NEW queue, GrantVote(v, entry, queue, links),
         votedFor \in [Site -> Site \cup {NoSite}], votesHeld' = votesHeld
  PROVE  VotesSound(mNet)'
<1>. DEFINE n == entry.site
<1>1. n \in Site /\ mNet' = MSending(links, v, {n}, "LOCKED", 0)
      /\ votedFor'[v] = n /\ \A w \in Site : w # v => votedFor'[w] = votedFor[w]
  BY DEF GrantVote, Entry
<1>2. \A a, b \in Site : \A types :
        /\ Carries(mNet', a, b, types) <=>
             Carries(links, a, b, types) \/ (a = v /\ b = n /\ "LOCKED" \in types)
        /\ CarriesOne(links, a, b, types)
             /\ ~ (a = v /\ b = n /\ "LOCKED" \in types /\ Carries(links, a, b, types))
             => CarriesOne(mNet', a, b, types)
  <2>1. "LOCKED" \in MessageType /\ 0 \in Nat
    BY DEF MessageType
  <2>2. \A b \in Site : b \in {n} <=> b = n
    OBVIOUS
  <2>. QED BY <1>1, <2>1, <2>2, SendingCarries
<1>. HIDE DEF n
<1>3. \A i, w \in Site : /\ Granted(mNet', i, w) <=> Granted(links, i, w) \/ (w = v /\ i = n)
                         /\ GivenBack(mNet', i, w) <=> GivenBack(links, i, w)
  BY <1>2 DEF Granted, GivenBack
<1>4. ASSUME NEW i \in Site, NEW w \in Site
      PROVE  /\ CarriesOne(mNet', w, i, {"LOCKED"})
             /\ CarriesOne(mNet', i, w, {"RELINQUISH", "RELEASE"})
  <2>1. ~ (w = v /\ i = n /\ Carries(links, w, i, {"LOCKED"}))
    BY DEF Vacant, Granted
  <2>2. CarriesOne(mNet', w, i, {"LOCKED"})
    BY <1>2, <2>1 DEF VotesSound
  <2>3. CarriesOne(mNet', i, w, {"RELINQUISH", "RELEASE"})
    BY <1>2 DEF VotesSound
  <2>. QED BY <2>2, <2>3
<1>5. ASSUME NEW i \in Site, NEW w \in Site
      PROVE  /\ Granted(mNet', i, w) \/ w \in votesHeld[i] \/ GivenBack(mNet', i, w)
                  => votedFor'[w] = i
             /\ w \in votesHeld[i] => ~ Granted(mNet', i, w) /\ ~ GivenBack(mNet', i, w)
             /\ ~ (Granted(mNet', i, w) /\ GivenBack(mNet', i, w))
  <2>1. CASE w = v
    BY <1>1, <1>3, <2>1 DEF Vacant
  <2>2. CASE w # v
    BY <1>1, <1>3, <2>2 DEF VotesSound
  <2>. QED BY <2>1, <2>2
<1>. QED BY <1>4, <1>5 DEF VotesSound

\* A site that holds votes gives some of them back.
LEMMA ReturnKeepsVotes ==
  ASSUME NEW links \in Links, VotesSound(links), NEW i \in Site, NEW back \in SUBSET Site,
         back \subseteq votesHeld[i], NEW type \in {"RELINQUISH", "RELEASE"}, NEW ts \in Nat,
         mNet' = MSending(links, i, back, type, ts), votedFor' = votedFor,
         \A j \in Site : votesHeld'[j] = IF j = i THEN votesHeld[j] \ back ELSE votesHeld[j]
  PROVE  VotesSound(mNet)'
<1>1. \A a, b \in Site : \A types :
        /\ Carries(mNet', a, b, types) <=>
             Carries(links, a, b, types) \/ (a = i /\ b \in back /\ type \in types)
        /\ CarriesOne(links, a, b, types)
             /\ ~ (a = i /\ b \in back /\ type \in types /\ Carries(links, a, b, types))
             => CarriesOne(mNet', a, b, types)
  <2>1. type \in MessageType
    BY DEF MessageType
  <2>. QED BY <2>1, SendingCarries
<1>2. type \notin {"LOCKED"} /\ type \in {"RELINQUISH", "RELEASE"}
  OBVIOUS
<1>3. \A j, w \in Site : /\ Granted(mNet', j, w) <=> Granted(links, j, w)
                         /\ GivenBack(mNet', j, w) <=>
                              GivenBack(links, j, w) \/ (j = i /\ w \in back)
  BY <1>1, <1>2 DEF Granted, GivenBack
<1>4. ASSUME NEW j \in Site, NEW w \in Site
      PROVE  /\ CarriesOne(mNet', w, j, {"LOCKED"})
             /\ CarriesOne(mNet', j, w, {"RELINQUISH", "RELEASE"})
  <2>1. ~ (j = i /\ w \in back /\ Carries(links, j, w, {"RELINQUISH", "RELEASE"}))
    BY DEF VotesSound, GivenBack
  <2>2. CarriesOne(mNet', w, j, {"LOCKED"})
    BY <1>1, <1>2 DEF VotesSound
  <2>3. CarriesOne(mNet', j, w, {"RELINQUISH", "RELEASE"})
    BY <1>1, <2>1 DEF VotesSound
  <2>. QED BY <2>2, <2>3
<1>5. ASSUME NEW j \in Site, NEW w \in Site
      PROVE  /\ Granted(mNet', j, w) \/ w \in votesHeld'[j] \/ GivenBack(mNet', j, w)
                  => votedFor[w] = j
             /\ w \in votesHeld'[j] => ~ Granted(mNet', j, w) /\ ~ GivenBack(mNet', j, w)
             /\ ~ (Granted(mNet', j, w) /\ GivenBack(mNet', j, w))
  <2>1. /\ Granted(links, j, w) \/ w \in votesHeld[j] \/ GivenBack(links, j, w)
             => votedFor[w] = j
        /\ w \in votesHeld[j] => ~ Granted(links, j, w) /\ ~ GivenBack(links, j, w)
        /\ ~ (Granted(links, j, w) /\ GivenBack(links, j, w))
    BY DEF VotesSound
  <2>2. /\ Granted(mNet', j, w) <=> Granted(links, j, w)
        /\ GivenBack(mNet', j, w) <=> GivenBack(links, j, w) \/ (j = i /\ w \in back)
    BY <1>3
  <2>3. /\ j = i /\ w \in back => w \in votesHeld[j] /\ w \notin votesHeld'[j]
        /\ ~ (j = i /\ w \in back) => (w \in votesHeld'[j] <=> w \in votesHeld[j])
    OBVIOUS
  <2>. QED BY <2>1, <2>2, <2>3
<1>. QED BY <1>4, <1>5 DEF VotesSound

\* A site that asks again forgets the votes it holds.
LEMMA FewerKeepsVotes ==
  ASSUME NEW links \in Links, VotesSound(links), NEW i \in Site, NEW targets, NEW ts \in Nat,
         mNet' = MSending(links, i, targets, "REQUEST", ts), votedFor' = votedFor,
         \A j \in Site : votesHeld'[j] \subseteq votesHeld[j]
  PROVE  VotesSound(mNet)'
<1>1. \A a, b \in Site : \A types :
        "REQUEST" \notin types =>
          /\ Carries(mNet', a, b, types) <=> Carries(links, a, b, types)
          /\ CarriesOne(links, a, b, types) => CarriesOne(mNet', a, b, types)
  <2>1. "REQUEST" \in MessageType
    BY DEF MessageType
  <2>. QED BY <2>1, SendingCarries
<1>2. "REQUEST" \notin {"LOCKED"} /\ "REQUEST" \notin {"RELINQUISH", "RELEASE"}
  OBVIOUS
<1>. QED BY <1>1, <1>2 DEF VotesSound, Granted, GivenBack

LEMMA SendingKeepsAsked ==
  ASSUME NEW links \in Links, AskedSound(links), NEW i \in Site, NEW targets,
         NEW type \in MessageType, NEW ts \in Nat,
         mNet' = MSending(links, i, targets, type, ts),
         type = "REQUEST" => targets \subseteq Quorum[i],
         \A v \in Site : \A entry \in requestQueue'[v] :
           entry \in requestQueue[v] \/ v \in Quorum[entry.site],
         \A v, j \in Site : votedFor'[v] = j => votedFor[v] = j \/ v \in Quorum[j]
  PROVE  AskedSound(mNet)'
<1>1. ASSUME NEW a \in Site, NEW b \in Site, Carries(mNet', a, b, {"REQUEST"})
      PROVE  b \in Quorum[a]
  <2>1. Carries(links, a, b, {"REQUEST"}) \/ (a = i /\ b \in targets /\ type \in {"REQUEST"})
    BY <1>1, SendingCarries
  <2>. QED BY <2>1 DEF AskedSound
<1>2. ASSUME NEW a \in Site, NEW b \in Site
      PROVE  /\ \A entry \in requestQueue'[b] : entry.site = a => b \in Quorum[a]
             /\ votedFor'[b] = a => b \in Quorum[a]
  BY DEF AskedSound
<1>. QED BY <1>1, <1>2 DEF AskedSound

-----------------------------------------------------------------------------
(* One lemma per step.  The voter.                                         *)

\* The vote of v, which is with nobody, goes to the entry.
LEMMA GrantKeeps ==
  ASSUME VotesInv, NEW links \in Links, VotesSound(links), AskedSound(links),
         NEW v \in Site, Vacant(links, v),
         NEW entry \in Entry, v \in Quorum[entry.site],
         NEW queue \in SUBSET Entry,
         \A other \in queue : other \in requestQueue[v] \/ v \in Quorum[other.site],
         GrantVote(v, entry, queue, links),
         UNCHANGED asking, UNCHANGED history, seenTs' \in [Site -> Nat]
  PROVE  VotesInv'
<1>1. /\ entry.site \in Site /\ entry.ts \in Nat
      /\ votedFor' = [votedFor EXCEPT ![v] = entry.site]
      /\ votedTs' = [votedTs EXCEPT ![v] = entry.ts]
      /\ inquireSent' = [inquireSent EXCEPT ![v] = FALSE]
      /\ requestQueue' = [requestQueue EXCEPT ![v] = queue]
      /\ mNet' = MSending(links, v, {entry.site}, "LOCKED", 0)
      /\ "LOCKED" \in MessageType /\ "LOCKED" # "REQUEST" /\ 0 \in Nat
      /\ UNCHANGED <<votesHeld, allVotes, inCs, at, gaveUp, requests>>
  BY DEF GrantVote, Entry, MessageType, asking, history
<1>2. MaekawaTypeOK
  BY DEF VotesInv
<1>3. mNet' \in Links
  BY <1>1, SendingTyped
<1>4. MaekawaTypeOK'
  BY <1>1, <1>2, <1>3 DEF MaekawaTypeOK, Links
<1>5. VotesSound(mNet)'
  BY <1>1, <1>2, GrantKeepsVotes DEF MaekawaTypeOK
<1>6. AskedSound(mNet)'
  <2>1. \A w \in Site : \A other \in requestQueue'[w] :
          other \in requestQueue[w] \/ w \in Quorum[other.site]
    BY <1>1, <1>2 DEF MaekawaTypeOK
  <2>2. \A w, j \in Site : votedFor'[w] = j => votedFor[w] = j \/ w \in Quorum[j]
    BY <1>1, <1>2 DEF MaekawaTypeOK
  <2>. QED BY <1>1, <2>1, <2>2, SendingKeepsAsked
<1>7. ClientInv'
  BY <1>1 DEF VotesInv, ClientInv
<1>. QED BY <1>4, <1>5, <1>6, <1>7 DEF VotesInv

\* Nothing is sent and nobody's vote changes.
LEMMA QuietKeeps ==
  ASSUME VotesInv, NEW links \in Links, VotesSound(links), AskedSound(links), mNet' = links,
         MaekawaTypeOK', UNCHANGED <<votesHeld, requestQueue>>,
         \A v, i \in Site : votedFor'[v] = i => votedFor[v] = i,
         \A v, i \in Site :
           Granted(links, i, v) \/ v \in votesHeld[i] \/ GivenBack(links, i, v)
             => votedFor'[v] = i,
         ClientInv'
  PROVE  VotesInv'
<1>1. VotesSound(mNet)'
  BY DEF VotesSound, Granted, GivenBack
<1>2. AskedSound(mNet)'
  BY DEF AskedSound
<1>. QED BY <1>1, <1>2 DEF VotesInv

LEMMA GrantFirstKeeps ==
  ASSUME VotesInv, NEW links \in Links, VotesSound(links), AskedSound(links),
         NEW v \in Site, Vacant(links, v), NEW queue \in SUBSET Entry,
         \A other \in queue : v \in Quorum[other.site],
         GrantFirst(v, queue, links), UNCHANGED <<asking, history>>, seenTs' = seenTs
  PROVE  VotesInv'
<1>1. PICK first \in queue : GrantVote(v, first, queue \ {first}, links)
  BY DEF GrantFirst
<1>2. seenTs' \in [Site -> Nat] /\ queue \ {first} \in SUBSET Entry
  BY DEF VotesInv, MaekawaTypeOK
<1>. QED BY <1>1, <1>2, GrantKeeps

LEMMA FreeKeeps ==
  ASSUME VotesInv, NEW links \in Links, VotesSound(links), AskedSound(links),
         NEW v \in Site, Vacant(links, v),
         VoteFree(v, links), UNCHANGED <<asking, history>>, seenTs' = seenTs
  PROVE  VotesInv'
<1>1. /\ votedFor' = [votedFor EXCEPT ![v] = NoSite]
      /\ votedTs' = [votedTs EXCEPT ![v] = 0]
      /\ inquireSent' = [inquireSent EXCEPT ![v] = FALSE]
      /\ mNet' = links /\ requestQueue' = requestQueue
      /\ UNCHANGED <<votesHeld, allVotes, inCs, at, gaveUp, requests>>
  BY DEF VoteFree, asking, history
<1>2. MaekawaTypeOK
  BY DEF VotesInv
<1>3. MaekawaTypeOK'
  BY <1>1, <1>2 DEF MaekawaTypeOK, Links
<1>4. \A w \in Site : votedFor'[w] = IF w = v THEN NoSite ELSE votedFor[w]
  BY <1>1, <1>2 DEF MaekawaTypeOK
<1>5. \A w, i \in Site : votedFor'[w] = i => votedFor[w] = i
  BY <1>4, MaekawaAssumption
<1>6. \A w, i \in Site :
        Granted(links, i, w) \/ w \in votesHeld[i] \/ GivenBack(links, i, w)
          => votedFor'[w] = i
  BY <1>4 DEF Vacant, VotesSound
<1>7. ClientInv'
  BY <1>1 DEF VotesInv, ClientInv
<1>. QED BY <1>1, <1>3, <1>5, <1>6, <1>7, QuietKeeps

LEMMA HandleVoteRequestKeeps ==
  ASSUME VotesInv, NEW v \in Site, NEW i \in Site, NEW msg \in MArriving(v, i),
         HandleVoteRequest(v, i, msg)
  PROVE  VotesInv'
<1>. DEFINE links == MTaking(v, i)
            entry == [ts |-> msg.ts, site |-> i]
<1>1. /\ VotesSound(links) /\ AskedSound(links) /\ links \in Links /\ msg \in MaekawaMessage
      /\ MaekawaTypeOK /\ ClientInv
  BY TakingKeeps DEF VotesInv
<1>2. mNet \in Links /\ msg.type = "REQUEST" /\ msg.ts \in Nat
  BY <1>1, LinksTyped DEF HandleVoteRequest, MaekawaMessage
<1>3. v \in Quorum[i]
  <2>1. Carries(mNet, i, v, {"REQUEST"})
    BY <1>2, TakingCarries
  <2>. QED BY <2>1 DEF VotesInv, AskedSound
<1>4. entry \in Entry /\ entry.site = i
  BY <1>2 DEF Entry
<1>5. seenTs' \in [Site -> Nat] /\ UNCHANGED asking /\ UNCHANGED history
  BY <1>1, <1>2 DEF HandleVoteRequest, MaekawaTypeOK
<1>6. CASE votedFor[v] = NoSite
  <2>1. GrantVote(v, entry, requestQueue[v], links)
    BY <1>6 DEF HandleVoteRequest
  <2>2. Vacant(links, v)
    BY <1>1, <1>6, MaekawaAssumption DEF Vacant, VotesSound
  <2>3. requestQueue[v] \in SUBSET Entry
    BY <1>1 DEF MaekawaTypeOK
  <2>. HIDE DEF links, entry
  <2>. QED BY <1>1, <1>3, <1>4, <1>5, <2>1, <2>2, <2>3, GrantKeeps
<1>7. CASE votedFor[v] # NoSite
  <2>1. /\ requestQueue' = [requestQueue EXCEPT ![v] = @ \cup {entry}]
        /\ UNCHANGED <<votedFor, votedTs, votesHeld, allVotes, inCs, at, gaveUp, requests>>
    BY <1>7 DEF HandleVoteRequest, asking, history
  <2>2. votedFor[v] \in Site
    BY <1>1, <1>7 DEF MaekawaTypeOK
  <2>3. /\ inquireSent' \in [Site -> BOOLEAN]
        /\ \E type \in {"FAILED", "INQUIRE"}, target \in Site :
             mNet' = MSending(links, v, {target}, type, 0)
    <3>1. CASE CallsBack(v, entry)
      BY <1>1, <1>7, <2>2, <3>1 DEF HandleVoteRequest, MaekawaTypeOK
    <3>2. CASE ~ CallsBack(v, entry)
      BY <1>1, <1>7, <3>2 DEF HandleVoteRequest, MaekawaTypeOK
    <3>. QED BY <3>1, <3>2
  <2>4. PICK type \in {"FAILED", "INQUIRE"}, target \in Site :
             mNet' = MSending(links, v, {target}, type, 0)
    BY <2>3
  <2>. HIDE DEF links, entry
  <2>5. type \in MessageType /\ type # "REQUEST" /\ type \in {"REQUEST", "FAILED", "INQUIRE"}
        /\ 0 \in Nat
    BY DEF MessageType
  <2>6. mNet' \in Links
    BY <1>1, <2>4, <2>5, SendingTyped
  <2>7. requestQueue' \in [Site -> SUBSET Entry]
    BY <1>1, <1>4, <2>1 DEF MaekawaTypeOK
  <2>8. MaekawaTypeOK'
    BY <1>1, <1>5, <2>1, <2>3, <2>6, <2>7 DEF MaekawaTypeOK, Links
  <2>9. VotesSound(mNet)'
    BY <1>1, <2>1, <2>4, <2>5, SendingKeepsVotes
  <2>10. \A w \in Site : \A other \in requestQueue'[w] :
           other \in requestQueue[w] \/ w \in Quorum[other.site]
    BY <1>1, <1>3, <1>4, <2>1 DEF MaekawaTypeOK
  <2>11. AskedSound(mNet)'
    BY <1>1, <2>1, <2>4, <2>5, <2>10, SendingKeepsAsked
  <2>12. ClientInv'
    BY <1>1, <2>1 DEF ClientInv
  <2>. QED BY <2>8, <2>9, <2>11, <2>12 DEF VotesInv
<1>. QED BY <1>6, <1>7

LEMMA HandleRelinquishKeeps ==
  ASSUME VotesInv, NEW v \in Site, NEW i \in Site, NEW msg \in MArriving(v, i),
         HandleRelinquish(v, i, msg)
  PROVE  VotesInv'
<1>. DEFINE links == MTaking(v, i)
            back == IF votedFor[v] = NoSite THEN {} ELSE {Voted(v)}
            queue == requestQueue[v] \cup back
<1>1. /\ VotesSound(links) /\ AskedSound(links) /\ links \in Links
      /\ MaekawaTypeOK
  BY TakingKeeps DEF VotesInv
<1>2. votedFor[v] = i /\ Vacant(links, v)
  BY TakingBack DEF HandleRelinquish
<1>3. v \in Quorum[i]
  BY <1>2 DEF VotesInv, AskedSound
<1>4. Voted(v) \in Entry /\ Voted(v).site = i
  BY <1>1, <1>2 DEF Voted, Entry, MaekawaTypeOK
<1>5. queue \in SUBSET Entry
  BY <1>1, <1>4 DEF MaekawaTypeOK
<1>6. \A other \in queue : v \in Quorum[other.site]
  <2>1. \A other \in requestQueue[v] : other.site \in Site
    BY <1>1 DEF MaekawaTypeOK, Entry
  <2>2. \A other \in requestQueue[v] : v \in Quorum[other.site]
    BY <2>1 DEF VotesInv, AskedSound
  <2>. QED BY <1>3, <1>4, <2>2
<1>7. /\ UNCHANGED <<asking, history>> /\ seenTs' = seenTs
      /\ VoteFree(v, links) \/ GrantFirst(v, queue, links)
  BY DEF HandleRelinquish
<1>. HIDE DEF links, queue
<1>. QED BY <1>1, <1>2, <1>5, <1>6, <1>7, FreeKeeps, GrantFirstKeeps

LEMMA HandleReleaseKeeps ==
  ASSUME VotesInv, NEW v \in Site, NEW i \in Site, NEW msg \in MArriving(v, i),
         HandleRelease(v, i, msg)
  PROVE  VotesInv'
<1>. DEFINE links == MTaking(v, i)
            queue == requestQueue[v]
<1>1. /\ VotesSound(links) /\ AskedSound(links) /\ links \in Links
      /\ MaekawaTypeOK
  BY TakingKeeps DEF VotesInv
<1>2. Vacant(links, v)
  BY TakingBack DEF HandleRelease
<1>3. queue \in SUBSET Entry
  BY <1>1 DEF MaekawaTypeOK
<1>4. \A other \in queue : v \in Quorum[other.site]
  <2>1. \A other \in requestQueue[v] : other.site \in Site
    BY <1>1 DEF MaekawaTypeOK, Entry
  <2>. QED BY <2>1 DEF VotesInv, AskedSound
<1>5. /\ UNCHANGED <<asking, history>> /\ seenTs' = seenTs
      /\ VoteFree(v, links) \/ GrantFirst(v, queue, links)
  BY DEF HandleRelease
<1>. HIDE DEF links, queue
<1>. QED BY <1>1, <1>2, <1>3, <1>4, <1>5, FreeKeeps, GrantFirstKeeps

-----------------------------------------------------------------------------
(* The site that asks.                                                     *)

LEMMA HandleLockedKeeps ==
  ASSUME VotesInv, NEW i \in Site, NEW v \in Site, NEW msg \in MArriving(i, v),
         HandleLocked(i, v, msg)
  PROVE  VotesInv'
<1>. DEFINE links == MTaking(i, v)
            votes == votesHeld[i] \cup {v}
<1>1. /\ VotesSound(links) /\ AskedSound(links) /\ links \in Links
      /\ MaekawaTypeOK /\ VotesSound(mNet) /\ AskedSound(mNet) /\ ClientInv /\ mNet \in Links
  BY TakingKeeps, LinksTyped DEF VotesInv
<1>2. /\ msg.type = "LOCKED"
      /\ votesHeld' = [votesHeld EXCEPT ![i] = votes]
      /\ allVotes' = [allVotes EXCEPT ![i] = allVotes[i] \/ Enough(i, votes)]
      /\ mNet' = links
      /\ UNCHANGED <<votedFor, votedTs, inquireSent, requestQueue, inCs, at, seenTs>>
      /\ UNCHANGED <<gaveUp, requests>>
  BY DEF HandleLocked, voting, history
<1>3. Granted(mNet, i, v) /\ ~ Granted(links, i, v)
  BY <1>1, <1>2, TakingCarries DEF Granted, VotesSound
<1>4. votedFor[v] = i /\ v \notin votesHeld[i] /\ ~ GivenBack(mNet, i, v)
  BY <1>1, <1>3 DEF VotesSound
<1>5. ~ GivenBack(links, i, v)
  BY <1>1, <1>4, TakingCarries DEF GivenBack
<1>6. votes \subseteq Quorum[i]
  <2>1. votesHeld[i] \subseteq Site
    BY <1>1 DEF MaekawaTypeOK
  <2>2. \A w \in votesHeld[i] : w \in Site /\ votedFor[w] = i
    BY <1>1, <2>1 DEF VotesSound
  <2>3. \A w \in Site : votedFor[w] = i => w \in Quorum[i]
    BY <1>1 DEF AskedSound
  <2>. QED BY <1>4, <2>2, <2>3
<1>7. Enough(i, votes) => votes = Quorum[i]
  <2>. HIDE DEF votes
  <2>1. IsFiniteSet(Quorum[i])
    BY MaekawaAssumption, FS_Subset
  <2>2. /\ IsFiniteSet(votes) /\ Cardinality(votes) <= Cardinality(Quorum[i])
        /\ Cardinality(Quorum[i]) = Cardinality(votes) => Quorum[i] = votes
    BY <1>6, <2>1, FS_Subset
  <2>3. Cardinality(votes) \in Nat /\ Cardinality(Quorum[i]) \in Nat
    BY <2>1, <2>2, FS_CardinalityType
  <2>. QED BY <2>2, <2>3 DEF Enough
<1>8. \A j \in Site : votesHeld'[j] = IF j = i THEN votes ELSE votesHeld[j]
  BY <1>1, <1>2 DEF MaekawaTypeOK
<1>9. MaekawaTypeOK'
  <2>1. allVotes[i] \/ Enough(i, votes) \in BOOLEAN
    BY <1>1 DEF Enough, MaekawaTypeOK
  <2>2. allVotes' \in [Site -> BOOLEAN]
    BY <1>1, <1>2, <2>1 DEF MaekawaTypeOK
  <2>. QED BY <1>1, <1>2, <2>2 DEF MaekawaTypeOK, Links
<1>10. VotesSound(mNet)'
  <2>. SUFFICES ASSUME NEW j \in Site, NEW w \in Site
                PROVE  /\ Granted(links, j, w) \/ w \in votesHeld'[j] \/ GivenBack(links, j, w)
                             => votedFor[w] = j
                       /\ w \in votesHeld'[j] =>
                            ~ Granted(links, j, w) /\ ~ GivenBack(links, j, w)
    BY <1>1, <1>2 DEF VotesSound, Granted, GivenBack
  <2>1. CASE j = i /\ w = v
    BY <1>3, <1>4, <1>5, <2>1
  <2>2. CASE ~ (j = i /\ w = v)
    BY <1>1, <1>8, <2>2 DEF VotesSound
  <2>. QED BY <2>1, <2>2
<1>11. AskedSound(mNet)'
  BY <1>1, <1>2 DEF AskedSound
<1>12. ClientInv'
  <2>1. allVotes'[i] => allVotes[i] \/ Enough(i, votes)
    BY <1>1, <1>2 DEF MaekawaTypeOK
  <2>2. \A j \in Site : j # i => allVotes'[j] = allVotes[j]
    BY <1>1, <1>2 DEF MaekawaTypeOK
  <2>3. votesHeld[i] = Quorum[i] => votes = Quorum[i]
    BY <1>6
  <2>. HIDE DEF votes
  <2>. QED BY <1>1, <1>2, <1>7, <1>8, <2>1, <2>2, <2>3 DEF ClientInv
<1>. QED BY <1>9, <1>10, <1>11, <1>12 DEF VotesInv

LEMMA HandleFailedKeeps ==
  ASSUME VotesInv, NEW i \in Site, NEW v \in Site, NEW msg \in MArriving(i, v),
         HandleFailed(i, v, msg)
  PROVE  VotesInv'
<1>. DEFINE links == MTaking(i, v)
<1>1. /\ VotesSound(links) /\ AskedSound(links) /\ links \in Links /\ MaekawaTypeOK /\ ClientInv
  BY TakingKeeps DEF VotesInv
<1>2. mNet' = links /\ UNCHANGED <<voting, asking, seenTs, history>>
  BY DEF HandleFailed
<1>3. MaekawaTypeOK'
  BY <1>1, <1>2 DEF MaekawaTypeOK, Links, voting, asking, history
<1>4. ClientInv'
  BY <1>1, <1>2 DEF ClientInv, asking
<1>. HIDE DEF links
<1>5. \A w, j \in Site :
        Granted(links, j, w) \/ w \in votesHeld[j] \/ GivenBack(links, j, w) => votedFor[w] = j
  BY <1>1 DEF VotesSound
<1>. QED BY <1>1, <1>2, <1>3, <1>4, <1>5, QuietKeeps DEF voting, asking

\* As long as no INQUIRE is handled before _in_cs = True, a vote is given back
\* only by a client that waits, or that is not asking.
LEMMA HandleInquireKeeps ==
  ASSUME VotesInv, Overtaken = {}, NEW i \in Site, NEW v \in Site,
         NEW msg \in MArriving(i, v), HandleInquire(i, v, msg)
  PROVE  VotesInv'
<1>. DEFINE links == MTaking(i, v)
<1>1. /\ VotesSound(links) /\ AskedSound(links) /\ links \in Links
      /\ MaekawaTypeOK /\ VotesSound(mNet) /\ ClientInv
  BY TakingKeeps DEF VotesInv
<1>2. UNCHANGED <<voting, inCs, at, seenTs, history>>
  BY DEF HandleInquire
<1>3. CASE Keeps(i, v) /\ mNet' = links /\ UNCHANGED <<votesHeld, allVotes>>
  <2>1. MaekawaTypeOK'
    BY <1>1, <1>2, <1>3 DEF MaekawaTypeOK, Links, voting, history
  <2>2. ClientInv'
    BY <1>1, <1>2, <1>3 DEF ClientInv
  <2>. HIDE DEF links
  <2>3. \A w, j \in Site :
          Granted(links, j, w) \/ w \in votesHeld[j] \/ GivenBack(links, j, w) => votedFor[w] = j
    BY <1>1 DEF VotesSound
  <2>. QED BY <1>1, <1>2, <1>3, <2>1, <2>2, <2>3, QuietKeeps DEF voting
<1>4. CASE /\ ~ Keeps(i, v)
           /\ votesHeld' = [votesHeld EXCEPT ![i] = @ \ {v}]
           /\ allVotes' = [allVotes EXCEPT ![i] = FALSE]
           /\ mNet' = MSending(links, i, {v}, "RELINQUISH", 0)
  <2>1. ~ inCs[i] /\ v \in votesHeld[i] /\ at[i] \notin {"woken", "cs"}
    BY <1>1, <1>4 DEF Keeps, HandleInquire, ClientInv
  <2>2. "RELINQUISH" \in MessageType /\ "RELINQUISH" # "REQUEST" /\ 0 \in Nat
    BY DEF MessageType
  <2>. HIDE DEF links
  <2>3. mNet' \in Links
    BY <1>1, <1>4, <2>2, SendingTyped
  <2>4. MaekawaTypeOK'
    BY <1>1, <1>2, <1>4, <2>3 DEF MaekawaTypeOK, Links, voting, history
  <2>5. /\ \A j \in Site : votesHeld'[j] = IF j = i THEN votesHeld[j] \ {v} ELSE votesHeld[j]
        /\ \A j \in Site : allVotes'[j] <=> allVotes[j] /\ j # i
    BY <1>1, <1>4 DEF MaekawaTypeOK
  <2>6. VotesSound(mNet)'
    <3>1. {v} \in SUBSET Site /\ {v} \subseteq votesHeld[i] /\ votedFor' = votedFor
          /\ "RELINQUISH" \in {"RELINQUISH", "RELEASE"}
      BY <1>2, <2>1 DEF voting
    <3>. QED BY <1>1, <1>4, <2>2, <2>5, <3>1, ReturnKeepsVotes
  <2>7. AskedSound(mNet)'
    BY <1>1, <1>2, <1>4, <2>2, SendingKeepsAsked DEF voting
  <2>8. ClientInv'
    BY <1>1, <1>2, <2>1, <2>5 DEF ClientInv
  <2>. QED BY <2>4, <2>6, <2>7, <2>8 DEF VotesInv
<1>. QED BY <1>3, <1>4 DEF HandleInquire

-----------------------------------------------------------------------------
(* The client.                                                             *)

LEMMA RequestVotesKeeps ==
  ASSUME VotesInv, NEW i \in Site, NEW ts \in 1 .. MaxTs, RequestVotes(i, ts)
  PROVE  VotesInv'
<1>1. VotesSound(mNet) /\ AskedSound(mNet) /\ MaekawaTypeOK /\ ClientInv /\ mNet \in Links
  BY LinksTyped DEF VotesInv
<1>2. /\ votesHeld' = [votesHeld EXCEPT ![i] = {}]
      /\ inCs' = [inCs EXCEPT ![i] = FALSE]
      /\ allVotes' = [allVotes EXCEPT ![i] = FALSE]
      /\ at' = [at EXCEPT ![i] = "wait"]
      /\ seenTs' = [seenTs EXCEPT ![i] = ts]
      /\ mNet' = MSending(mNet, i, Quorum[i], "REQUEST", ts)
      /\ UNCHANGED <<votedFor, votedTs, inquireSent, requestQueue, gaveUp>>
  BY DEF RequestVotes, voting
<1>3. ts \in Nat /\ "REQUEST" \in MessageType
      /\ "REQUEST" \notin {"LOCKED"} /\ "REQUEST" \notin {"RELINQUISH", "RELEASE"}
  BY DEF MessageType
<1>4. mNet' \in Links
  BY <1>1, <1>2, <1>3, SendingTyped
<1>5. requests' \in 0 .. MaxCalls
  BY <1>1, MaekawaAssumption DEF RequestVotes, MaekawaTypeOK
<1>6. MaekawaTypeOK'
  BY <1>1, <1>2, <1>3, <1>4, <1>5 DEF MaekawaTypeOK, Links
<1>7. \A j \in Site : /\ votesHeld'[j] \subseteq votesHeld[j]
                      /\ inCs'[j] <=> inCs[j] /\ j # i
                      /\ allVotes'[j] <=> allVotes[j] /\ j # i
                      /\ at'[j] = IF j = i THEN "wait" ELSE at[j]
                      /\ j # i => votesHeld'[j] = votesHeld[j]
  BY <1>1, <1>2 DEF MaekawaTypeOK
<1>8. VotesSound(mNet)'
  BY <1>1, <1>2, <1>3, <1>7, FewerKeepsVotes
<1>9. AskedSound(mNet)'
  BY <1>1, <1>2, <1>3, SendingKeepsAsked
<1>10. ClientInv'
  BY <1>1, <1>7 DEF ClientInv
<1>. QED BY <1>6, <1>8, <1>9, <1>10 DEF VotesInv

LEMMA ReleaseVotesKeeps ==
  ASSUME VotesInv, NEW i \in Site, ReleaseVotes(i)
  PROVE  VotesInv'
<1>1. VotesSound(mNet) /\ AskedSound(mNet) /\ MaekawaTypeOK /\ ClientInv /\ mNet \in Links
  BY LinksTyped DEF VotesInv
<1>2. /\ votesHeld' = [votesHeld EXCEPT ![i] = {}]
      /\ inCs' = [inCs EXCEPT ![i] = FALSE]
      /\ at' = [at EXCEPT ![i] = "idle"]
      /\ mNet' = MSending(mNet, i, Quorum[i], "RELEASE", 0)
      /\ UNCHANGED <<votedFor, votedTs, inquireSent, requestQueue, allVotes, seenTs>>
      /\ UNCHANGED <<gaveUp, requests>>
  BY DEF ReleaseVotes, voting, history
<1>3. votesHeld[i] = Quorum[i]
  BY <1>1 DEF ClientInv, ReleaseVotes
<1>4. "RELEASE" \in MessageType /\ "RELEASE" # "REQUEST" /\ 0 \in Nat
  BY DEF MessageType
<1>5. mNet' \in Links
  BY <1>1, <1>2, <1>4, SendingTyped
<1>6. MaekawaTypeOK'
  BY <1>1, <1>2, <1>5 DEF MaekawaTypeOK, Links
<1>7. /\ \A j \in Site : votesHeld'[j] = IF j = i THEN votesHeld[j] \ Quorum[i] ELSE votesHeld[j]
      /\ \A j \in Site : inCs'[j] <=> inCs[j] /\ j # i
      /\ \A j \in Site : at'[j] = IF j = i THEN "idle" ELSE at[j]
  BY <1>1, <1>2, <1>3 DEF MaekawaTypeOK
<1>8. VotesSound(mNet)'
  <2>1. Quorum[i] \in SUBSET Site /\ Quorum[i] \subseteq votesHeld[i]
        /\ "RELEASE" \in {"RELINQUISH", "RELEASE"}
    BY <1>3, MaekawaAssumption
  <2>. QED BY <1>1, <1>2, <1>4, <1>7, <2>1, ReturnKeepsVotes
<1>9. AskedSound(mNet)'
  BY <1>1, <1>2, <1>4, SendingKeepsAsked
<1>10. ClientInv'
  BY <1>1, <1>2, <1>7 DEF ClientInv
<1>. QED BY <1>6, <1>8, <1>9, <1>10 DEF VotesInv

\* Wake, EnterCs, GiveUp: only the client moves.
LEMMA ClientKeeps ==
  ASSUME VotesInv, NEW i \in Site, Wake(i) \/ EnterCs(i) \/ GiveUp(i)
  PROVE  VotesInv'
<1>1. VotesSound(mNet) /\ AskedSound(mNet) /\ MaekawaTypeOK /\ ClientInv
  BY DEF VotesInv
<1>2. UNCHANGED <<votedFor, votedTs, inquireSent, requestQueue>>
      /\ UNCHANGED <<votesHeld, allVotes, seenTs, mNet, requests>>
  BY DEF Wake, EnterCs, GiveUp, voting, history
<1>3. MaekawaTypeOK'
  BY <1>1, <1>2 DEF MaekawaTypeOK, Wake, EnterCs, GiveUp, history
<1>4. VotesSound(mNet)' /\ AskedSound(mNet)'
  BY <1>1, <1>2 DEF VotesSound, AskedSound, Granted, GivenBack
<1>5. ClientInv'
  <2>1. CASE Wake(i)
    BY <1>1, <1>2, <2>1 DEF Wake, ClientInv, MaekawaTypeOK
  <2>2. CASE EnterCs(i)
    BY <1>1, <1>2, <2>2 DEF EnterCs, ClientInv, MaekawaTypeOK
  <2>3. CASE GiveUp(i)
    BY <1>1, <1>2, <2>3 DEF GiveUp, ClientInv, MaekawaTypeOK
  <2>. QED BY <2>1, <2>2, <2>3
<1>. QED BY <1>3, <1>4, <1>5 DEF VotesInv

-----------------------------------------------------------------------------
(* The invariant, and what follows.                                        *)

LEMMA VotesInitially == MaekawaInit => VotesInv
<1>. SUFFICES ASSUME MaekawaInit PROVE VotesInv
  OBVIOUS
<1>1. mNet \in Links /\ \A a, b \in Site : mNet[a][b] = << >>
  BY DEF MaekawaInit, Links
<1>2. \A a, b \in Site : \A types : ~ Carries(mNet, a, b, types) /\ CarriesOne(mNet, a, b, types)
  BY <1>1 DEF Carries, CarriesOne
<1>3. MaekawaTypeOK
  BY <1>1, MaekawaAssumption DEF MaekawaInit, MaekawaTypeOK, Links
<1>4. VotesSound(mNet)
  BY <1>2 DEF MaekawaInit, VotesSound, Granted, GivenBack
<1>5. AskedSound(mNet)
  BY <1>2, MaekawaAssumption DEF MaekawaInit, AskedSound
<1>6. ClientInv
  BY DEF MaekawaInit, ClientInv
<1>. QED BY <1>3, <1>4, <1>5, <1>6 DEF VotesInv

LEMMA VotesInductive ==
  ASSUME Overtaken = {}, VotesInv, [MaekawaNext]_maekawaVars
  PROVE  VotesInv'
<1>1. CASE UNCHANGED maekawaVars
  BY <1>1 DEF maekawaVars, voting, asking, history, VotesInv, MaekawaTypeOK, VotesSound,
     AskedSound, ClientInv, Granted, GivenBack, Carries, CarriesOne
<1>2. ASSUME NEW i \in Site, NEW j \in Site, NEW msg \in MArriving(i, j)
      PROVE  /\ HandleVoteRequest(i, j, msg) => VotesInv'
             /\ HandleRelinquish(i, j, msg) => VotesInv'
             /\ HandleRelease(i, j, msg) => VotesInv'
             /\ HandleLocked(i, j, msg) => VotesInv'
             /\ HandleFailed(i, j, msg) => VotesInv'
             /\ HandleInquire(i, j, msg) => VotesInv'
  BY HandleVoteRequestKeeps, HandleRelinquishKeeps, HandleReleaseKeeps, HandleLockedKeeps,
     HandleFailedKeeps, HandleInquireKeeps
<1>3. ASSUME NEW i \in Site PROVE MReceiver(i) => VotesInv'
  BY <1>2 DEF MReceiver
<1>4. ASSUME NEW i \in Site PROVE MClient(i) \/ GiveUp(i) => VotesInv'
  BY ClientKeeps, ReleaseVotesKeeps DEF MClient
<1>5. ASSUME NEW i \in Site, NEW ts \in 1 .. MaxTs PROVE RequestVotes(i, ts) => VotesInv'
  BY RequestVotesKeeps
<1>. QED BY <1>1, <1>3, <1>4, <1>5 DEF MaekawaNext

\* If no INQUIRE is handled between the end of the waiting and _in_cs = True,
\* the votes that a site counts, and those on their way, are always its own.
THEOREM VotesInvAlways ==
  ASSUME Overtaken = {} PROVE MaekawaSpec => []VotesInv
BY VotesInitially, VotesInductive, PTL DEF MaekawaSpec

\* If no INQUIRE is handled between the end of the waiting and _in_cs = True,
\* every vote in _votes_held is cast for the site that holds it.
THEOREM VotesAreRealAlways ==
  ASSUME Overtaken = {} PROVE MaekawaSpec => []VotesAreReal
<1>1. VotesInv => VotesAreReal
  BY DEF VotesInv, VotesSound, VotesAreReal, MaekawaTypeOK
<1>. QED BY <1>1, VotesInvAlways, PTL

\* If no INQUIRE is handled between the end of the waiting and _in_cs = True,
\* two sites never have _in_cs set: each holds its quorum's votes, and a site
\* that both quorums share has voted for one.
THEOREM OneSiteInAlways ==
  ASSUME Overtaken = {} PROVE MaekawaSpec => []OneSiteIn
<1>1. VotesInv => OneSiteIn
  <2>. SUFFICES ASSUME VotesInv, NEW i \in Site, NEW j \in Site, inCs[i], inCs[j]
                PROVE  i = j
    BY DEF OneSiteIn
  <2>1. votesHeld[i] = Quorum[i] /\ votesHeld[j] = Quorum[j]
    BY DEF VotesInv, ClientInv
  <2>2. PICK v \in Quorum[i] \cap Quorum[j] : TRUE
    BY MaekawaAssumption
  <2>3. v \in Site
    BY <2>2, MaekawaAssumption
  <2>. QED BY <2>1, <2>2, <2>3 DEF VotesInv, VotesSound
<1>. QED BY <1>1, VotesInvAlways, PTL
=============================================================================
