------------------------- MODULE MatchSessionProofs -------------------------
(***************************************************************************)
(* Proofs about MatchSession, for every value of its constants: the types, *)
(* what is shown is committed, the session follows its screen, and the     *)
(* tables of the database implement the in-memory store.                   *)
(***************************************************************************)
EXTENDS MatchSession, FiniteSetTheorems, TLAPS

(* What a play still has to report.                                        *)
Reports == {<< >>, <<"complete">>, <<"canceled">>, <<"failed">>,
            <<"status", "complete">>, <<"status", "failed">>}

PlayRecords ==
  [match : Matches, state : Histories, latest : Histories, stage : Running \union Over,
   left : 0 .. RoundsToPlay, cancelled : BOOLEAN, events : Reports, waiters : Nat]

(* The tables agree: the rounds of a match are those its state has gone    *)
(* through.                                                                *)
TablesAgree ==
  /\ DOMAIN stored \subseteq Matches
  /\ stored \in [DOMAIN stored -> Seq(PlayIds)]
  /\ rounds = [m \in DOMAIN stored |-> History(stored[m])]
  /\ snapshots \in [DOMAIN stored -> Seq(Histories)]

SlotsKnown ==
  /\ DOMAIN slots \subseteq Slots
  /\ \A s \in DOMAIN slots : slots[s].match \in DOMAIN stored

(* A play publishes what it has committed, and has rounds left as long as  *)
(* it runs.                                                                *)
PlaysTyped ==
  /\ plays \in Seq(PlayRecords) /\ Len(plays) <= MaxPlays
  /\ \A p \in PlayIds :
       /\ plays[p].latest = plays[p].state
       /\ plays[p].stage \in Running => plays[p].left > 0 /\ plays[p].events = << >>

(* With a store, every play is of a match in the store, at a state that    *)
(* match has gone through.                                                 *)
PlaysCommitted ==
  withStore =>
    \A p \in PlayIds : /\ plays[p].match \in DOMAIN stored
                       /\ IsPrefix(plays[p].state, stored[plays[p].match])

(* No match has more rounds than the plays started so far can have given   *)
(* it: the p-th play can take its match to p times its rounds.             *)
WithinRounds ==
  /\ \A p \in PlayIds : Len(plays[p].state) + plays[p].left <= p * RoundsToPlay
  /\ \A m \in DOMAIN stored : Len(stored[m]) <= Len(plays) * RoundsToPlay

World ==
  /\ withStore \in BOOLEAN
  /\ TablesAgree /\ SlotsKnown /\ PlaysTyped /\ PlaysCommitted /\ WithinRounds

ShellTypes ==
  /\ screen \in {"menu", "game", "none"}
  /\ exit \in {"none", "user", "matchFailed", "matchNotFound"}
  /\ session \in [match : Matches \union {"none"}, state : Histories]
  /\ session = NoSession \/ session.match \in Matches
  /\ game \in PlayIds \union {0} /\ (game = 0) = (screen # "game")

(* What PlaysCommitted and WithinRounds say of the plays, of the session   *)
(* that a new play may start from.                                         *)
SessionCommitted ==
  /\ Len(session.state) <= Len(plays) * RoundsToPlay
  /\ withStore /\ session # NoSession =>
       /\ session.match \in DOMAIN stored
       /\ IsPrefix(session.state, stored[session.match])

Shown == ShellTypes /\ SessionCommitted /\ SessionFollowsItsScreen

(* Every command that waits on the events of a play beyond the first owes  *)
(* it to another play that has reported its end.                           *)
HasReported(p) == plays[p].stage \in Over /\ plays[p].events = << >>
Settled(q) == {p \in PlayIds \ {q} : HasReported(p)}

WaitersBounded ==
  \A q \in PlayIds : plays[q].waiters <= 1 + Cardinality(Settled(q))

IInv == World /\ Shown /\ WaitersBounded

-----------------------------------------------------------------------------
(* Prefixes.                                                               *)

LEMMA PrefixFacts ==
  ASSUME NEW S, NEW s \in Seq(S), NEW t \in Seq(S)
  PROVE  /\ IsPrefix(s, s) /\ IsPrefix(<< >>, s)
         /\ IsPrefix(s, t) => Len(s) <= Len(t)
         /\ IsPrefix(s, t) /\ Len(s) >= Len(t) => s = t
         /\ \A e \in S : IsPrefix(s, t) => IsPrefix(s, Append(t, e))
BY DEF IsPrefix

(* A prefix of a prefix is a prefix.                                       *)
LEMMA PrefixTransitive ==
  ASSUME NEW S, NEW s \in Seq(S), NEW t \in Seq(S), NEW u \in Seq(S),
         IsPrefix(s, t), IsPrefix(t, u)
  PROVE  IsPrefix(s, u)
BY DEF IsPrefix

(* The numbers up to n are n.                                              *)
LEMMA IntervalSize ==
  ASSUME NEW n \in Nat PROVE IsFiniteSet(1 .. n) /\ Cardinality(1 .. n) = n
BY FS_Interval

(* Sequences over a set are sequences over any larger one.                 *)
LEMMA LargerSeq == ASSUME NEW S, NEW T, S \subseteq T PROVE Seq(S) \subseteq Seq(T)
OBVIOUS

(* What the record of a play is made of.                                   *)
LEMMA PlayFields ==
  ASSUME NEW s \in Seq(PlayRecords), NEW p \in DOMAIN s
  PROVE  /\ s[p] \in PlayRecords
         /\ s[p].match \in Matches /\ s[p].state \in Histories /\ s[p].latest \in Histories
         /\ s[p].stage \in Running \union Over /\ s[p].left \in 0 .. RoundsToPlay
         /\ s[p].cancelled \in BOOLEAN /\ s[p].events \in Reports /\ s[p].waiters \in Nat
<1>1. s[p] \in PlayRecords
  OBVIOUS
<1> QED
  BY <1>1 DEF PlayRecords

(* More plays allow for more rounds: the bound on the lengths of histories *)
(* only grows.                                                             *)
LEMMA BoundsGrow ==
  ASSUME NEW r \in Nat, NEW a \in Nat, NEW b \in Nat, a <= b
  PROVE  a * r <= b * r
OBVIOUS

-----------------------------------------------------------------------------
(* What steps leave alone.                                                 *)


(* Plays that report, are waited for, are cancelled or end keep the match, *)
(* the state and the rounds they have.                                     *)
LEMMA WorldKept ==
  ASSUME World, UNCHANGED <<storeVars, withStore>>,
         plays' \in Seq(PlayRecords), Len(plays') = Len(plays),
         \A q \in PlayIds :
           /\ plays'[q].match = plays[q].match /\ plays'[q].state = plays[q].state
           /\ plays'[q].latest = plays[q].latest /\ plays'[q].left = plays[q].left
           /\ plays'[q].stage \in Running =>
                plays[q].stage \in Running /\ plays'[q].events = << >>
  PROVE  World' /\ PlayIds' = PlayIds
<1>1. PlayIds = 1 .. Len(plays) /\ PlayIds' = PlayIds /\ Len(plays) \in Nat
  BY DEF World, PlaysTyped, PlayIds
<1>2. TablesAgree' /\ SlotsKnown' /\ withStore' = withStore
  BY <1>1 DEF World, TablesAgree, SlotsKnown, storeVars, Histories, History, Row
<1>3. PlaysTyped'
  BY <1>1 DEF World, PlaysTyped
<1>4. PlaysCommitted'
  BY <1>1 DEF World, PlaysCommitted, storeVars
<1>5. WithinRounds'
  BY <1>1 DEF World, WithinRounds, storeVars
<1> QED
  BY <1>1, <1>2, <1>3, <1>4, <1>5 DEF World

(* The shell stays as it is while states of plays and of the store grow.   *)
LEMMA ShownKept ==
  ASSUME World, Shown, UNCHANGED <<shellVars, withStore>>,
         World', Len(plays') = Len(plays), DOMAIN stored' = DOMAIN stored,
         \A q \in PlayIds : /\ plays'[q].match = plays[q].match
                            /\ IsPrefix(plays[q].latest, plays'[q].latest),
         \A m \in DOMAIN stored : IsPrefix(stored[m], stored'[m])
  PROVE  Shown'
<1>1. PlayIds = 1 .. Len(plays) /\ PlayIds' = PlayIds /\ Len(plays) \in Nat
  BY DEF World, PlaysTyped, PlayIds
<1>2. ShellTypes'
  BY <1>1 DEF Shown, ShellTypes, shellVars
<1>3. session' = session /\ session.state \in Histories /\ screen' = screen /\ game' = game
  BY DEF Shown, ShellTypes, shellVars
<1>4. SessionCommitted'
  <2>1. /\ \A m \in DOMAIN stored : stored[m] \in Seq(PlayIds) /\ stored'[m] \in Seq(PlayIds)
    BY <1>1 DEF World, TablesAgree
  <2>2. Seq(PlayIds) \subseteq Seq(Nat) /\ Histories \subseteq Seq(Nat)
    <3>1. PlayIds \subseteq Nat /\ 1 .. MaxPlays \subseteq Nat
      BY <1>1
    <3> QED
      BY <3>1, LargerSeq DEF Histories
  <2>3. \A m \in DOMAIN stored : IsPrefix(session.state, stored[m]) => IsPrefix(session.state, stored'[m])
    BY <1>3, <2>1, <2>2, PrefixTransitive
  <2> QED
    BY <1>1, <1>3, <2>3 DEF Shown, SessionCommitted
<1>5. SessionFollowsItsScreen'
  <2> SUFFICES ASSUME screen = "game"
               PROVE  session.match = plays'[game].match /\ IsPrefix(session.state, plays'[game].latest)
    BY <1>3 DEF SessionFollowsItsScreen
  <2>1. game \in PlayIds
    BY <1>1 DEF Shown, ShellTypes
  <2>2. plays[game].latest \in Histories /\ plays'[game].latest \in Histories
    BY <1>1, <2>1, PlayFields DEF World, PlaysTyped, PlayIds
  <2>3. session.match = plays[game].match /\ IsPrefix(session.state, plays[game].latest)
    BY DEF Shown, SessionFollowsItsScreen
  <2> QED
    BY <1>3, <2>1, <2>2, <2>3, PrefixTransitive DEF Histories
<1> QED
  BY <1>2, <1>4, <1>5 DEF Shown

(* Nobody waits more than before, and who has reported has reported.       *)
LEMMA WaitersKept ==
  ASSUME World, WaitersBounded, plays' \in Seq(PlayRecords), Len(plays') = Len(plays),
         \A q \in PlayIds : plays'[q].waiters <= plays[q].waiters,
         \A q \in PlayIds : HasReported(q) => HasReported(q)'
  PROVE  WaitersBounded'
<1>1. PlayIds = 1 .. Len(plays) /\ PlayIds' = PlayIds /\ Len(plays) \in Nat
  BY DEF World, PlaysTyped, PlayIds
<1> SUFFICES ASSUME NEW q \in PlayIds PROVE plays'[q].waiters <= 1 + Cardinality(Settled(q)')
  BY <1>1 DEF WaitersBounded
<1>2. IsFiniteSet(PlayIds)
  <2>1. IsFiniteSet(1 .. Len(plays))
    BY <1>1, FS_Interval
  <2> QED
    BY <1>1, <2>1
<1>3. Settled(q) \subseteq Settled(q)' /\ Settled(q)' \subseteq PlayIds
  BY <1>1 DEF Settled
<1>4. /\ Cardinality(Settled(q)) \in Nat /\ Cardinality(Settled(q)') \in Nat
      /\ Cardinality(Settled(q)) <= Cardinality(Settled(q)')
  BY <1>2, <1>3, FS_Subset, FS_CardinalityType
<1>5. plays[q].waiters \in Nat /\ plays'[q].waiters \in Nat
  BY <1>1, PlayFields DEF World, PlaysTyped, PlayIds
<1>6. plays'[q].waiters <= plays[q].waiters
  OBVIOUS
<1> QED
  BY <1>4, <1>5, <1>6 DEF WaitersBounded

(* Changing one play leaves the list as long as it was, and the other      *)
(* plays alone.                                                            *)
LEMMA Replaced ==
  ASSUME NEW R, NEW s \in Seq(R), NEW p \in DOMAIN s, NEW r \in R
  PROVE  LET t == [s EXCEPT ![p] = r]
         IN  /\ t \in Seq(R) /\ Len(t) = Len(s) /\ DOMAIN t = DOMAIN s
             /\ t[p] = r /\ \A q \in DOMAIN s : q # p => t[q] = s[q]
OBVIOUS

-----------------------------------------------------------------------------
(* MatchRunner.Play.                                                       *)

(* A running play moves on without a new state.                            *)
LEMMA PlayMoved ==
  ASSUME IInv, NEW p \in PlayIds, NEW play \in PlayRecords,
         MovePlay(p, plays[p].stage, play), plays[p].stage \in Running, UNCHANGED storeVars,
         play.match = plays[p].match, play.state = plays[p].state,
         play.latest = plays[p].latest, play.left = plays[p].left,
         play.waiters = plays[p].waiters,
         play.stage \in Running => play.events = << >>
  PROVE  IInv'
<1>1. plays \in Seq(PlayRecords) /\ PlayIds = DOMAIN plays
  BY DEF IInv, World, PlaysTyped, PlayIds
<1>2. /\ plays' \in Seq(PlayRecords) /\ Len(plays') = Len(plays) /\ plays'[p] = play
      /\ \A q \in PlayIds : q # p => plays'[q] = plays[q]
  BY <1>1, Replaced DEF MovePlay
<1>3. UNCHANGED <<withStore, shellVars>>
  BY DEF MovePlay
<1>4. World' /\ PlayIds' = PlayIds
  <2>1. \A q \in PlayIds :
          /\ plays'[q].match = plays[q].match /\ plays'[q].state = plays[q].state
          /\ plays'[q].latest = plays[q].latest /\ plays'[q].left = plays[q].left
          /\ plays'[q].stage \in Running =>
               plays[q].stage \in Running /\ plays'[q].events = << >>
    BY <1>2 DEF IInv, World, PlaysTyped
  <2> QED
    BY <1>2, <1>3, <2>1, WorldKept DEF IInv
<1>5. Shown'
  <2>1. \A q \in PlayIds : plays[q].latest \in Histories
    BY <1>1, PlayFields
  <2>2. \A q \in PlayIds : IsPrefix(plays[q].latest, plays'[q].latest)
    BY <1>2, <2>1, PrefixFacts DEF Histories
  <2>3. \A m \in DOMAIN stored : IsPrefix(stored[m], stored'[m])
    BY PrefixFacts DEF IInv, World, TablesAgree, storeVars
  <2> QED
    BY <1>2, <1>3, <1>4, <2>2, <2>3, ShownKept DEF IInv, storeVars
<1>6. WaitersBounded'
  <2>1. \A q \in PlayIds : plays'[q].waiters <= plays[q].waiters
    <3>1. \A q \in PlayIds : plays'[q].waiters = plays[q].waiters /\ plays[q].waiters \in Nat
      BY <1>1, <1>2, PlayFields
    <3> QED
      BY <3>1
  <2>2. \A q \in PlayIds : HasReported(q) => HasReported(q)'
    BY <1>2 DEF HasReported, Running, Over
  <2> QED
    BY <1>2, <2>1, <2>2, WaitersKept DEF IInv
<1> QED
  BY <1>4, <1>5, <1>6 DEF IInv

(* A play that only moves to another stage keeps the rest of its record.   *)
LEMMA StageSet ==
  ASSUME NEW r \in PlayRecords, NEW st \in Running
  PROVE  LET n == [r EXCEPT !.stage = st]
         IN  /\ n \in PlayRecords /\ n.stage = st
             /\ n.match = r.match /\ n.state = r.state /\ n.latest = r.latest
             /\ n.left = r.left /\ n.events = r.events /\ n.waiters = r.waiters
BY DEF PlayRecords

(* A play that ends has its last messages to send.                         *)
LEMMA EndedFields ==
  ASSUME NEW r \in PlayRecords, NEW outcome \in {"complete", "canceled", "failed"}
  PROVE  LET n == Ended(r, outcome)
         IN  /\ n \in PlayRecords /\ n.stage = outcome /\ n.events # << >>
             /\ n.match = r.match /\ n.state = r.state /\ n.latest = r.latest
             /\ n.left = r.left /\ n.waiters = r.waiters
<1> DEFINE e == IF outcome = "canceled" THEN <<outcome>> ELSE <<"status", outcome>>
           a == [r EXCEPT !.stage = outcome]
           n == [a EXCEPT !.events = e]
<1>1. Ended(r, outcome) = n
  BY Zenon DEF Ended
<1>2. e \in Reports /\ e # << >>
  BY DEF Reports
<1>3. /\ a \in PlayRecords /\ a.stage = outcome /\ a.match = r.match /\ a.state = r.state
      /\ a.latest = r.latest /\ a.left = r.left /\ a.waiters = r.waiters
  <2>1. outcome \in Running \union Over
    BY DEF Over
  <2> QED
    BY <2>1 DEF PlayRecords
<1> HIDE DEF a, e
<1>4. /\ n \in PlayRecords /\ n.stage = outcome /\ n.events = e /\ n.match = r.match
      /\ n.state = r.state /\ n.latest = r.latest /\ n.left = r.left /\ n.waiters = r.waiters
  BY ONLY <1>2, <1>3 DEF PlayRecords
<1> QED
  BY <1>1, <1>2, <1>4

(* With a store, the match of a play is always there: it is never created. *)
LEMMA FindMatchIInv ==
  ASSUME IInv, NEW p \in PlayIds, FindMatch(p)
  PROVE  IInv' /\ UNCHANGED storeVars
<1> DEFINE play == [plays[p] EXCEPT !.stage = "collecting"]
<1>1. MovePlay(p, "starting", play)
  BY DEF FindMatch
<1>2. plays[p] \in PlayRecords /\ plays[p].stage = "starting"
  BY <1>1, PlayFields DEF IInv, World, PlaysTyped, PlayIds, MovePlay
<1>3. UNCHANGED storeVars
  BY DEF FindMatch, IInv, World, PlaysCommitted, Known
<1>4. "starting" \in Running /\ "collecting" \in Running
  BY DEF Running
<1>5. plays[p].events = << >>
  BY <1>2, <1>4 DEF IInv, World, PlaysTyped
<1>6. /\ play \in PlayRecords /\ play.stage = "collecting"
      /\ play.match = plays[p].match /\ play.state = plays[p].state
      /\ play.latest = plays[p].latest /\ play.left = plays[p].left
      /\ play.events = plays[p].events /\ play.waiters = plays[p].waiters
  BY <1>2, <1>4, StageSet
<1> HIDE DEF play
<1> QED
  BY <1>1, <1>2, <1>3, <1>4, <1>5, <1>6, PlayMoved

(* A round is collected (Collect): the play moves on, nothing is kept yet. *)
LEMMA CollectRoundIInv == ASSUME IInv, NEW p \in PlayIds, CollectRound(p) PROVE IInv'
<1> DEFINE play == [plays[p] EXCEPT !.stage = "resolving"]
<1>1. MovePlay(p, "collecting", play) /\ UNCHANGED storeVars
  BY DEF CollectRound
<1>2. plays[p] \in PlayRecords /\ plays[p].stage = "collecting"
  BY <1>1, PlayFields DEF IInv, World, PlaysTyped, PlayIds, MovePlay
<1>3. "collecting" \in Running /\ "resolving" \in Running
  BY DEF Running
<1>4. plays[p].events = << >>
  BY <1>2, <1>3 DEF IInv, World, PlaysTyped
<1>5. /\ play \in PlayRecords /\ play.stage = "resolving"
      /\ play.match = plays[p].match /\ play.state = plays[p].state
      /\ play.latest = plays[p].latest /\ play.left = plays[p].left
      /\ play.events = plays[p].events /\ play.waiters = plays[p].waiters
  BY <1>2, <1>3, StageSet
<1> HIDE DEF play
<1> QED
  BY <1>1, <1>2, <1>3, <1>4, <1>5, PlayMoved

(* A play stops or fails, with the messages that say so.                   *)
LEMMA PlayEnds ==
  ASSUME IInv, NEW p \in PlayIds, NEW outcome \in {"canceled", "failed"},
         NEW from \in Running, MovePlay(p, from, Ended(plays[p], outcome)), UNCHANGED storeVars
  PROVE  IInv'
<1>1. plays[p] \in PlayRecords /\ plays[p].stage = from
  BY PlayFields DEF IInv, World, PlaysTyped, PlayIds, MovePlay
<1> DEFINE play == Ended(plays[p], outcome)
<1>2. /\ play \in PlayRecords /\ play.stage = outcome
      /\ play.match = plays[p].match /\ play.state = plays[p].state
      /\ play.latest = plays[p].latest /\ play.left = plays[p].left
      /\ play.waiters = plays[p].waiters
  BY <1>1, EndedFields
<1>3. play.stage \notin Running
  BY <1>2 DEF Running
<1> HIDE DEF play
<1>4. MovePlay(p, from, play)
  BY DEF play
<1> QED
  BY <1>1, <1>2, <1>3, <1>4, PlayMoved

(* A play whose context is cancelled while it collects ends (Play).        *)
LEMMA CollectStopsIInv == ASSUME IInv, NEW p \in PlayIds, CollectStops(p) PROVE IInv'
BY PlayEnds DEF CollectStops, Running

(* A play whose collection fails ends and reports it (Play).               *)
LEMMA CollectFailsIInv == ASSUME IInv, NEW p \in PlayIds, CollectFails(p) PROVE IInv'
BY PlayEnds DEF CollectFails, Running

(* A play whose commit is refused ends and reports it (Play).              *)
LEMMA CommitFailsIInv == ASSUME IInv, NEW p \in PlayIds, CommitFails(p) PROVE IInv'
BY PlayEnds DEF CommitFails, Running

(* The play after a round has been resolved.                               *)
LEMMA ProceededFields ==
  ASSUME SessionAssumption, NEW r \in PlayRecords, NEW next \in Histories,
         r.left > 0, r.events = << >>
  PROVE  LET n == Proceeded(r, next)
         IN  /\ n \in PlayRecords /\ n.stage \in {"collecting", "complete"}
             /\ n.match = r.match /\ n.state = next /\ n.latest = next
             /\ n.left = r.left - 1 /\ n.waiters = r.waiters
             /\ n.stage \in Running => n.left > 0 /\ n.events = << >>
<1> DEFINE a == [r EXCEPT !.state = next]
           b == [a EXCEPT !.latest = next]
           on == [b EXCEPT !.left = r.left - 1]
<1>1. Proceeded(r, next) = IF r.left = 1 THEN Ended(on, "complete") ELSE [on EXCEPT !.stage = "collecting"]
  BY Zenon DEF Proceeded
<1>2. /\ a \in PlayRecords /\ a.state = next /\ a.match = r.match /\ a.left = r.left
      /\ a.waiters = r.waiters /\ a.events = r.events
  BY DEF PlayRecords
<1>3. r.left - 1 \in 0 .. RoundsToPlay /\ RoundsToPlay \in Nat /\ r.left \in Nat
  BY DEF PlayRecords, SessionAssumption
<1> HIDE DEF a
<1>4. /\ b \in PlayRecords /\ b.state = next /\ b.latest = next /\ b.match = r.match
      /\ b.left = r.left /\ b.waiters = r.waiters /\ b.events = r.events
  BY <1>2 DEF PlayRecords
<1> HIDE DEF b
<1>5. /\ on \in PlayRecords /\ on.state = next /\ on.latest = next /\ on.match = r.match
      /\ on.left = r.left - 1 /\ on.waiters = r.waiters /\ on.events = r.events
  BY <1>3, <1>4 DEF PlayRecords
<1> HIDE DEF on
<1>6. CASE r.left = 1
  <2>1. Proceeded(r, next) = Ended(on, "complete")
    BY <1>1, <1>6
  <2>2. "complete" \notin Running
    BY DEF Running
  <2> QED
    BY <1>5, <2>1, <2>2, EndedFields
<1>7. CASE r.left # 1
  <2>1. Proceeded(r, next) = [on EXCEPT !.stage = "collecting"]
    BY <1>1, <1>7
  <2>2. "collecting" \in Running
    BY DEF Running
  <2>3. on.left > 0 /\ on.events = << >>
    BY <1>3, <1>5, <1>7
  <2> QED
    BY <1>5, <2>1, <2>2, <2>3, StageSet
<1> QED
  BY <1>6, <1>7

(* With a store, a round that is not refused extends exactly the state the *)
(* store has: what it has committed is a prefix that is not longer.        *)
LEMMA ResolvedExtendsStored ==
  ASSUME World, NEW p \in PlayIds, withStore, ~Refuses(plays[p].match, Resolved(p))
  PROVE  stored[plays[p].match] = plays[p].state
<1> DEFINE m == plays[p].match
<1>1. /\ plays \in Seq(PlayRecords) /\ PlayIds = DOMAIN plays /\ PlayIds = 1 .. Len(plays)
      /\ Len(plays) \in Nat /\ m \in DOMAIN stored /\ IsPrefix(plays[p].state, stored[m])
  BY DEF World, PlaysTyped, PlaysCommitted, PlayIds
<1>2. plays[p].state \in Seq(Nat) /\ stored[m] \in Seq(Nat)
  <2>1. plays[p].state \in Histories /\ stored[m] \in Seq(PlayIds)
    BY <1>1, PlayFields DEF World, TablesAgree
  <2>2. PlayIds \subseteq Nat /\ 1 .. MaxPlays \subseteq Nat
    BY <1>1
  <2> QED
    BY <2>1, <2>2, LargerSeq DEF Histories
<1>3. rounds[m] = [i \in DOMAIN stored[m] |-> Row(stored[m], i)]
  BY <1>1 DEF World, TablesAgree, History
<1> HIDE DEF m
<1>4. \A i \in DOMAIN stored[m] : i < Len(plays[p].state) + 1
  BY <1>2, <1>3 DEF Refuses, Resolved, Row, m
<1>5. Len(plays[p].state) >= Len(stored[m])
  <2>1. Len(stored[m]) \in Nat /\ DOMAIN stored[m] = 1 .. Len(stored[m]) /\ Len(plays[p].state) \in Nat
    BY <1>2
  <2>2. CASE Len(stored[m]) = 0
    BY <2>1, <2>2
  <2>3. CASE Len(stored[m]) # 0
    <3>1. Len(stored[m]) \in DOMAIN stored[m]
      BY <2>1, <2>3
    <3>2. Len(stored[m]) < Len(plays[p].state) + 1
      BY <1>4, <3>1
    <3> QED
      BY <2>1, <3>2
  <2> QED
    BY <2>2, <2>3
<1> QED
  BY <1>1, <1>2, <1>5, PrefixFacts DEF m

(* Sequences that agree at every index are equal.                          *)
LEMMA SameSequence ==
  ASSUME NEW R, NEW a \in Seq(R), NEW b \in Seq(R), Len(a) = Len(b),
         \A i \in 1 .. Len(a) : a[i] = b[i]
  PROVE  a = b
OBVIOUS

(* Rows of a history, and snapshots, with one round more.                  *)
LEMMA HistoryTyped ==
  ASSUME NEW S, NEW s \in Seq(S)
  PROVE  History(s) \in Seq([number : Nat, by : S]) /\ Len(History(s)) = Len(s)
<1>1. DOMAIN s = 1 .. Len(s) /\ Len(s) \in Nat /\ \A i \in 1 .. Len(s) : s[i] \in S
  OBVIOUS
<1> QED
  BY <1>1 DEF History, Row

(* Appending the row of a round to the history of a state gives the        *)
(* history of the next state (CommitRound's insert into rounds).           *)
LEMMA HistoryAppend ==
  ASSUME NEW S, NEW s \in Seq(S), NEW e \in S, NEW next, next = Append(s, e)
  PROVE  Append(History(s), Row(next, Len(next))) = History(next)
<1> DEFINE old == [i \in DOMAIN s |-> Row(s, i)]
           new == [i \in DOMAIN next |-> Row(next, i)]
<1>1. /\ next \in Seq(S) /\ Len(next) = Len(s) + 1 /\ DOMAIN next = 1 .. Len(s) + 1
      /\ DOMAIN s = 1 .. Len(s) /\ Len(s) \in Nat
      /\ \A i \in 1 .. Len(s) : next[i] = s[i]
  OBVIOUS
<1>2. old \in Seq([number : Nat, by : S]) /\ Len(old) = Len(s)
  BY <1>1 DEF Row
<1>3. Row(next, Len(next)) \in [number : Nat, by : S]
  BY <1>1 DEF Row
<1>4. \A i \in 1 .. Len(s) : Row(s, i) = Row(next, i)
  BY <1>1 DEF Row
<1> DEFINE row == Row(next, Len(next))
           R == [number : Nat, by : S]
           longer == Append(old, row)
<1>5. \A i \in 1 .. Len(s) : old[i] = Row(next, i)
  BY <1>1, <1>4
<1>6. \A i \in 1 .. Len(s) + 1 : new[i] = Row(next, i)
  BY <1>1
<1>7. new \in Seq([number : Nat, by : S]) /\ Len(new) = Len(s) + 1
  BY <1>1 DEF Row
<1> HIDE DEF R, row, old, new
<1>8. old \in Seq(R) /\ row \in R /\ Len(old) = Len(s)
  BY <1>2, <1>3 DEF R, row
<1>9. /\ longer \in Seq(R) /\ Len(longer) = Len(s) + 1 /\ longer[Len(s) + 1] = row
      /\ \A i \in 1 .. Len(s) : longer[i] = old[i]
  BY <1>1, <1>8
<1>10. \A i \in 1 .. Len(s) + 1 : longer[i] = new[i]
  BY <1>1, <1>5, <1>6, <1>9 DEF row
<1>11. longer = new
  BY <1>7, <1>9, <1>10, SameSequence DEF R
<1> QED
  BY <1>1, <1>11 DEF old, new, row, History

(* The snapshots stay a sequence of states, whether one is replaced or a   *)
(* new one appended.                                                       *)
LEMMA UpsertTyped ==
  ASSUME NEW S, NEW rows \in Seq(S), NEW next \in S
  PROVE  UpsertSnapshot(rows, next) \in Seq(S)
<1>1. [i \in DOMAIN rows |-> IF CurrentRound(rows[i]) = CurrentRound(next) THEN next ELSE rows[i]] \in Seq(S)
  <2> HIDE DEF CurrentRound
  <2> QED OBVIOUS
<1> QED
  BY <1>1 DEF UpsertSnapshot

(* What the resolution of a round changes, with and without a store.       *)
LEMMA ResolveRoundEffect ==
  ASSUME IInv, NEW p \in PlayIds, ResolveRound(p)
  PROVE  LET m == plays[p].match
             next == Append(plays[p].state, p)
         IN  /\ UNCHANGED <<withStore, shellVars, slots>>
             /\ plays \in Seq(PlayRecords) /\ plays' \in Seq(PlayRecords)
             /\ Len(plays) \in Nat /\ Len(plays') = Len(plays)
             /\ \A q \in PlayIds : q # p => plays'[q] = plays[q]
             /\ plays'[p].match = m /\ plays'[p].state = next /\ plays'[p].latest = next
             /\ plays'[p].waiters = plays[p].waiters
             /\ plays[p].left \in Nat \ {0} /\ plays'[p].left = plays[p].left - 1
             /\ plays[p].stage \in Running
             /\ plays'[p].stage \in Running => plays'[p].left > 0 /\ plays'[p].events = << >>
             /\ plays[p].state \in Histories /\ next \in Histories
             /\ ~withStore => UNCHANGED storeVars
             /\ withStore => /\ m \in DOMAIN stored /\ stored[m] = plays[p].state
                             /\ CommitRound(m, next)
<1>1. plays \in Seq(PlayRecords) /\ PlayIds = DOMAIN plays /\ PlayIds = 1 .. Len(plays)
      /\ Len(plays) \in Nat /\ Len(plays) <= MaxPlays /\ MaxPlays \in Nat
  BY SessionAssumption DEF IInv, World, PlaysTyped, PlayIds
<1>2. /\ plays[p] \in PlayRecords /\ plays[p].state \in Histories
      /\ plays[p].stage \in Running /\ plays[p].left > 0 /\ plays[p].left \in Nat
      /\ plays[p].events = << >>
  <2>1. plays[p].stage = "resolving"
    BY DEF ResolveRound, MovePlay
  <2>2. plays[p].stage \in Running
    BY <2>1 DEF Running
  <2> QED
    BY <1>1, <2>2, PlayFields DEF IInv, World, PlaysTyped
<1>3. Append(plays[p].state, p) \in Histories
  BY <1>1, <1>2 DEF Histories
<1> DEFINE next == Append(plays[p].state, p)
           play == Proceeded(plays[p], next)
<1>4. /\ play \in PlayRecords /\ play.match = plays[p].match /\ play.state = next
      /\ play.latest = next /\ play.left = plays[p].left - 1
      /\ play.waiters = plays[p].waiters
      /\ play.stage \in Running => play.left > 0 /\ play.events = << >>
  BY <1>2, <1>3, ProceededFields, SessionAssumption
<1>5. MovePlay(p, "resolving", play)
  BY DEF ResolveRound, Resolved
<1> HIDE DEF next, play
<1>6. /\ plays' \in Seq(PlayRecords) /\ Len(plays') = Len(plays) /\ plays'[p] = play
      /\ \A q \in PlayIds : q # p => plays'[q] = plays[q]
  BY <1>1, <1>4, <1>5, Replaced DEF MovePlay
<1>7. UNCHANGED <<withStore, shellVars>>
  BY <1>5 DEF MovePlay
<1>8. ~withStore => UNCHANGED storeVars
  BY DEF ResolveRound
<1>9. withStore => /\ plays[p].match \in DOMAIN stored /\ stored[plays[p].match] = plays[p].state
                   /\ CommitRound(plays[p].match, next)
  BY ResolvedExtendsStored DEF ResolveRound, Resolved, next, IInv, World, PlaysCommitted
<1>10. UNCHANGED slots
  BY <1>8, <1>9 DEF storeVars, CommitRound, IInv, World
<1> QED
  BY <1>1, <1>2, <1>3, <1>4, <1>6, <1>7, <1>8, <1>9, <1>10 DEF next

(* A round is resolved (ResolveRound): the state of the play is one round  *)
(* longer than what it has kept, until the commit.                         *)
LEMMA ResolveRoundIInv == ASSUME IInv, NEW p \in PlayIds, ResolveRound(p) PROVE IInv'
<1> DEFINE m == plays[p].match
           next == Append(plays[p].state, p)
<1>1. /\ UNCHANGED <<withStore, shellVars, slots>>
      /\ plays \in Seq(PlayRecords) /\ plays' \in Seq(PlayRecords)
      /\ Len(plays) \in Nat /\ Len(plays') = Len(plays)
      /\ \A q \in PlayIds : q # p => plays'[q] = plays[q]
      /\ plays'[p].match = m /\ plays'[p].state = next /\ plays'[p].latest = next
      /\ plays'[p].waiters = plays[p].waiters
      /\ plays[p].left \in Nat \ {0} /\ plays'[p].left = plays[p].left - 1
      /\ plays[p].stage \in Running
      /\ plays'[p].stage \in Running => plays'[p].left > 0 /\ plays'[p].events = << >>
  BY ResolveRoundEffect
<1>2. /\ plays[p].state \in Histories /\ next \in Histories
      /\ ~withStore => UNCHANGED storeVars
      /\ withStore => /\ m \in DOMAIN stored /\ stored[m] = plays[p].state
                      /\ CommitRound(m, next)
  BY ResolveRoundEffect
<1>3. /\ PlayIds = DOMAIN plays /\ PlayIds = 1 .. Len(plays) /\ PlayIds' = PlayIds
      /\ Len(plays) <= MaxPlays /\ withStore' = withStore
  BY <1>1 DEF IInv, World, PlaysTyped, PlayIds
<1>4. /\ DOMAIN stored' = DOMAIN stored /\ stored \in [DOMAIN stored -> Seq(PlayIds)]
      /\ \A n \in DOMAIN stored : stored'[n] = IF withStore /\ n = m THEN next ELSE stored[n]
      /\ withStore => next \in Seq(PlayIds)
      /\ stored' \in [DOMAIN stored -> Seq(PlayIds)]
  <2>1. stored \in [DOMAIN stored -> Seq(PlayIds)]
    BY DEF IInv, World, TablesAgree
  <2>2. CASE withStore
    <3>1. stored' = [stored EXCEPT ![m] = next] /\ m \in DOMAIN stored /\ stored[m] = plays[p].state
      BY <1>2, <2>2 DEF CommitRound
    <3>2. next \in Seq(PlayIds)
      BY <2>1, <3>1
    <3> HIDE DEF m, next
    <3> QED
      BY <2>1, <2>2, <3>1, <3>2
  <2>3. CASE ~withStore
    BY <1>2, <2>1, <2>3 DEF storeVars
  <2> QED
    BY <2>2, <2>3
<1>5. TablesAgree'
  <2>1. CASE ~withStore
    BY <1>2, <1>3, <2>1 DEF IInv, World, TablesAgree, storeVars, Histories, History, Row
  <2>2. CASE withStore
    <3>1. /\ rounds' = [rounds EXCEPT ![m] = Append(@, Row(next, Len(next)))]
          /\ snapshots' = [snapshots EXCEPT ![m] = UpsertSnapshot(@, next)]
          /\ m \in DOMAIN stored /\ stored[m] = plays[p].state
      BY <1>2, <2>2 DEF CommitRound
    <3>2. /\ rounds = [n \in DOMAIN stored |-> History(stored[n])]
          /\ snapshots \in [DOMAIN stored -> Seq(Histories)] /\ DOMAIN stored \subseteq Matches
      BY DEF IInv, World, TablesAgree
    <3>3. plays[p].state \in Seq(PlayIds) /\ p \in PlayIds
      BY <1>4, <3>1
    <3>4. Append(History(stored[m]), Row(next, Len(next))) = History(next)
      <4>1. next = Append(stored[m], p) /\ stored[m] \in Seq(PlayIds)
        BY <3>1, <3>3 DEF next
      <4> HIDE DEF m
      <4> QED
        BY <3>3, <4>1, HistoryAppend
    <3>5. UpsertSnapshot(snapshots[m], next) \in Seq(Histories)
      BY <1>2, <3>1, <3>2, UpsertTyped
    <3> HIDE DEF m, next
    <3>9. rounds' = [n \in DOMAIN stored |-> History(stored'[n])]
      BY <1>4, <2>2, <3>1, <3>2, <3>4
    <3>10. snapshots' \in [DOMAIN stored -> Seq(Histories)]
      BY <3>1, <3>2, <3>5
    <3> QED
      BY <1>3, <1>4, <3>2, <3>9, <3>10 DEF TablesAgree, Histories
  <2> QED
    BY <2>1, <2>2
<1>6. SlotsKnown'
  BY <1>1, <1>4 DEF IInv, World, SlotsKnown
<1>7. PlaysTyped'
  BY <1>1, <1>3 DEF IInv, World, PlaysTyped
<1>8. \A s \in Seq(Nat) : IsPrefix(s, s)
  BY PrefixFacts
<1>9. \A n \in DOMAIN stored : stored[n] \in Seq(Nat)
  <2>1. PlayIds \subseteq Nat
    BY <1>1, <1>3
  <2> QED
    BY <1>4, <2>1, LargerSeq
<1>10. \A q \in PlayIds : plays[q].state \in Seq(Nat) /\ plays[q].latest = plays[q].state
  <2>1. 1 .. MaxPlays \subseteq Nat
    OBVIOUS
  <2>2. \A q \in PlayIds : plays[q].state \in Histories
    BY <1>1, <1>3, PlayFields
  <2> QED
    BY <2>1, <2>2, LargerSeq DEF Histories, IInv, World, PlaysTyped
<1>11. /\ next \in Seq(Nat) /\ IsPrefix(plays[p].state, next) /\ IsPrefix(next, next)
       /\ Len(next) = Len(plays[p].state) + 1 /\ Len(plays[p].state) \in Nat
  <2>1. plays[p].state \in Seq(Nat) /\ p \in Nat
    BY <1>3, <1>10
  <2>2. IsPrefix(plays[p].state, plays[p].state)
    BY <2>1, PrefixFacts
  <2>3. next \in Seq(Nat) /\ Len(next) = Len(plays[p].state) + 1 /\ Len(plays[p].state) \in Nat
    BY <2>1
  <2>4. IsPrefix(plays[p].state, next)
    BY <2>1, <2>2, PrefixFacts
  <2> HIDE DEF next
  <2> QED
    BY <2>3, <2>4, PrefixFacts
<1> HIDE DEF next
<1>12. \A n \in DOMAIN stored : IsPrefix(stored[n], stored'[n])
  BY <1>2, <1>4, <1>8, <1>9, <1>11
<1>13. PlaysCommitted'
  <2> SUFFICES ASSUME withStore, NEW q \in PlayIds
               PROVE  /\ plays'[q].match \in DOMAIN stored
                      /\ IsPrefix(plays'[q].state, stored'[plays'[q].match])
    BY <1>3, <1>4 DEF PlaysCommitted
  <2>1. CASE q = p
    BY <1>1, <1>2, <1>4, <1>11, <2>1
  <2>2. CASE q # p
    <3>1. plays'[q] = plays[q] /\ plays[q].match \in DOMAIN stored
          /\ IsPrefix(plays[q].state, stored[plays[q].match])
      BY <1>1, <2>2 DEF IInv, World, PlaysCommitted
    <3>2. stored'[plays[q].match] \in Seq(Nat)
      BY <1>4, <1>9, <1>11, <3>1
    <3> QED
      BY <1>9, <1>10, <1>12, <3>1, <3>2, PrefixTransitive
  <2> QED
    BY <2>1, <2>2
<1>14. WithinRounds'
  <2>1. /\ Len(plays[p].state) + plays[p].left <= p * RoundsToPlay
        /\ p * RoundsToPlay <= Len(plays) * RoundsToPlay /\ p * RoundsToPlay \in Nat
        /\ Len(plays) * RoundsToPlay \in Nat
    <3>1. p \in Nat /\ p <= Len(plays) /\ Len(plays) \in Nat /\ RoundsToPlay \in Nat
      BY <1>1, <1>3, SessionAssumption
    <3>2. /\ p * RoundsToPlay <= Len(plays) * RoundsToPlay
          /\ p * RoundsToPlay \in Nat /\ Len(plays) * RoundsToPlay \in Nat
      BY <3>1, BoundsGrow
    <3> QED
      BY <3>2 DEF IInv, World, WithinRounds
  <2>4. /\ plays[p].left \in Nat /\ plays[p].left > 0 /\ plays'[p].left = plays[p].left - 1
        /\ plays'[p].state = next
    BY <1>1
  <2>2. \A q \in PlayIds : Len(plays'[q].state) + plays'[q].left <= q * RoundsToPlay
    <3> SUFFICES ASSUME NEW q \in PlayIds
                 PROVE  Len(plays'[q].state) + plays'[q].left <= q * RoundsToPlay
      OBVIOUS
    <3>1. CASE q = p
      <4>1. Len(plays'[p].state) + plays'[p].left = Len(plays[p].state) + plays[p].left
        <5>1. Len(plays'[p].state) = Len(plays[p].state) + 1
          BY <1>11, <2>4
        <5>2. /\ Len(plays[p].state) \in Nat /\ plays[p].left \in Nat
              /\ plays'[p].left = plays[p].left - 1
          BY <1>11, <2>4
        <5> QED
          BY ONLY <5>1, <5>2
      <4> QED
        BY <2>1, <3>1, <4>1
    <3>2. CASE q # p
      BY <1>1, <3>2 DEF IInv, World, WithinRounds
    <3> QED
      BY <3>1, <3>2
  <2>3. \A n \in DOMAIN stored : Len(stored'[n]) <= Len(plays) * RoundsToPlay
    <3>1. Len(next) <= Len(plays) * RoundsToPlay
      BY <1>11, <2>1, <2>4
    <3> QED
      BY <1>4, <3>1 DEF IInv, World, WithinRounds
  <2> QED
    BY <1>1, <1>3, <1>4, <2>2, <2>3 DEF WithinRounds
<1>15. World'
  BY <1>3, <1>5, <1>6, <1>7, <1>13, <1>14 DEF IInv, World
<1>16. Shown'
  <2>1. \A q \in PlayIds : /\ plays'[q].match = plays[q].match
                           /\ IsPrefix(plays[q].latest, plays'[q].latest)
    BY <1>1, <1>8, <1>10, <1>11
  <2> QED
    BY <1>1, <1>4, <1>12, <1>15, <2>1, ShownKept DEF IInv
<1>17. WaitersBounded'
  <2>1. \A q \in PlayIds : plays'[q].waiters = plays[q].waiters /\ plays[q].waiters \in Nat
    BY <1>1, <1>3, PlayFields
  <2>2. \A q \in PlayIds : plays'[q].waiters <= plays[q].waiters
    BY <2>1
  <2>3. \A q \in PlayIds : HasReported(q) => HasReported(q)'
    BY <1>1 DEF HasReported, Running, Over
  <2> QED
    BY <1>1, <2>2, <2>3, WaitersKept DEF IInv
<1> QED
  BY <1>15, <1>16, <1>17 DEF IInv


-----------------------------------------------------------------------------
(* The message loop of the shell.                                          *)

LEMMA ReportsShrink ==
  ASSUME NEW e \in Reports, e # << >>
  PROVE  /\ Tail(e) \in Reports
         /\ Head(e) \in {"complete", "canceled"} => Tail(e) = << >>
<1>1. \A a : Tail(<<a>>) = << >>
  OBVIOUS
<1>2. \A a, b : Head(<<a, b>>) = a /\ Tail(<<a, b>>) = <<b>>
  OBVIOUS
<1>3. CASE e \in {<<"complete">>, <<"canceled">>, <<"failed">>}
  <2>1. Tail(e) = << >>
    BY <1>1, <1>3
  <2> QED
    BY <2>1 DEF Reports
<1>4. CASE e \in {<<"status", "complete">>, <<"status", "failed">>}
  <2>1. Head(e) = "status" /\ Tail(e) \in {<<"complete">>, <<"failed">>}
    BY <1>2, <1>4, Zenon
  <2> QED
    BY <2>1 DEF Reports
<1> QED
  BY <1>3, <1>4 DEF Reports

(* One command less waits for the play, and one message less.              *)
LEMMA WaiterSet ==
  ASSUME NEW s \in Seq(PlayRecords), NEW p \in DOMAIN s, NEW n \in Nat
  PROVE  LET t == [s EXCEPT ![p].waiters = n]
         IN  /\ t \in Seq(PlayRecords) /\ Len(t) = Len(s) /\ DOMAIN t = DOMAIN s
             /\ t[p].waiters = n /\ t[p].events = s[p].events
             /\ t[p].match = s[p].match /\ t[p].state = s[p].state /\ t[p].latest = s[p].latest
             /\ t[p].left = s[p].left /\ t[p].stage = s[p].stage
             /\ \A q \in DOMAIN s : q # p => t[q] = s[q]
<1> DEFINE r == [s[p] EXCEPT !.waiters = n]
           t == [s EXCEPT ![p] = r]
<1>1. s[p] \in PlayRecords
  OBVIOUS
<1>2. /\ r \in PlayRecords /\ r.waiters = n /\ r.events = s[p].events
      /\ r.match = s[p].match /\ r.state = s[p].state /\ r.latest = s[p].latest
      /\ r.left = s[p].left /\ r.stage = s[p].stage
  BY <1>1 DEF PlayRecords
<1>3. [s EXCEPT ![p].waiters = n] = t
  BY Zenon
<1> HIDE DEF r
<1>4. /\ t \in Seq(PlayRecords) /\ Len(t) = Len(s) /\ DOMAIN t = DOMAIN s
      /\ t[p] = r /\ \A q \in DOMAIN s : q # p => t[q] = s[q]
  BY <1>2, Replaced
<1> HIDE DEF t
<1> QED
  BY <1>2, <1>3, <1>4

(* A command that waits takes the first message of its play and leaves the *)
(* rest of the record alone.                                               *)
LEMMA TakenFields ==
  ASSUME World, NEW p \in PlayIds, plays[p].waiters > 0, plays[p].events # << >>
  PROVE  LET t == Taken(p)
         IN  /\ t \in Seq(PlayRecords) /\ Len(t) = Len(plays) /\ DOMAIN t = DOMAIN plays
             /\ t[p].waiters = plays[p].waiters - 1 /\ t[p].events = Tail(plays[p].events)
             /\ t[p].match = plays[p].match /\ t[p].state = plays[p].state
             /\ t[p].latest = plays[p].latest
             /\ t[p].left = plays[p].left /\ t[p].stage = plays[p].stage
             /\ \A q \in DOMAIN plays : q # p => t[q] = plays[q]
<1> DEFINE r == [plays[p] EXCEPT !.events = Tail(plays[p].events)]
           a == [plays EXCEPT ![p] = r]
           n == plays[p].waiters - 1
<1>1. plays \in Seq(PlayRecords) /\ plays[p] \in PlayRecords /\ p \in DOMAIN plays
  BY DEF World, PlaysTyped, PlayIds
<1>2. plays[p].events \in Reports /\ plays[p].waiters \in Nat /\ n \in Nat
  BY <1>1, PlayFields
<1>3. Tail(plays[p].events) \in Reports
  BY <1>2, ReportsShrink
<1>4. /\ r \in PlayRecords /\ r.waiters = plays[p].waiters /\ r.events = Tail(plays[p].events)
      /\ r.match = plays[p].match /\ r.state = plays[p].state /\ r.latest = plays[p].latest
      /\ r.left = plays[p].left /\ r.stage = plays[p].stage
  BY <1>1, <1>3 DEF PlayRecords
<1> HIDE DEF r
<1>5. /\ a \in Seq(PlayRecords) /\ Len(a) = Len(plays) /\ DOMAIN a = DOMAIN plays
      /\ a[p] = r /\ \A q \in DOMAIN plays : q # p => a[q] = plays[q]
  BY <1>1, <1>4, Replaced
<1>6. Taken(p) = [a EXCEPT ![p].waiters = a[p].waiters - 1]
  BY Zenon DEF Taken, r
<1> HIDE DEF a
<1>7. a[p].waiters - 1 = n /\ p \in DOMAIN a
  BY <1>1, <1>4, <1>5
<1>8. Taken(p) = [a EXCEPT ![p].waiters = n]
  BY <1>6, <1>7
<1> HIDE DEF n
<1> DEFINE t == [a EXCEPT ![p].waiters = n]
<1>9. /\ t \in Seq(PlayRecords) /\ Len(t) = Len(a) /\ DOMAIN t = DOMAIN a
      /\ t[p].waiters = n /\ t[p].events = a[p].events
      /\ t[p].match = a[p].match /\ t[p].state = a[p].state /\ t[p].latest = a[p].latest
      /\ t[p].left = a[p].left /\ t[p].stage = a[p].stage
      /\ \A q \in DOMAIN a : q # p => t[q] = a[q]
  BY <1>2, <1>5, <1>7, WaiterSet
<1> HIDE DEF t
<1>10. Taken(p) = t
  BY <1>8 DEF t
<1> QED
  BY <1>4, <1>5, <1>9, <1>10 DEF n


(* Messages are taken and channels found closed, and nothing else happens. *)
LEMMA WaitersLeave ==
  ASSUME IInv, UNCHANGED <<storeVars, withStore, shellVars>>,
         plays' \in Seq(PlayRecords), Len(plays') = Len(plays),
         \A q \in PlayIds :
           /\ plays'[q].match = plays[q].match /\ plays'[q].state = plays[q].state
           /\ plays'[q].latest = plays[q].latest /\ plays'[q].left = plays[q].left
           /\ plays'[q].stage = plays[q].stage /\ plays'[q].waiters <= plays[q].waiters
           /\ plays[q].events = << >> => plays'[q].events = << >>
  PROVE  IInv'
<1>1. World'
  <2>1. \A q \in PlayIds : plays'[q].stage \in Running =>
               plays[q].stage \in Running /\ plays'[q].events = << >>
    BY DEF IInv, World, PlaysTyped
  <2> QED
    BY <2>1, WorldKept DEF IInv
<1>2. Shown'
  <2>1. \A q \in PlayIds : plays[q].latest \in Histories
    BY PlayFields DEF IInv, World, PlaysTyped, PlayIds
  <2>2. \A q \in PlayIds : IsPrefix(plays[q].latest, plays[q].latest)
    BY <2>1, PrefixFacts DEF Histories
  <2>3. \A q \in PlayIds : /\ plays'[q].match = plays[q].match
                           /\ IsPrefix(plays[q].latest, plays'[q].latest)
    BY <2>2
  <2>4. \A m \in DOMAIN stored : IsPrefix(stored[m], stored'[m])
    BY PrefixFacts DEF IInv, World, TablesAgree, storeVars
  <2> QED
    BY <1>1, <2>3, <2>4, ShownKept DEF IInv, storeVars
<1>3. WaitersBounded'
  <2>1. \A q \in PlayIds : HasReported(q) => HasReported(q)'
    BY DEF HasReported
  <2> QED
    BY <2>1, WaitersKept DEF IInv
<1> QED
  BY <1>1, <1>2, <1>3 DEF IInv

(* A message that is taken and changes nothing else: progress within a     *)
(* round.                                                                  *)
LEMMA MessageTakenIInv ==
  ASSUME IInv, NEW p \in PlayIds, plays[p].waiters > 0, plays[p].events # << >>,
         plays' = Taken(p), UNCHANGED <<storeVars, withStore, shellVars>>
  PROVE  IInv'
<1>1. plays \in Seq(PlayRecords) /\ PlayIds = DOMAIN plays
  BY DEF IInv, World, PlaysTyped, PlayIds
<1>2. /\ plays' \in Seq(PlayRecords) /\ Len(plays') = Len(plays)
      /\ plays'[p].waiters = plays[p].waiters - 1 /\ plays'[p].events = Tail(plays[p].events)
      /\ plays'[p].match = plays[p].match /\ plays'[p].state = plays[p].state
      /\ plays'[p].latest = plays[p].latest
      /\ plays'[p].left = plays[p].left /\ plays'[p].stage = plays[p].stage
      /\ \A q \in PlayIds : q # p => plays'[q] = plays[q]
  BY <1>1, TakenFields DEF IInv
<1>3. \A q \in PlayIds : plays[q].waiters \in Nat
  BY <1>1, PlayFields
<1>4. \A q \in PlayIds :
           /\ plays'[q].match = plays[q].match /\ plays'[q].state = plays[q].state
           /\ plays'[q].latest = plays[q].latest /\ plays'[q].left = plays[q].left
           /\ plays'[q].stage = plays[q].stage /\ plays'[q].waiters <= plays[q].waiters
           /\ plays[q].events = << >> => plays'[q].events = << >>
  BY <1>2, <1>3
<1> QED
  BY <1>2, <1>4, WaitersLeave

(* A command that finds the channel of an ended play closed goes away.     *)
LEMMA EventsClosedIInv == ASSUME IInv, NEW p \in PlayIds, EventsClosed(p) PROVE IInv'
<1> DEFINE n == plays[p].waiters - 1
<1>1. plays \in Seq(PlayRecords) /\ PlayIds = DOMAIN plays
  BY DEF IInv, World, PlaysTyped, PlayIds
<1>2. n \in Nat /\ n <= plays[p].waiters /\ \A q \in PlayIds : plays[q].waiters \in Nat
  BY <1>1, PlayFields DEF EventsClosed
<1>3. plays' = [plays EXCEPT ![p].waiters = n]
  BY Zenon DEF EventsClosed
<1> HIDE DEF n
<1>4. /\ plays' \in Seq(PlayRecords) /\ Len(plays') = Len(plays)
      /\ plays'[p].waiters = n /\ plays'[p].events = plays[p].events
      /\ plays'[p].match = plays[p].match /\ plays'[p].state = plays[p].state
      /\ plays'[p].latest = plays[p].latest
      /\ plays'[p].left = plays[p].left /\ plays'[p].stage = plays[p].stage
      /\ \A q \in PlayIds : q # p => plays'[q] = plays[q]
  BY <1>1, <1>2, <1>3, WaiterSet
<1>5. \A q \in PlayIds :
           /\ plays'[q].match = plays[q].match /\ plays'[q].state = plays[q].state
           /\ plays'[q].latest = plays[q].latest /\ plays'[q].left = plays[q].left
           /\ plays'[q].stage = plays[q].stage /\ plays'[q].waiters <= plays[q].waiters
           /\ plays[q].events = << >> => plays'[q].events = << >>
  BY <1>2, <1>4
<1> QED
  BY <1>4, <1>5, WaitersLeave DEF EventsClosed

(* The process is gone: nobody waits, and no play runs.                    *)
LEMMA EndedProcess ==
  ASSUME IInv, NEW reason \in {"user", "matchFailed", "matchNotFound"}, EndProcess(reason),
         UNCHANGED <<storeVars, withStore>>
  PROVE  IInv'
<1> DEFINE n(q) == [plays[q] EXCEPT !.events = << >>, !.waiters = 0,
                                   !.stage = IF plays[q].stage \in Running THEN "killed"
                                             ELSE plays[q].stage]
<1>1. /\ plays \in Seq(PlayRecords) /\ PlayIds = DOMAIN plays /\ PlayIds = 1 .. Len(plays)
      /\ Len(plays) \in Nat
  BY DEF IInv, World, PlaysTyped, PlayIds
<1>2. plays' = [q \in PlayIds |-> n(q)]
  BY Zenon DEF EndProcess
<1>3. ASSUME NEW q \in PlayIds
      PROVE  /\ n(q) \in PlayRecords /\ n(q).events = << >> /\ n(q).waiters = 0
             /\ n(q).stage \notin Running /\ n(q).stage \in Over
             /\ n(q).match = plays[q].match /\ n(q).state = plays[q].state
             /\ n(q).latest = plays[q].latest /\ n(q).left = plays[q].left
  <2> DEFINE r == plays[q]
             st == IF r.stage \in Running THEN "killed" ELSE r.stage
             a == [r EXCEPT !.events = << >>]
             b == [a EXCEPT !.waiters = 0]
  <2>1. n(q) = [b EXCEPT !.stage = st]
    BY Zenon
  <2>2. r \in PlayRecords /\ r.stage \in Running \union Over
    BY <1>1, PlayFields
  <2>3. st \in Over /\ st \notin Running
    BY <2>2 DEF Running, Over
  <2> HIDE DEF r, st, n
  <2>4. /\ a \in PlayRecords /\ a.events = << >> /\ a.match = r.match /\ a.state = r.state
        /\ a.latest = r.latest /\ a.left = r.left
    BY <2>2 DEF PlayRecords, Reports
  <2> HIDE DEF a
  <2>5. /\ b \in PlayRecords /\ b.events = << >> /\ b.waiters = 0 /\ b.match = r.match
        /\ b.state = r.state /\ b.latest = r.latest /\ b.left = r.left
    BY <2>4 DEF PlayRecords
  <2> HIDE DEF b
  <2>6. /\ n(q) \in PlayRecords /\ n(q).events = << >> /\ n(q).waiters = 0 /\ n(q).stage = st
        /\ n(q).match = r.match /\ n(q).state = r.state /\ n(q).latest = r.latest
        /\ n(q).left = r.left
    BY <2>1, <2>3, <2>5 DEF PlayRecords
  <2> QED
    BY <2>3, <2>6 DEF r
<1> HIDE DEF n
<1>4. /\ plays' \in Seq(PlayRecords) /\ Len(plays') = Len(plays)
      /\ \A q \in PlayIds : plays'[q] = n(q)
  <2>1. DOMAIN plays' = 1 .. Len(plays) /\ \A q \in 1 .. Len(plays) : plays'[q] \in PlayRecords
    BY <1>1, <1>2, <1>3
  <2>2. plays' = [q \in 1 .. Len(plays) |-> n(q)]
    BY <1>1, <1>2
  <2> QED
    BY <1>1, <1>2, <1>3, <2>1, <2>2
<1>5. World' /\ PlayIds' = PlayIds
  <2>1. \A q \in PlayIds :
          /\ plays'[q].match = plays[q].match /\ plays'[q].state = plays[q].state
          /\ plays'[q].latest = plays[q].latest /\ plays'[q].left = plays[q].left
          /\ plays'[q].stage \in Running =>
               plays[q].stage \in Running /\ plays'[q].events = << >>
    BY <1>3, <1>4
  <2> QED
    BY <1>4, <2>1, WorldKept DEF IInv
<1>6. Shown'
  <2>1. screen' = "none" /\ exit' = reason /\ session' = NoSession /\ game' = 0
    BY DEF EndProcess
  <2>2. << >> \in Histories /\ Len(plays') * RoundsToPlay >= 0
    BY <1>1, <1>4, SessionAssumption, BoundsGrow DEF Histories
  <2>3. ShellTypes'
    BY <1>1, <1>5, <2>1, <2>2 DEF ShellTypes, NoSession
  <2>4. SessionCommitted' /\ SessionFollowsItsScreen'
    BY <2>1, <2>2 DEF SessionCommitted, SessionFollowsItsScreen, NoSession
  <2> QED
    BY <2>3, <2>4 DEF Shown
<1>7. WaitersBounded'
  <2>1. \A q \in PlayIds : plays'[q].waiters <= plays[q].waiters
    <3>1. \A q \in PlayIds : plays[q].waiters \in Nat /\ plays'[q].waiters = 0
      BY <1>1, <1>3, <1>4, PlayFields
    <3> QED
      BY <3>1
  <2>2. \A q \in PlayIds : HasReported(q)'
    BY <1>3, <1>4 DEF HasReported
  <2> QED
    BY <1>4, <2>1, <2>2, WaitersKept DEF IInv
<1> QED
  BY <1>5, <1>6, <1>7 DEF IInv


(* The session takes the state that the play on the screen has published.  *)
LEMMA SessionTakesGame ==
  ASSUME IInv, screen = "game", session' = [session EXCEPT !.state = plays[game].latest],
         UNCHANGED <<storeVars, withStore>>, Len(plays') = Len(plays)
  PROVE  /\ game \in PlayIds
         /\ session' \in [match : Matches \union {"none"}, state : Histories]
         /\ session'.match \in Matches /\ session'.match = plays[game].match
         /\ session'.state = plays[game].latest
         /\ SessionCommitted'
<1>1. /\ plays \in Seq(PlayRecords) /\ PlayIds = DOMAIN plays /\ PlayIds = 1 .. Len(plays)
      /\ Len(plays) \in Nat
  BY DEF IInv, World, PlaysTyped, PlayIds
<1>2. game \in PlayIds /\ game \in Nat /\ game <= Len(plays)
  BY <1>1 DEF IInv, Shown, ShellTypes
<1>3. /\ session \in [match : Matches \union {"none"}, state : Histories]
      /\ session.match = plays[game].match
  BY DEF IInv, Shown, ShellTypes, SessionFollowsItsScreen
<1>4. /\ plays[game].latest \in Histories /\ plays[game].latest = plays[game].state
      /\ plays[game].match \in Matches /\ plays[game].left \in Nat
  BY <1>1, <1>2, PlayFields DEF IInv, World, PlaysTyped
<1>5. /\ session' \in [match : Matches \union {"none"}, state : Histories]
      /\ session'.match = session.match /\ session'.state = plays[game].latest
  BY <1>3, <1>4
<1>6. Len(session'.state) <= Len(plays') * RoundsToPlay
  <2>1. RoundsToPlay \in Nat
    BY SessionAssumption
  <2>2. game * RoundsToPlay <= Len(plays) * RoundsToPlay
    BY <1>1, <1>2, <2>1, BoundsGrow
  <2>3. Len(plays[game].state) + plays[game].left <= game * RoundsToPlay
    BY <1>2 DEF IInv, World, WithinRounds
  <2>4. Len(plays[game].state) \in Nat
    BY <1>4 DEF Histories
  <2>5. game * RoundsToPlay \in Nat /\ Len(plays) * RoundsToPlay \in Nat
    BY <1>1, <1>2, <2>1
  <2>6. Len(plays[game].state) <= Len(plays) * RoundsToPlay
    BY <1>4, <2>2, <2>3, <2>4, <2>5
  <2> QED
    BY <1>4, <1>5, <2>6
<1>7. withStore => /\ session'.match \in DOMAIN stored
                   /\ IsPrefix(session'.state, stored[session'.match])
  BY <1>2, <1>3, <1>4, <1>5 DEF IInv, World, PlaysCommitted
<1> QED
  BY <1>2, <1>3, <1>4, <1>5, <1>6, <1>7 DEF SessionCommitted, storeVars

(* A play that has ended is reported once, and the screen then waits for   *)
(* its own.                                                                *)
LEMMA PlayDoneIInv ==
  ASSUME IInv, NEW p \in PlayIds, plays[p].waiters > 0, plays[p].events # << >>,
         PlayDone(p), UNCHANGED <<storeVars, withStore>>
  PROVE  IInv'
<1> DEFINE t == Taken(p)
           n == t[game].waiters + 1
<1>1. /\ plays \in Seq(PlayRecords) /\ PlayIds = DOMAIN plays /\ PlayIds = 1 .. Len(plays)
      /\ Len(plays) \in Nat
  BY DEF IInv, World, PlaysTyped, PlayIds
<1>2. /\ screen = "game" /\ Head(plays[p].events) \in {"complete", "canceled"}
      /\ session' = [session EXCEPT !.state = plays[game].latest]
      /\ UNCHANGED <<screen, exit, game>>
  BY DEF PlayDone
<1>3. plays' = [t EXCEPT ![game].waiters = n]
  BY Zenon DEF PlayDone
<1>4. /\ t \in Seq(PlayRecords) /\ Len(t) = Len(plays) /\ DOMAIN t = DOMAIN plays
      /\ t[p].waiters = plays[p].waiters - 1 /\ t[p].events = Tail(plays[p].events)
      /\ t[p].match = plays[p].match /\ t[p].state = plays[p].state
      /\ t[p].latest = plays[p].latest
      /\ t[p].left = plays[p].left /\ t[p].stage = plays[p].stage
      /\ \A q \in PlayIds : q # p => t[q] = plays[q]
  BY <1>1, TakenFields DEF IInv
<1> HIDE DEF t
<1>5. game \in PlayIds
  BY <1>1, <1>2 DEF IInv, Shown, ShellTypes
<1>6. \A q \in PlayIds : plays[q].waiters \in Nat /\ t[q].waiters \in Nat
  BY <1>1, <1>4, PlayFields
<1>7. n \in Nat
  BY <1>5, <1>6
<1> HIDE DEF n
<1>8. /\ plays' \in Seq(PlayRecords) /\ Len(plays') = Len(plays)
      /\ plays'[game].waiters = n /\ plays'[game].events = t[game].events
      /\ plays'[game].match = t[game].match /\ plays'[game].state = t[game].state
      /\ plays'[game].latest = t[game].latest /\ plays'[game].left = t[game].left
      /\ plays'[game].stage = t[game].stage
      /\ \A q \in PlayIds : q # game => plays'[q] = t[q]
  BY <1>1, <1>3, <1>4, <1>5, <1>7, WaiterSet
<1>9. \A q \in PlayIds :
        /\ plays'[q].match = plays[q].match /\ plays'[q].state = plays[q].state
        /\ plays'[q].latest = plays[q].latest /\ plays'[q].left = plays[q].left
        /\ plays'[q].stage = plays[q].stage
        /\ plays'[q].events = IF q = p THEN Tail(plays[p].events) ELSE plays[q].events
  BY <1>4, <1>8
<1>10. World' /\ PlayIds' = PlayIds
  <2>1. \A q \in PlayIds : plays'[q].stage \in Running =>
               plays[q].stage \in Running /\ plays'[q].events = << >>
    BY <1>9 DEF IInv, World, PlaysTyped
  <2> QED
    BY <1>8, <1>9, <2>1, WorldKept DEF IInv
<1>11. Shown'
  <2>1. /\ session' \in [match : Matches \union {"none"}, state : Histories]
        /\ session'.match \in Matches /\ session'.match = plays[game].match
        /\ session'.state = plays[game].latest /\ SessionCommitted'
    BY <1>2, <1>8, SessionTakesGame
  <2>2. ShellTypes'
    BY <1>2, <1>10, <2>1 DEF IInv, Shown, ShellTypes
  <2>3. IsPrefix(plays[game].latest, plays[game].latest)
    <3>1. plays[game].latest \in Histories
      BY <1>1, <1>5, PlayFields
    <3> QED
      BY <3>1, PrefixFacts DEF Histories
  <2>4. SessionFollowsItsScreen'
    BY <1>2, <1>5, <1>9, <2>1, <2>3 DEF SessionFollowsItsScreen
  <2> QED
    BY <2>1, <2>2, <2>4 DEF Shown
<1>12. WaitersBounded'
  <2>1. HasReported(p)' /\ ~HasReported(p)
    <3>1. Tail(plays[p].events) = << >>
      BY <1>1, <1>2, PlayFields, ReportsShrink
    <3>2. plays[p].stage \in Over
      BY <1>1, PlayFields DEF IInv, World, PlaysTyped
    <3> QED
      BY <1>9, <3>1, <3>2 DEF HasReported
  <2>2. \A q \in PlayIds : HasReported(q) => HasReported(q)'
    BY <1>9, <2>1 DEF HasReported
  <2> SUFFICES ASSUME NEW q \in PlayIds PROVE plays'[q].waiters <= 1 + Cardinality(Settled(q)')
    BY <1>10 DEF WaitersBounded
  <2>3. /\ Settled(q) \subseteq Settled(q)' /\ Settled(q)' \subseteq PlayIds
        /\ Settled(q) \subseteq PlayIds
        /\ q # p => p \in Settled(q)' /\ p \notin Settled(q)
    BY <1>10, <2>1, <2>2 DEF Settled
  <2>4. IsFiniteSet(PlayIds)
    <3>1. IsFiniteSet(1 .. Len(plays))
      BY <1>1, FS_Interval
    <3> QED
      BY <1>1, <3>1
  <2>5. IsFiniteSet(Settled(q)) /\ IsFiniteSet(Settled(q)')
    BY <2>3, <2>4, FS_Subset
  <2>6. /\ Cardinality(Settled(q)) \in Nat /\ Cardinality(Settled(q)') \in Nat
        /\ Cardinality(Settled(q)) <= Cardinality(Settled(q)')
    BY <2>3, <2>5, FS_Subset, FS_CardinalityType
  <2>7. q # p => Cardinality(Settled(q)) + 1 <= Cardinality(Settled(q)')
    <3> SUFFICES ASSUME q # p PROVE Cardinality(Settled(q)) + 1 <= Cardinality(Settled(q)')
      OBVIOUS
    <3>1. /\ IsFiniteSet(Settled(q) \union {p})
          /\ Cardinality(Settled(q) \union {p}) = Cardinality(Settled(q)) + 1
      BY <2>3, <2>5, FS_AddElement
    <3>2. Settled(q) \union {p} \subseteq Settled(q)'
      BY <2>3
    <3> QED
      BY <2>5, <3>1, <3>2, FS_Subset
  <2>8. plays[q].waiters <= 1 + Cardinality(Settled(q))
    BY DEF IInv, WaitersBounded
  <2>9. CASE q # game
    <3>1. plays'[q].waiters = t[q].waiters
      BY <1>8, <2>9
    <3>2. t[q].waiters <= plays[q].waiters
      BY <1>4, <1>6
    <3> QED
      BY <1>6, <2>6, <2>8, <3>1, <3>2
  <2>10. CASE q = game /\ q = p
    <3>1. plays'[q].waiters = plays[q].waiters
      BY <1>4, <1>6, <1>8, <2>10 DEF n
    <3> QED
      BY <1>6, <2>6, <2>8, <3>1
  <2>11. CASE q = game /\ q # p
    <3>1. plays'[q].waiters = plays[q].waiters + 1
      BY <1>4, <1>6, <1>8, <2>11 DEF n
    <3> QED
      BY <1>6, <2>6, <2>7, <2>8, <2>11, <3>1
  <2> QED
    BY <2>9, <2>10, <2>11
<1> QED
  BY <1>10, <1>11, <1>12 DEF IInv

(* Any message that reaches the shell: progress, a round, a failure or the *)
(* end (Update of app_flow.go).                                            *)
LEMMA HandleEventIInv == ASSUME IInv, NEW p \in PlayIds, HandleEvent(p) PROVE IInv'
<1>1. /\ plays[p].waiters > 0 /\ plays[p].events # << >> /\ UNCHANGED <<storeVars, withStore>>
      /\ DropEvent(p) \/ ShowStatus(p) \/ PlayDone(p) \/ PlayFailed(p)
  BY DEF HandleEvent
<1>2. CASE DropEvent(p)
  BY <1>1, <1>2, MessageTakenIInv DEF DropEvent
<1>3. CASE ShowStatus(p)
  BY <1>1, <1>3, MessageTakenIInv DEF ShowStatus
<1>4. CASE PlayDone(p)
  BY <1>1, <1>4, PlayDoneIInv
<1>5. CASE PlayFailed(p)
  BY <1>1, <1>5, EndedProcess DEF PlayFailed
<1> QED
  BY <1>1, <1>2, <1>3, <1>4, <1>5


-----------------------------------------------------------------------------
(* The shell.                                                              *)

LEMMA ReturnToMenuIInv == ASSUME IInv, ReturnToMenu PROVE IInv'
<1> DEFINE r == [plays[game] EXCEPT !.cancelled = TRUE]
<1>1. /\ plays \in Seq(PlayRecords) /\ PlayIds = DOMAIN plays
      /\ screen = "game" /\ screen' = "menu" /\ game' = 0 /\ exit' = exit
      /\ session' = [session EXCEPT !.state = plays[game].latest]
      /\ UNCHANGED <<storeVars, withStore>>
  BY DEF IInv, World, PlaysTyped, PlayIds, ReturnToMenu
<1>2. plays' = [plays EXCEPT ![game] = r]
  BY Zenon DEF ReturnToMenu
<1>3. game \in PlayIds /\ plays[game] \in PlayRecords
  BY <1>1, PlayFields DEF IInv, Shown, ShellTypes
<1>4. /\ r \in PlayRecords /\ r.waiters = plays[game].waiters /\ r.events = plays[game].events
      /\ r.match = plays[game].match /\ r.state = plays[game].state
      /\ r.latest = plays[game].latest /\ r.left = plays[game].left
      /\ r.stage = plays[game].stage
  BY <1>3 DEF PlayRecords
<1> HIDE DEF r
<1>5. /\ plays' \in Seq(PlayRecords) /\ Len(plays') = Len(plays) /\ plays'[game] = r
      /\ \A q \in PlayIds : q # game => plays'[q] = plays[q]
  BY <1>1, <1>2, <1>3, <1>4, Replaced
<1>6. \A q \in PlayIds :
           /\ plays'[q].match = plays[q].match /\ plays'[q].state = plays[q].state
           /\ plays'[q].latest = plays[q].latest /\ plays'[q].left = plays[q].left
           /\ plays'[q].stage = plays[q].stage /\ plays'[q].waiters = plays[q].waiters
           /\ plays'[q].events = plays[q].events
  BY <1>4, <1>5
<1>7. World' /\ PlayIds' = PlayIds
  <2>1. \A q \in PlayIds : plays'[q].stage \in Running =>
               plays[q].stage \in Running /\ plays'[q].events = << >>
    BY <1>6 DEF IInv, World, PlaysTyped
  <2> QED
    BY <1>1, <1>5, <1>6, <2>1, WorldKept DEF IInv
<1>8. Shown'
  <2>1. /\ session' \in [match : Matches \union {"none"}, state : Histories]
        /\ session'.match \in Matches /\ SessionCommitted'
    BY <1>1, <1>5, SessionTakesGame
  <2>2. exit \in {"none", "user", "matchFailed", "matchNotFound"}
    BY DEF IInv, Shown, ShellTypes
  <2> QED
    BY <1>1, <2>1, <2>2 DEF Shown, ShellTypes, SessionFollowsItsScreen
<1>9. WaitersBounded'
  <2>1. \A q \in PlayIds : HasReported(q) => HasReported(q)'
    BY <1>6 DEF HasReported
  <2>2. \A q \in PlayIds : plays'[q].waiters <= plays[q].waiters
    <3>1. \A q \in PlayIds : plays[q].waiters \in Nat
      BY <1>1, PlayFields
    <3> QED
      BY <1>6, <3>1
  <2> QED
    BY <1>5, <2>1, <2>2, WaitersKept DEF IInv
<1> QED
  BY <1>7, <1>8, <1>9 DEF IInv

(* Nothing happens to the plays, and the store keeps its matches.          *)
LEMMA PlaysUntouched ==
  ASSUME IInv, UNCHANGED <<stored, rounds, snapshots, withStore, plays>>, SlotsKnown'
  PROVE  World' /\ WaitersBounded' /\ PlayIds' = PlayIds
BY DEF IInv, World, TablesAgree, PlaysTyped, PlaysCommitted, WithinRounds, WaitersBounded,
       Settled, HasReported, PlayIds, History, Row, Histories

(* A step that changes nothing.                                            *)
LEMMA UnchangedIInv == ASSUME IInv, UNCHANGED vars PROVE IInv'
<1>1. UNCHANGED <<stored, rounds, snapshots, slots, withStore, plays>> /\ UNCHANGED shellVars
  BY DEF vars, storeVars
<1>2. SlotsKnown'
  BY <1>1 DEF IInv, World, SlotsKnown
<1>3. World' /\ WaitersBounded' /\ PlayIds' = PlayIds
  BY <1>1, <1>2, PlaysUntouched
<1>4. Shown'
  BY <1>1, <1>3 DEF IInv, Shown, ShellTypes, SessionCommitted, SessionFollowsItsScreen, shellVars
<1> QED
  BY <1>3, <1>4 DEF IInv

(* After a crash or an exit only the tables are left (Restart).            *)
LEMMA RestartIInv == ASSUME IInv, Restart PROVE IInv'
<1>1. UNCHANGED <<stored, rounds, snapshots, slots, withStore, plays>>
  BY DEF Restart, storeVars
<1>2. SlotsKnown'
  BY <1>1 DEF IInv, World, SlotsKnown
<1>3. World' /\ WaitersBounded' /\ PlayIds' = PlayIds
  BY <1>1, <1>2, PlaysUntouched
<1>4. Shown'
  BY <1>1, <1>3 DEF Restart, IInv, Shown, ShellTypes, SessionCommitted, SessionFollowsItsScreen
<1> QED
  BY <1>3, <1>4 DEF IInv

(* Saving writes a slot for the match on the screen and nothing else       *)
(* (SaveSlot).                                                             *)
LEMMA SaveGameIInv == ASSUME IInv, NEW slot \in Slots, SaveGame(slot) PROVE IInv'
<1> DEFINE entry == [match |-> session.match, round |-> CurrentRound(stored[session.match])]
<1>1. /\ UNCHANGED <<stored, rounds, snapshots, withStore, plays>> /\ UNCHANGED shellVars
      /\ slots' = Put(slots, slot, entry) /\ session.match \in DOMAIN stored
  BY DEF SaveGame, SaveSlot, Known
<1>2. SlotsKnown'
  <2>1. entry.match \in DOMAIN stored
    BY <1>1
  <2> HIDE DEF entry
  <2>2. /\ DOMAIN slots' = DOMAIN slots \union {slot}
        /\ slots'[slot] = entry
        /\ \A s \in DOMAIN slots : s # slot => slots'[s] = slots[s]
    BY <1>1 DEF Put
  <2> QED
    BY <1>1, <2>1, <2>2 DEF IInv, World, SlotsKnown
<1>3. World' /\ WaitersBounded' /\ PlayIds' = PlayIds
  BY <1>1, <1>2, PlaysUntouched
<1>4. Shown'
  BY <1>1, <1>3 DEF IInv, Shown, ShellTypes, SessionCommitted, SessionFollowsItsScreen, shellVars
<1> QED
  BY <1>3, <1>4 DEF IInv

(* The arithmetic of the bound on histories when one more play is started. *)
LEMMA OneBoundMore ==
  ASSUME NEW r \in Nat, NEW n \in Nat
  PROVE  n * r \in Nat /\ (n + 1) * r \in Nat /\ (n + 1) * r = n * r + r
OBVIOUS

(* A gameplay screen is opened for a state that the store has gone         *)
(* through, or nothing was known of the match.                             *)
LEMMA Entered ==
  ASSUME IInv, NEW m \in Matches, NEW state \in Histories, Enter(m, state),
         Len(state) <= Len(plays) * RoundsToPlay,
         withStore /\ Known(m) => IsPrefix(state, stored[m])
  PROVE  IInv'
<1>1. UNCHANGED <<storeVars, withStore>> /\ Len(plays) < MaxPlays
  BY DEF Enter
<1>2. CASE withStore /\ ~Known(m) /\ EndProcess("matchNotFound")
  BY <1>1, <1>2, EndedProcess
<1>3. CASE /\ withStore => Known(m)
           /\ plays' = Append(plays, NewPlay(m, state))
           /\ screen' = "game" /\ game' = Len(plays) + 1
           /\ session' = [match |-> m, state |-> state]
           /\ exit' = "none"
  <2> DEFINE n == NewPlay(m, state)
             new == Len(plays) + 1
  <2>1. /\ plays \in Seq(PlayRecords) /\ PlayIds = DOMAIN plays /\ PlayIds = 1 .. Len(plays)
        /\ Len(plays) \in Nat /\ MaxPlays \in Nat /\ RoundsToPlay \in Nat \ {0}
        /\ Len(state) \in Nat
    BY SessionAssumption DEF IInv, World, PlaysTyped, PlayIds, Histories
  <2>2. /\ n \in PlayRecords /\ n.match = m /\ n.state = state /\ n.latest = state
        /\ n.stage = "starting" /\ n.left = RoundsToPlay /\ n.events = << >> /\ n.waiters = 1
    BY <2>1 DEF NewPlay, PlayRecords, Running, Reports
  <2>3. plays' = Append(plays, n)
    BY <1>3
  <2> HIDE DEF n
  <2>4. /\ plays' \in Seq(PlayRecords) /\ Len(plays') = new /\ plays'[new] = n
        /\ PlayIds' = 1 .. new /\ new \in PlayIds' /\ PlayIds \subseteq PlayIds'
        /\ \A q \in PlayIds : plays'[q] = plays[q]
        /\ PlayIds' = PlayIds \union {new} /\ new \notin PlayIds
    BY <2>1, <2>2, <2>3 DEF PlayIds
  <2>5. /\ Len(plays) * RoundsToPlay \in Nat /\ new * RoundsToPlay \in Nat
        /\ new * RoundsToPlay = Len(plays) * RoundsToPlay + RoundsToPlay
    BY <2>1, OneBoundMore
  <2> HIDE DEF new
  <2>6. TablesAgree' /\ SlotsKnown'
    <3>1. Seq(PlayIds) \subseteq Seq(PlayIds')
      BY <2>4, LargerSeq
    <3>2. stored' = stored /\ rounds' = rounds /\ snapshots' = snapshots /\ slots' = slots
      BY <1>1 DEF storeVars
    <3> QED
      BY <3>1, <3>2 DEF IInv, World, TablesAgree, SlotsKnown, History, Row, Histories
  <2>7. PlaysTyped'
    BY <1>1, <2>1, <2>2, <2>4 DEF IInv, World, PlaysTyped, new
  <2>8. PlaysCommitted'
    BY <1>1, <1>3, <2>2, <2>4 DEF IInv, World, PlaysCommitted, Known, storeVars
  <2>9. WithinRounds'
    <3>1. Len(plays'[new].state) + plays'[new].left <= new * RoundsToPlay
      BY <2>1, <2>2, <2>4, <2>5
    <3>2. \A k \in DOMAIN stored : Len(stored[k]) <= Len(plays') * RoundsToPlay
      <4>1. \A k \in DOMAIN stored : Len(stored[k]) \in Nat
        BY DEF IInv, World, TablesAgree
      <4> QED
        BY <2>1, <2>4, <2>5, <4>1 DEF IInv, World, WithinRounds
    <3> QED
      BY <1>1, <2>4, <3>1, <3>2 DEF IInv, World, WithinRounds, storeVars
  <2>10. World'
    BY <1>1, <2>6, <2>7, <2>8, <2>9 DEF IInv, World
  <2>11. Shown'
    <3>1. IsPrefix(state, state)
      BY PrefixFacts DEF Histories
    <3>2. ShellTypes'
      BY <1>3, <2>1, <2>4 DEF ShellTypes, new
    <3>3. SessionCommitted'
      BY <1>1, <1>3, <2>1, <2>4, <2>5 DEF SessionCommitted, Known, storeVars
    <3>4. SessionFollowsItsScreen'
      BY <1>3, <2>2, <2>4, <3>1 DEF SessionFollowsItsScreen, new
    <3> QED
      BY <3>2, <3>3, <3>4 DEF Shown
  <2>12. WaitersBounded'
    <3> SUFFICES ASSUME NEW q \in PlayIds' PROVE plays'[q].waiters <= 1 + Cardinality(Settled(q)')
      BY DEF WaitersBounded
    <3>1. IsFiniteSet(PlayIds')
      BY <2>1, <2>4, FS_Interval DEF new
    <3>2. Settled(q)' \subseteq PlayIds' /\ Settled(q) \subseteq Settled(q)'
      BY <2>4 DEF Settled, HasReported
    <3>3. /\ Cardinality(Settled(q)) \in Nat /\ Cardinality(Settled(q)') \in Nat
          /\ Cardinality(Settled(q)) <= Cardinality(Settled(q)')
      BY <3>1, <3>2, FS_Subset, FS_CardinalityType
    <3>4. CASE q = new
      BY <2>2, <2>4, <3>3, <3>4
    <3>5. CASE q \in PlayIds
      <4>1. plays[q].waiters \in Nat /\ plays'[q] = plays[q]
        BY <2>1, <2>4, <3>5, PlayFields
      <4> QED
        BY <3>3, <3>5, <4>1 DEF IInv, WaitersBounded
    <3> QED
      BY <2>4, <3>4, <3>5
  <2> QED
    BY <2>10, <2>11, <2>12 DEF IInv
<1> QED
  BY <1>2, <1>3 DEF Enter


(* Every action of the user at the menu or on a screen preserves the       *)
(* invariant.                                                              *)
LEMMA ShellIInv == ASSUME IInv, Shell PROVE IInv'
<1>1. /\ DOMAIN stored \subseteq Matches
      /\ \A m \in DOMAIN stored : /\ stored[m] \in Histories
                                  /\ Len(stored[m]) <= Len(plays) * RoundsToPlay
                                  /\ IsPrefix(stored[m], stored[m])
  <2>1. PlayIds \subseteq 1 .. MaxPlays
    <3>1. PlayIds = 1 .. Len(plays) /\ Len(plays) \in Nat /\ Len(plays) <= MaxPlays /\ MaxPlays \in Nat
      BY SessionAssumption DEF IInv, World, PlaysTyped, PlayIds
    <3> QED
      BY <3>1
  <2>2. \A m \in DOMAIN stored : stored[m] \in Histories
    BY <2>1, LargerSeq DEF IInv, World, TablesAgree, Histories
  <2> QED
    BY <2>2, PrefixFacts DEF IInv, World, TablesAgree, WithinRounds, Histories
<1>2. << >> \in Histories /\ Len(<< >>) <= Len(plays) * RoundsToPlay
  <2>1. Len(plays) \in Nat /\ RoundsToPlay \in Nat
    BY SessionAssumption DEF IInv, World, PlaysTyped
  <2>2. Len(plays) * RoundsToPlay \in Nat
    BY <2>1, OneBoundMore
  <2> QED
    BY <2>2 DEF Histories
<1>3. ASSUME NEW m \in Matches, StartNewGame(m) PROVE IInv'
  <2>1. Known(m) => IsPrefix(<< >>, stored[m])
    BY <1>1, PrefixFacts DEF Known, Histories
  <2> QED
    BY <1>2, <1>3, <2>1, Entered DEF StartNewGame
<1>4. ASSUME ResumeGame PROVE IInv'
  <2>1. session # NoSession /\ Enter(session.match, session.state)
    BY <1>4 DEF ResumeGame, Enabled
  <2>2. /\ session.match \in Matches /\ session.state \in Histories
        /\ Len(session.state) <= Len(plays) * RoundsToPlay
        /\ withStore => IsPrefix(session.state, stored[session.match])
    BY <2>1 DEF IInv, Shown, ShellTypes, SessionCommitted
  <2> QED
    BY <2>1, <2>2, Entered
<1>5. ASSUME NEW slot \in Slots, LoadGame(slot) PROVE IInv'
  <2>1. slots[slot].match \in DOMAIN stored
    BY <1>5 DEF LoadGame, IInv, World, SlotsKnown
  <2> QED
    BY <1>1, <1>5, <2>1, Entered DEF LoadGame, SlotState
<1>6. ASSUME NEW slot \in Slots, SaveGame(slot) PROVE IInv'
  BY <1>6, SaveGameIInv
<1>7. ASSUME ReturnToMenu PROVE IInv'
  BY <1>7, ReturnToMenuIInv
<1>8. ASSUME Stop PROVE IInv'
  BY <1>8, EndedProcess DEF Stop
<1>9. ASSUME Restart PROVE IInv'
  BY <1>9, RestartIInv
<1>10. ASSUME NEW m \in Matches, RestartWithMatch(m) PROVE IInv'
  BY <1>1, <1>10, Entered DEF RestartWithMatch, Known
<1> QED
  BY <1>3, <1>4, <1>5, <1>6, <1>7, <1>8, <1>9, <1>10 DEF Shell

(* Every step of a play, and every message of it, preserves the invariant. *)
LEMMA PlayIInv == ASSUME IInv, NEW p \in PlayIds, Play(p) PROVE IInv'
BY FindMatchIInv, CollectRoundIInv, CollectStopsIInv, CollectFailsIInv, ResolveRoundIInv,
   CommitFailsIInv DEF Play

(* The invariant holds when the program starts, with or without a store.   *)
LEMMA InitIInv == Init => IInv
<1> SUFFICES ASSUME Init PROVE IInv
  OBVIOUS
<1> USE SessionAssumption, StoreAssumption DEF Init, StoreInit
<1>1. PlayIds = {} /\ Len(plays) = 0 /\ plays \in Seq(PlayRecords)
  BY DEF PlayIds
<1>2. << >> \in Seq(PlayIds) /\ << >> \in Histories /\ << << >> >> \in Seq(Histories)
  BY DEF Histories
<1>3. TablesAgree
  <2>1. History(<< >>) = << >>
    BY DEF History
  <2> QED
    BY <1>2, <2>1 DEF TablesAgree
<1>4. SlotsKnown
  BY DEF SlotsKnown
<1>5. PlaysTyped /\ PlaysCommitted /\ WithinRounds
  BY <1>1, OneBoundMore DEF PlaysTyped, PlaysCommitted, WithinRounds
<1>6. Shown
  BY <1>1, <1>2 DEF Shown, ShellTypes, SessionCommitted, SessionFollowsItsScreen, NoSession
<1>7. WaitersBounded
  BY <1>1 DEF WaitersBounded
<1> QED
  BY <1>3, <1>4, <1>5, <1>6, <1>7 DEF IInv, World

(* Every step of the program preserves the invariant.                      *)
LEMMA StepIInv == ASSUME IInv, [Next]_vars PROVE IInv'
BY ShellIInv, PlayIInv, HandleEventIInv, EventsClosedIInv, UnchangedIInv DEF Next

(* IInv is an invariant.                                                   *)
THEOREM Inductive == Spec => []IInv
<1>1. IInv /\ [Next]_vars => IInv'
  BY StepIInv
<1> QED
  BY InitIInv, <1>1, PTL DEF Spec

-----------------------------------------------------------------------------
(* The theorems.                                                           *)

(* Every variable keeps its type; no play goes on after its rounds, and    *)
(* however many plays have reported to the screen, no more commands wait   *)
(* on the events of one than screens were opened.                          *)
THEOREM TypeCorrect == Spec => []TypeOK
<1>1. IInv => TypeOK
  <2> SUFFICES ASSUME IInv PROVE TypeOK
    OBVIOUS
  <2>1. /\ plays \in Seq(PlayRecords) /\ PlayIds = DOMAIN plays /\ PlayIds = 1 .. Len(plays)
        /\ Len(plays) \in Nat /\ Len(plays) <= MaxPlays /\ MaxPlays \in Nat
    BY SessionAssumption DEF IInv, World, PlaysTyped, PlayIds
  <2>2. \A m \in DOMAIN stored : stored[m] \in Histories
    <3>1. PlayIds \subseteq 1 .. MaxPlays
      BY <2>1
    <3> QED
      BY <3>1, LargerSeq DEF IInv, World, TablesAgree, Histories
  <2>3. rounds \in [DOMAIN stored -> Seq([number : Nat, by : PlayIds])]
    BY HistoryTyped DEF IInv, World, TablesAgree
  <2>4. ASSUME NEW p \in PlayIds
        PROVE  /\ plays[p].match \in Matches /\ plays[p].stage \in Running \union Over
               /\ plays[p].left \in 0 .. RoundsToPlay
               /\ plays[p].waiters \in 0 .. MaxPlays
    <3>1. /\ plays[p].match \in Matches /\ plays[p].stage \in Running \union Over
          /\ plays[p].left \in 0 .. RoundsToPlay /\ plays[p].waiters \in Nat
      BY <2>1, PlayFields
    <3>2. /\ IsFiniteSet(PlayIds) /\ Cardinality(PlayIds) = Len(plays)
      <4>1. IsFiniteSet(1 .. Len(plays)) /\ Cardinality(1 .. Len(plays)) = Len(plays)
        BY <2>1, IntervalSize
      <4> QED
        BY <2>1, <4>1
    <3>3. /\ IsFiniteSet(PlayIds \ {p}) /\ Cardinality(PlayIds \ {p}) = Len(plays) - 1
      BY <3>2, FS_RemoveElement
    <3>4. Settled(p) \subseteq PlayIds \ {p}
      BY DEF Settled
    <3>5. Cardinality(Settled(p)) \in Nat /\ Cardinality(Settled(p)) <= Len(plays) - 1
      BY <3>3, <3>4, FS_Subset, FS_CardinalityType
    <3>6. plays[p].waiters <= 1 + Cardinality(Settled(p))
      BY DEF IInv, WaitersBounded
    <3> QED
      BY <2>1, <3>1, <3>5, <3>6
  <2> QED
    BY <2>2, <2>3, <2>4 DEF IInv, World, Shown, ShellTypes, TablesAgree, SlotsKnown, TypeOK
<1> QED
  BY Inductive, <1>1, PTL

(* With a store, no screen and no session shows a state that is not        *)
(* committed, for any number of plays of any matches.                      *)
THEOREM NeverShownUncommitted == Spec => []NothingUncommittedShown
<1>1. IInv => NothingUncommittedShown
  BY DEF IInv, World, PlaysTyped, PlaysCommitted, Shown, SessionCommitted, NothingUncommittedShown
<1> QED
  BY Inductive, <1>1, PTL

(* The session is the match on the screen at a state of its play, whatever *)
(* messages of other plays arrive.                                         *)
THEOREM SessionAlwaysFollows == Spec => []SessionFollowsItsScreen
<1>1. IInv => SessionFollowsItsScreen
  BY DEF IInv, Shown
<1> QED
  BY Inductive, <1>1, PTL


-----------------------------------------------------------------------------
(* The tables implement the in-memory store.                               *)

LEMMA InitRefines == Init => Memory!Init
<1> SUFFICES ASSUME Init PROVE Memory!Init
  OBVIOUS
<1> USE DEF Init, StoreInit
<1> DEFINE new == Memory!Created(Memory!StartState)
<1>1. History(<< >>) = << >>
  BY DEF History
<1>2. Recorded(<< >>) = Memory!StartState
  BY <1>1 DEF Recorded, CurrentRound, Memory!StartState, Memory!State
<1>3. RecordedAll(<< << >> >>) = <<Memory!StartState>>
  BY <1>2 DEF RecordedAll
<1>4. \A m \in OpeningMatches :
        [state |-> Recorded(stored[m]), rounds |-> rounds[m],
         snapshots |-> RecordedAll(snapshots[m])] = new
  BY <1>2, <1>3 DEF Memory!Created, Memory!StartState, Memory!State
<1> HIDE DEF new
<1>5. StoredMatches = [m \in OpeningMatches |-> new]
  BY <1>4 DEF StoredMatches
<1> QED
  BY <1>5 DEF Memory!Init, new

(* The snapshot of a round replaces one row or is added, in both stores.   *)
LEMMA SnapshotsCorrespond ==
  ASSUME NEW rows \in Seq(Histories), NEW next \in Histories
  PROVE  RecordedAll(UpsertSnapshot(rows, next))
         = Memory!AppendOrReplaceSnapshot(RecordedAll(rows), Recorded(next))
<1> DEFINE S == RecordedAll(rows)
<1>1. /\ DOMAIN S = DOMAIN rows /\ \A i \in DOMAIN rows : S[i] = Recorded(rows[i])
      /\ DOMAIN rows = 1 .. Len(rows) /\ Len(rows) \in Nat
  BY DEF RecordedAll
<1>2. \A h : Recorded(h).round = CurrentRound(h)
  BY DEF Recorded
<1> HIDE DEF S
<1>3. CASE \E i \in DOMAIN rows : CurrentRound(rows[i]) = CurrentRound(next)
  <2> DEFINE T == [i \in DOMAIN rows |-> IF CurrentRound(rows[i]) = CurrentRound(next)
                                         THEN next ELSE rows[i]]
             U == [i \in DOMAIN S |-> IF S[i].round = Recorded(next).round
                                      THEN Recorded(next) ELSE S[i]]
  <2>1. UpsertSnapshot(rows, next) = T
    BY <1>3 DEF UpsertSnapshot
  <2>2. \E i \in DOMAIN S : S[i].round = Recorded(next).round
    BY <1>1, <1>2, <1>3
  <2>3. Memory!AppendOrReplaceSnapshot(S, Recorded(next)) = U
    BY <2>2 DEF Memory!AppendOrReplaceSnapshot
  <2>4. \A i \in DOMAIN rows : Recorded(T[i]) = U[i]
    BY <1>1, <1>2
  <2>5. DOMAIN T = DOMAIN rows /\ U = [i \in DOMAIN rows |-> U[i]]
    BY <1>1
  <2> HIDE DEF T, U
  <2>6. RecordedAll(T) = U
    BY <2>4, <2>5 DEF RecordedAll
  <2> QED
    BY <2>1, <2>3, <2>6 DEF S
<1>4. CASE ~\E i \in DOMAIN rows : CurrentRound(rows[i]) = CurrentRound(next)
  <2>1. UpsertSnapshot(rows, next) = Append(rows, next)
    BY <1>4 DEF UpsertSnapshot
  <2>2. ~\E i \in DOMAIN S : S[i].round = Recorded(next).round
    BY <1>1, <1>2, <1>4
  <2>3. Memory!AppendOrReplaceSnapshot(S, Recorded(next)) = Append(S, Recorded(next))
    BY <2>2 DEF Memory!AppendOrReplaceSnapshot
  <2> DEFINE T == Append(rows, next)
             R == {Recorded(h) : h \in Histories}
  <2>4. /\ DOMAIN T = 1 .. Len(rows) + 1 /\ T[Len(rows) + 1] = next
        /\ \A i \in 1 .. Len(rows) : T[i] = rows[i]
        /\ T \in Seq(Histories)
    BY <1>1
  <2> HIDE DEF T
  <2>5. S \in Seq(R) /\ Len(S) = Len(rows) /\ Recorded(next) \in R
    BY <1>1 DEF S, RecordedAll
  <2> HIDE DEF R
  <2>6. /\ Append(S, Recorded(next)) \in Seq(R) /\ Len(Append(S, Recorded(next))) = Len(rows) + 1
        /\ Append(S, Recorded(next))[Len(rows) + 1] = Recorded(next)
        /\ \A i \in 1 .. Len(rows) : Append(S, Recorded(next))[i] = S[i]
    BY <1>1, <2>5
  <2>7. \A i \in 1 .. Len(rows) + 1 : Recorded(T[i]) = Append(S, Recorded(next))[i]
    BY <1>1, <2>4, <2>6
  <2>8. RecordedAll(T) \in Seq(R) /\ Len(RecordedAll(T)) = Len(rows) + 1
        /\ \A i \in 1 .. Len(rows) + 1 : RecordedAll(T)[i] = Recorded(T[i])
    BY <1>1, <2>4 DEF RecordedAll, R
  <2>9. RecordedAll(T) = Append(S, Recorded(next))
    BY <2>6, <2>7, <2>8, SameSequence
  <2> QED
    BY <2>1, <2>3, <2>9 DEF S, T
<1> QED
  BY <1>3, <1>4


(* The last row of a history has the number of its rounds.                 *)
LEMMA LastOfHistory ==
  ASSUME NEW S, NEW s \in Seq(S), History(s) # << >>
  PROVE  Last(History(s)).number = Len(s)
<1>1. DOMAIN s = 1 .. Len(s) /\ Len(s) \in Nat /\ Len(History(s)) = Len(s)
  <2>1. DOMAIN s = 1 .. Len(s) /\ Len(s) \in Nat
    OBVIOUS
  <2> QED
    BY <2>1, HistoryTyped
<1>2. Len(s) # 0
  BY <1>1 DEF History
<1>3. Last(History(s)) = Row(s, Len(s))
  BY <1>1, <1>2 DEF Last, History
<1> QED
  BY <1>3 DEF Row

(* What the tables say of a match.                                         *)
StoredMatch(m) ==
  [state |-> Recorded(stored[m]), rounds |-> rounds[m], snapshots |-> RecordedAll(snapshots[m])]

(* What MemoryStore sees of the tables depends on the tables alone.        *)
LEMMA StoredMatchKept ==
  ASSUME UNCHANGED <<stored, rounds, snapshots>>
  PROVE  StoredMatches' = StoredMatches
BY DEF StoredMatches, Recorded, RecordedAll, CurrentRound, History, Row

(* A commit of the tables is a commit of the in-memory store.              *)
LEMMA CommitRefines ==
  ASSUME IInv, NEW p \in PlayIds, ResolveRound(p), withStore
  PROVE  \E m \in Matches : \E round \in Memory!Rounds : Memory!CommitRound(m, round)
<1> DEFINE m == plays[p].match
           old == stored[m]
           next == Append(plays[p].state, p)
           round == Row(next, Len(next))
           new == [state |-> Recorded(next), rounds |-> History(next),
                   snapshots |-> RecordedAll(UpsertSnapshot(snapshots[m], next))]
<1>1. /\ plays \in Seq(PlayRecords) /\ Len(plays) \in Nat /\ Len(plays') = Len(plays)
      /\ plays'[p].state = next /\ plays[p].state \in Histories /\ next \in Histories
      /\ plays'[p].left = plays[p].left - 1 /\ plays[p].left \in Nat \ {0}
      /\ m \in DOMAIN stored /\ old = plays[p].state /\ CommitRound(m, next)
  BY ResolveRoundEffect
<1>2. /\ DOMAIN stored \subseteq Matches /\ stored \in [DOMAIN stored -> Seq(PlayIds)]
      /\ rounds = [k \in DOMAIN stored |-> History(stored[k])]
      /\ snapshots \in [DOMAIN stored -> Seq(Histories)]
  BY DEF IInv, World, TablesAgree
<1>3. /\ stored' = [stored EXCEPT ![m] = next]
      /\ rounds' = [rounds EXCEPT ![m] = Append(rounds[m], round)]
      /\ snapshots' = [snapshots EXCEPT ![m] = UpsertSnapshot(snapshots[m], next)]
  BY <1>1 DEF CommitRound
<1>4. m \in Matches /\ old \in Seq(PlayIds) /\ snapshots[m] \in Seq(Histories) /\ rounds[m] = History(old)
  BY <1>1, <1>2
<1>5. next = Append(old, p) /\ Len(next) = Len(old) + 1 /\ Len(old) \in Nat
  BY <1>1, <1>4
<1>6. round.number = Len(next) /\ round.by = p /\ round = [number |-> Len(next), by |-> p]
  <2>1. next[Len(next)] = p
    BY <1>4, <1>5
  <2> QED
    BY <2>1 DEF Row
<1>7. round \in Memory!Rounds
  <2>1. /\ PlayIds = 1 .. Len(plays) /\ Len(plays) <= MaxPlays
        /\ Len(plays[p].state) + plays[p].left <= p * RoundsToPlay
        /\ MaxPlays \in Nat /\ RoundsToPlay \in Nat
    BY SessionAssumption DEF IInv, World, PlaysTyped, WithinRounds, PlayIds
  <2>2. p \in 1 .. MaxPlays /\ p \in Nat
    BY <1>1, <2>1
  <2>3. p * RoundsToPlay <= MaxPlays * RoundsToPlay /\ p * RoundsToPlay \in Nat
        /\ MaxPlays * RoundsToPlay \in Nat
    BY <2>1, <2>2, BoundsGrow
  <2>4. Len(next) \in 1 .. MaxPlays * RoundsToPlay
    <3> DEFINE a == p * RoundsToPlay
               b == MaxPlays * RoundsToPlay
    <3>1. Len(plays[p].state) + plays[p].left <= a /\ a <= b /\ a \in Nat /\ b \in Nat
      BY <2>1, <2>3
    <3> HIDE DEF a, b
    <3>2. Len(next) \in 1 .. b
      BY <1>1, <1>5, <3>1
    <3> QED
      BY <3>2 DEF b
  <2> QED
    BY <1>6, <2>2, <2>4 DEF Memory!Rounds
<1>8. Append(History(old), round) = History(next)
  <2>1. old \in Seq(PlayIds) /\ next = Append(old, p)
    BY <1>4, <1>5
  <2> HIDE DEF old, next
  <2> QED
    BY <2>1, HistoryAppend
<1>9. StoredMatches[m].rounds = History(old) /\ StoredMatches[m].snapshots = RecordedAll(snapshots[m])
      /\ DOMAIN StoredMatches = DOMAIN stored
  BY <1>1, <1>4 DEF StoredMatches
<1>10. StoredMatches[m].rounds # << >> => round.number > Memory!Last(StoredMatches[m].rounds).number
  <2>1. old \in Seq(PlayIds)
    BY <1>4
  <2> HIDE DEF old, next, round, m
  <2>2. History(old) # << >> => Last(History(old)).number = Len(old)
    BY <2>1, LastOfHistory
  <2> QED
    BY <1>5, <1>6, <1>9, <2>2 DEF Last, Memory!Last
<1>11. StoredMatches' = [StoredMatches EXCEPT ![m] = new]
  <2>1. /\ DOMAIN stored' = DOMAIN stored /\ stored'[m] = next
        /\ rounds'[m] = History(next) /\ snapshots'[m] = UpsertSnapshot(snapshots[m], next)
        /\ \A k \in DOMAIN stored : k # m => /\ stored'[k] = stored[k] /\ rounds'[k] = rounds[k]
                                             /\ snapshots'[k] = snapshots[k]
    BY <1>1, <1>2, <1>3, <1>4, <1>8
  <2> HIDE DEF m, next
  <2>2. StoredMatches = [k \in DOMAIN stored |-> StoredMatch(k)]
    BY DEF StoredMatches, StoredMatch
  <2>3. StoredMatches' = [k \in DOMAIN stored' |-> StoredMatch(k)']
    BY DEF StoredMatches, StoredMatch, Recorded, RecordedAll, CurrentRound, History, Row
  <2>4. \A k : StoredMatch(k)' = [state |-> Recorded(stored'[k]), rounds |-> rounds'[k],
                                 snapshots |-> RecordedAll(snapshots'[k])]
    BY DEF StoredMatch, Recorded, RecordedAll, CurrentRound, History, Row
  <2>5. ASSUME NEW k \in DOMAIN stored, k = m PROVE StoredMatch(k)' = new
    BY <2>1, <2>4, <2>5
  <2>6. ASSUME NEW k \in DOMAIN stored, k # m PROVE StoredMatch(k)' = StoredMatch(k)
    <3>1. stored'[k] = stored[k] /\ rounds'[k] = rounds[k] /\ snapshots'[k] = snapshots[k]
      BY <2>1, <2>6
    <3> QED
      BY <2>4, <3>1 DEF StoredMatch
  <2> HIDE DEF new
  <2>7. StoredMatches' = [k \in DOMAIN stored |-> IF k = m THEN new ELSE StoredMatch(k)]
    BY <2>1, <2>3, <2>5, <2>6
  <2> QED
    BY <2>2, <2>7
<1>12. new = [state |-> Memory!State(round.number + 1, History(next)), rounds |-> History(next),
              snapshots |-> Memory!AppendOrReplaceSnapshot(
                              RecordedAll(snapshots[m]), Memory!State(round.number + 1, History(next)))]
  <2>1. Recorded(next) = Memory!State(round.number + 1, History(next))
    BY <1>6 DEF Recorded, CurrentRound, Memory!State
  <2>2. RecordedAll(UpsertSnapshot(snapshots[m], next))
        = Memory!AppendOrReplaceSnapshot(RecordedAll(snapshots[m]), Recorded(next))
    BY <1>1, <1>4, SnapshotsCorrespond
  <2> QED
    BY <2>1, <2>2
<1>13. Memory!CommitRound(m, round)
  <2>1. Append(StoredMatches[m].rounds, round) = History(next)
    BY <1>8, <1>9
  <2> HIDE DEF m, old, next, round, new
  <2>2. new = [state |-> Memory!State(round.number + 1, Append(StoredMatches[m].rounds, round)),
               rounds |-> Append(StoredMatches[m].rounds, round),
               snapshots |-> Memory!AppendOrReplaceSnapshot(StoredMatches[m].snapshots,
                               Memory!State(round.number + 1, Append(StoredMatches[m].rounds, round)))]
    BY <1>9, <1>12, <2>1
  <2>3. m \in DOMAIN StoredMatches
    BY <1>1, <1>9
  <2> QED
    BY <1>10, <1>11, <2>2, <2>3 DEF Memory!CommitRound
<1> QED
  BY <1>4, <1>7, <1>13

(* Every other step leaves the matches of the store as they are.           *)
LEMMA StepRefines == ASSUME IInv, [Next]_vars PROVE [Memory!Next]_StoredMatches
<1>1. ASSUME UNCHANGED storeVars PROVE StoredMatches' = StoredMatches
  BY <1>1, StoredMatchKept DEF storeVars
<1>2. ASSUME Shell PROVE StoredMatches' = StoredMatches
  <2>1. ASSUME NEW slot \in Slots, SaveGame(slot) PROVE StoredMatches' = StoredMatches
    BY <2>1, StoredMatchKept DEF SaveGame, SaveSlot
  <2>2. ASSUME NEW m, NEW s, Enter(m, s) PROVE StoredMatches' = StoredMatches
    BY <1>1, <2>2 DEF Enter
  <2>3. ASSUME ReturnToMenu \/ Stop \/ Restart PROVE StoredMatches' = StoredMatches
    BY <1>1, <2>3 DEF ReturnToMenu, Stop, Restart
  <2> QED
    BY <1>2, <2>1, <2>2, <2>3 DEF Shell, StartNewGame, ResumeGame, LoadGame, RestartWithMatch
<1>3. ASSUME NEW p \in PlayIds, Play(p) PROVE [Memory!Next]_StoredMatches
  <2>1. ASSUME ResolveRound(p), withStore PROVE Memory!Next
    BY <2>1, CommitRefines DEF Memory!Next
  <2>2. ASSUME ResolveRound(p), ~withStore PROVE UNCHANGED storeVars
    BY <2>2 DEF ResolveRound
  <2>3. ASSUME FindMatch(p) PROVE UNCHANGED storeVars
    BY <2>3, FindMatchIInv
  <2>4. ASSUME CollectRound(p) \/ CollectStops(p) \/ CollectFails(p) \/ CommitFails(p)
        PROVE  UNCHANGED storeVars
    BY <2>4 DEF CollectRound, CollectStops, CollectFails, CommitFails
  <2> QED
    BY <1>1, <1>3, <2>1, <2>2, <2>3, <2>4 DEF Play
<1>4. ASSUME NEW p \in PlayIds, HandleEvent(p) \/ EventsClosed(p) PROVE StoredMatches' = StoredMatches
  BY <1>1, <1>4 DEF HandleEvent, EventsClosed
<1>5. ASSUME UNCHANGED vars PROVE StoredMatches' = StoredMatches
  BY <1>1, <1>5 DEF vars
<1> QED
  BY <1>2, <1>3, <1>4, <1>5 DEF Next

(* Whatever plays of one match run at once, the tables behave as the       *)
(* in-memory store does: no match is created again, and rounds are only    *)
(* appended, in order.                                                     *)
THEOREM TablesImplementMemoryStore == Spec => ImplementsMemoryStore
<1>1. IInv /\ [Next]_vars => [Memory!Next]_StoredMatches
  BY StepRefines
<1> QED
  BY InitRefines, Inductive, <1>1, PTL DEF Spec, ImplementsMemoryStore, Memory!Spec

=============================================================================
