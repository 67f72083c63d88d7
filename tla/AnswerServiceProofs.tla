-------------------------- MODULE AnswerServiceProofs --------------------------
(* Proofs about AnswerService and its cache, for every set of questions and    *)
(* answers, every size of the cache, time limit and number of filings.         *)
EXTENDS AnswerService, TLAPS

(* What is kept is an answer whose mark is no later than the newest filing:    *)
(* a filing that turns up makes every entry stale.                             *)
EntriesInv ==
  /\ entries \in [Keys -> Entry \cup {Nothing}]
  /\ newest \in 0..MaxFiling
  /\ \A k \in Keys : entries[k] # Nothing => entries[k].mark <= newest

(* The parts of the service that its history is about.                         *)
AskedInv ==
  /\ pc \in {"idle", "run", "check1", "build", "check2"}
  /\ pc # "idle" => asked \in Questions
  /\ response \in Answers \cup {Nothing}
  /\ returned \in [Questions -> Answers \cup {Nothing}]

(* While a question is under way, nothing is kept for its spelling: so when it *)
(* gets an answer that cannot be stored, no older one stays behind.            *)
MissInv ==
  pc # "idle" => entries[asked.key] = Nothing \/ entries[asked.key].text # asked.text

CacheInv == EntriesInv /\ AskedInv /\ MissInv /\ KeptWasReturned

LEMMA CacheInvInit == ServiceInit => CacheInv
BY CacheAssumption
   DEF ServiceInit, CacheInit, CacheInv, EntriesInv, AskedInv, MissInv, KeptWasReturned

-------------------------------------------------------------------------------
(* What the cache's operations do to its entries, whatever the order is.       *)

(* An entry of the cache has the fields of one.                                *)
LEMMA EntryFields ==
  ASSUME EntriesInv, NEW k \in Keys, entries[k] # Nothing
  PROVE  /\ entries[k] \in Entry
         /\ entries[k].text \in Spellings
         /\ entries[k].answer \in Answers
         /\ entries[k].age \in 0..Ttl
         /\ entries[k].mark \in 0..newest
BY CacheAssumption DEF EntriesInv, Entry

(* A get drops its key's entry or leaves all alone; a hit is fresh.            *)
LEMMA GetEffect ==
  ASSUME EntriesInv, NEW k \in Keys, NEW t \in Spellings, NEW ok \in BOOLEAN, Get(k, t, ok)
  PROVE  /\ newest' = newest
         /\ served'.key = k /\ served'.text = t
         /\ \/ /\ served'.answer = Nothing
               /\ served' = [key |-> k, text |-> t, answer |-> Nothing]
               /\ entries' \in {entries, [entries EXCEPT ![k] = Nothing]}
               /\ entries'[k] = Nothing \/ entries'[k].text # t
            \/ /\ entries' = entries
               /\ entries[k] # Nothing
               /\ entries[k].mark = newest
               /\ entries[k].age < Ttl
               /\ entries[k].text = t
               /\ served'.answer \in Answers
               /\ served' = [key |-> k, text |-> t, answer |-> entries[k].answer]
<1>1. CASE entries[k] = Nothing
  BY <1>1 DEF Get, Miss
<1>2. CASE entries[k] # Nothing /\ Stale(entries[k], Watermark(ok))
  <2>1. /\ newest' = newest
        /\ entries' = [entries EXCEPT ![k] = Nothing]
        /\ Miss(k, t)
    BY <1>2 DEF Get
  <2> QED BY <2>1 DEF Miss, EntriesInv
<1>3. CASE entries[k] # Nothing /\ ~Stale(entries[k], Watermark(ok)) /\ entries[k].text # t
  <2>1. newest' = newest /\ entries' = entries /\ Miss(k, t)
    BY <1>3 DEF Get
  <2> QED BY <1>3, <2>1 DEF Miss
<1>4. CASE entries[k] # Nothing /\ ~Stale(entries[k], Watermark(ok)) /\ entries[k].text = t
  <2>1. /\ newest' = newest
        /\ entries' = entries
        /\ served' = [key |-> k, text |-> t, answer |-> entries[k].answer]
    BY <1>4 DEF Get
  <2>2. entries[k].mark = newest /\ ~(entries[k].age >= Ttl)
    BY <1>4 DEF Stale, Watermark
  <2>3. entries[k].answer \in Answers /\ entries[k].age < Ttl
    BY <1>4, <2>2, EntryFields, CacheAssumption
  <2> QED BY <1>4, <2>1, <2>2, <2>3
<1> QED BY <1>1, <1>2, <1>3, <1>4

(* A put leaves all alone, or keeps the new answer, or not even that when the  *)
(* key evicted is its own, and drops others at most.                           *)
LEMMA PutEffect ==
  ASSUME EntriesInv, NEW k \in Keys, NEW t \in Spellings, NEW a \in Answers,
         NEW ok \in BOOLEAN, Put(k, t, a, ok)
  PROVE  /\ newest' = newest /\ served' = served
         /\ \/ entries' = entries
            \/ /\ entries' \in [Keys -> Entry \cup {Nothing}]
               /\ entries'[k] \in {Nothing, [text |-> t, answer |-> a, age |-> 0, mark |-> newest]}
               /\ \A q \in Keys \ {k} : entries'[q] \in {Nothing, entries[q]}
<1>1. CASE ~Storable(Watermark(ok))
  BY <1>1 DEF Put
<1>2. CASE Storable(Watermark(ok))
  <2> DEFINE e == [text |-> t, answer |-> a, age |-> 0, mark |-> newest]
             o == Used(order, k)
             out == IF Len(o) > MaxEntries THEN {Head(o)} ELSE {}
  <2>1. Watermark(ok) = newest
    BY <1>2 DEF Storable, Watermark
  <2>2. /\ newest' = newest /\ served' = served
        /\ entries' = [q \in Keys |-> IF q \in out THEN Nothing ELSE IF q = k THEN e ELSE entries[q]]
    BY <1>2, <2>1, Zenon DEF Put
  <2>3. e \in Entry
    BY CacheAssumption DEF EntriesInv, Entry
  <2> HIDE DEF e, out
  <2>4. entries' \in [Keys -> Entry \cup {Nothing}]
    BY <2>2, <2>3 DEF EntriesInv
  <2>5. entries'[k] \in {Nothing, e} /\ \A q \in Keys \ {k} : entries'[q] \in {Nothing, entries[q]}
    BY <2>2
  <2> QED BY <2>2, <2>4, <2>5 DEF e
<1> QED BY <1>1, <1>2

-------------------------------------------------------------------------------
(* The invariant.                                                              *)

LEMMA AskKeepsInv ==
  ASSUME CacheInv, NEW q \in Questions, Ask(q)
  PROVE  CacheInv'
<1> USE DEF CacheInv
<1>1. PICK ok \in BOOLEAN : Get(q.key, q.text, ok)
  BY DEF Ask
<1>2. q.key \in Keys /\ q.text \in Spellings /\ q = [key |-> q.key, text |-> q.text]
  BY DEF Questions
<1>3. EntriesInv'
  BY <1>1, <1>2, GetEffect DEF EntriesInv
<1>4. \A k \in Keys : entries'[k] # Nothing => entries'[k] = entries[k]
  BY <1>1, <1>2, GetEffect DEF EntriesInv
<1>5. CASE served'.answer # Nothing /\ Return(q, served'.answer)
  <2>1. /\ entries' = entries /\ entries[q.key] # Nothing /\ entries[q.key].text = q.text
        /\ served'.answer = entries[q.key].answer /\ served'.answer \in Answers
    BY <1>1, <1>2, <1>5, GetEffect
  <2>2. AskedInv' /\ MissInv'
    BY <1>5, <2>1 DEF AskedInv, MissInv, Return
  <2>3. KeptWasReturned'
    <3> SUFFICES ASSUME NEW k \in Keys, entries[k] # Nothing
                 PROVE  returned'[[key |-> k, text |-> entries[k].text]] = entries[k].answer
      BY <2>1 DEF KeptWasReturned
    <3>1. [key |-> k, text |-> entries[k].text] \in Questions
      BY EntryFields DEF Questions
    <3>2. returned' = [returned EXCEPT ![q] = entries[q.key].answer]
      BY <1>5, <2>1 DEF Return
    <3>3. CASE [key |-> k, text |-> entries[k].text] = q
      BY <3>1, <3>2, <3>3 DEF AskedInv
    <3>4. CASE [key |-> k, text |-> entries[k].text] # q
      BY <3>1, <3>2, <3>4 DEF AskedInv, KeptWasReturned
    <3> QED BY <3>3, <3>4
  <2> QED BY <1>3, <2>2, <2>3
<1>6. CASE /\ served'.answer = Nothing
           /\ pc' = "run" /\ asked' = q
           /\ UNCHANGED <<run, response, expired, returned>>
  <2>1. entries'[q.key] = Nothing \/ entries'[q.key].text # q.text
    BY <1>1, <1>2, <1>6, GetEffect, NothingAssumption
  <2>2. AskedInv' /\ MissInv'
    BY <1>6, <2>1 DEF AskedInv, MissInv
  <2>3. KeptWasReturned'
    BY <1>4, <1>6 DEF KeptWasReturned
  <2> QED BY <1>3, <2>2, <2>3
<1> QED BY <1>5, <1>6 DEF Ask

(* A new filing and a tick change no entry's question or answer.               *)
LEMMA WorldKeepsInv ==
  ASSUME CacheInv, Observe \/ TimePasses
  PROVE  CacheInv'
<1> USE DEF CacheInv
<1>1. CASE Observe
  BY <1>1, CacheAssumption
     DEF Observe, NewFiling, serviceVars, EntriesInv, AskedInv, MissInv, KeptWasReturned, Entry
<1>2. CASE TimePasses
  <2>1. /\ entries' = [k \in Keys |-> Older(entries[k])]
        /\ UNCHANGED <<newest, pc, asked, run, response, expired, returned>>
    BY <1>2 DEF TimePasses, Tick, serviceVars
  <2>2. \A k \in Keys :
          /\ entries[k] = Nothing => entries'[k] = Nothing
          /\ entries[k] # Nothing =>
               /\ entries'[k] \in Entry /\ entries'[k] # Nothing
               /\ entries'[k].mark = entries[k].mark
               /\ entries'[k].text = entries[k].text
               /\ entries'[k].answer = entries[k].answer
    <3> SUFFICES ASSUME NEW k \in Keys, entries[k] # Nothing
                 PROVE  LET e == entries'[k]
                        IN /\ e \in Entry /\ e # Nothing
                           /\ e.mark = entries[k].mark /\ e.text = entries[k].text
                           /\ e.answer = entries[k].answer
      BY <2>1 DEF Older
    <3>1. entries[k] \in Entry /\ entries[k].age \in 0..Ttl
      BY EntryFields
    <3>2. CASE entries[k].age = Ttl
      BY <2>1, <3>1, <3>2 DEF Older
    <3>3. CASE entries[k].age # Ttl
      <4>1. entries'[k] = [entries[k] EXCEPT !.age = @ + 1]
        BY <2>1, <3>3 DEF Older
      <4>2. entries[k].age + 1 \in 0..Ttl
        BY <3>1, <3>3, CacheAssumption
      <4>3. entries'[k] \in Entry
        BY <3>1, <4>1, <4>2 DEF Entry
      <4> QED BY <3>1, <4>1, <4>3, NothingAssumption DEF Entry
    <3> QED BY <3>2, <3>3
  <2>3. entries' \in [Keys -> Entry \cup {Nothing}]
    BY <2>1, <2>2 DEF EntriesInv
  <2>4. EntriesInv'
    BY <2>1, <2>2, <2>3 DEF EntriesInv
  <2>5. AskedInv'
    BY <2>1 DEF AskedInv
  <2>6. MissInv'
    BY <2>1, <2>2 DEF MissInv, AskedInv, Questions
  <2>7. KeptWasReturned'
    BY <2>1, <2>2 DEF KeptWasReturned, EntriesInv
  <2> QED BY <2>4, <2>5, <2>6, <2>7
<1> QED BY <1>1, <1>2

(* The steps from the run to the builder leave the cache alone.                *)
LEMMA RunKeepsInv ==
  ASSUME CacheInv, Expire \/ EndRun \/ FirstCheck \/ Build
  PROVE  CacheInv'
BY DEF CacheInv, EntriesInv, AskedInv, MissInv, KeptWasReturned, cacheVars,
       Expire, EndRun, FirstCheck, Build, Raise

(* The put: an answer that is kept is the one that is returned.                *)
LEMMA StoreKeepsInv ==
  ASSUME CacheInv, SecondCheck
  PROVE  CacheInv'
<1> USE DEF CacheInv
<1>1. CASE Raise /\ UNCHANGED cacheVars
  BY <1>1 DEF EntriesInv, AskedInv, MissInv, KeptWasReturned, cacheVars, Raise
<1>2. CASE pc = "check2" /\ response # Nothing /\ Store /\ Return(asked, response)
  <2>1. /\ asked \in Questions /\ asked.key \in Keys /\ asked.text \in Spellings
        /\ asked = [key |-> asked.key, text |-> asked.text] /\ response \in Answers
    BY <1>2 DEF AskedInv, Questions
  <2>2. PICK ok \in BOOLEAN : Put(asked.key, asked.text, response, ok)
    BY <1>2 DEF Store
  <2> DEFINE e == [text |-> asked.text, answer |-> response, age |-> 0, mark |-> newest]
  <2>3. /\ newest' = newest
        /\ entries' \in [Keys -> Entry \cup {Nothing}]
        /\ entries'[asked.key] \in {Nothing, e, entries[asked.key]}
        /\ \A k \in Keys \ {asked.key} : entries'[k] \in {Nothing, entries[k]}
    BY <2>1, <2>2, PutEffect DEF EntriesInv
  <2>4. EntriesInv'
    BY <2>3, CacheAssumption DEF EntriesInv
  <2>5. AskedInv' /\ MissInv'
    BY <1>2, <2>1 DEF AskedInv, MissInv, Return
  <2>6. returned' = [returned EXCEPT ![asked] = response]
    BY <1>2 DEF Return
  <2>7. ASSUME NEW k \in Keys, entries'[k] # Nothing
        PROVE  returned'[[key |-> k, text |-> entries'[k].text]] = entries'[k].answer
    <3>1. CASE k = asked.key /\ entries'[k] = e
      BY <2>1, <2>6, <3>1 DEF AskedInv
    <3>2. CASE entries'[k] = entries[k]
      <4>1. [key |-> k, text |-> entries[k].text] \in Questions
        BY <2>7, <3>2, EntryFields DEF Questions
      <4>2. [key |-> k, text |-> entries[k].text] # asked
        BY <1>2, <2>7, <3>2 DEF MissInv
      <4> QED BY <2>6, <2>7, <3>2, <4>1, <4>2 DEF AskedInv, KeptWasReturned
    <3> QED BY <2>3, <2>7, <3>1, <3>2
  <2>8. KeptWasReturned'
    BY <2>7 DEF KeptWasReturned
  <2> QED BY <2>4, <2>5, <2>8
<1> QED BY <1>1, <1>2 DEF SecondCheck, IdentityMatches

LEMMA CacheInvStep == CacheInv /\ [ServiceNext]_<<cacheVars, serviceVars>> => CacheInv'
<1> SUFFICES ASSUME CacheInv, [ServiceNext]_<<cacheVars, serviceVars>> PROVE CacheInv'
  OBVIOUS
<1>1. CASE UNCHANGED <<cacheVars, serviceVars>>
  BY <1>1 DEF CacheInv, EntriesInv, AskedInv, MissInv, KeptWasReturned, cacheVars, serviceVars
<1> QED BY <1>1, AskKeepsInv, WorldKeepsInv, RunKeepsInv, StoreKeepsInv DEF ServiceNext
-------------------------------------------------------------------------------
(* The refinement: what may be reused of the lazily purged entries.            *)

Valid == [k \in Keys |-> ValidAnswer(k)]

Offer(e) == [text |-> e.text, answer |-> e.answer, age |-> e.age]

(* What is offered for reuse can be told from nothing.                         *)
LEMMA NothingIsNoOffer ==
  ASSUME NEW e \in Entry PROVE Offer(e) # Nothing
BY NothingAssumption DEF Offer, Entry

LEMMA FreshInit == ServiceInit => Fresh!Init
BY DEF ServiceInit, CacheInit, ValidAnswer, Fresh!Init

(* A key whose entry stays or goes offers the same or nothing.                 *)
LEMMA Dropped ==
  ASSUME newest' = newest, NEW k \in Keys, entries'[k] \in {Nothing, entries[k]}
  PROVE  ValidAnswer(k)' \in {Nothing, ValidAnswer(k)}
BY DEF ValidAnswer

LEMMA AskImplements ==
  ASSUME CacheInv, NEW q \in Questions, Ask(q)
  PROVE  Fresh!Next
<1>1. PICK ok \in BOOLEAN : Get(q.key, q.text, ok)
  BY DEF Ask
<1>2. q.key \in Keys /\ q.text \in Spellings
  BY DEF Questions
<1>3. CASE served'.answer = Nothing
  <2>1. /\ newest' = newest
        /\ served' = [key |-> q.key, text |-> q.text, answer |-> Nothing]
        /\ \A k \in Keys : entries'[k] \in {Nothing, entries[k]}
    BY <1>1, <1>2, <1>3, GetEffect, NothingAssumption DEF CacheInv, EntriesInv
  <2>2. \A k \in Keys : Valid'[k] \in {Nothing, Valid[k]}
    BY <2>1, Dropped DEF Valid
  <2>3. Fresh!Miss(q.key, q.text)
    BY <2>1, <2>2 DEF Fresh!Miss, Fresh!Forgetting, Valid
  <2> QED BY <1>2, <2>3 DEF Fresh!Next
<1>4. CASE served'.answer # Nothing
  <2>1. /\ newest' = newest /\ entries' = entries
        /\ entries[q.key] # Nothing /\ entries[q.key].mark = newest
        /\ entries[q.key].age < Ttl /\ entries[q.key].text = q.text
        /\ served' = [key |-> q.key, text |-> q.text, answer |-> entries[q.key].answer]
    BY <1>1, <1>2, <1>4, GetEffect DEF CacheInv
  <2>2. Valid[q.key] = Offer(entries[q.key])
    BY <1>2, <2>1 DEF Valid, ValidAnswer, Offer
  <2>3. Offer(entries[q.key]) # Nothing
    BY <1>2, <2>1, EntryFields, NothingIsNoOffer DEF CacheInv
  <2>4. Valid' = Valid
    BY <2>1 DEF Valid, ValidAnswer
  <2>5. Fresh!Reuse(q.key, q.text)
    BY <2>1, <2>2, <2>3, <2>4 DEF Fresh!Reuse, Valid, Offer
  <2> QED BY <1>2, <2>5 DEF Fresh!Next
<1> QED BY <1>3, <1>4

LEMMA ObserveImplements ==
  ASSUME CacheInv, Observe
  PROVE  Fresh!Next
<1>1. newest' = newest + 1 /\ entries' = entries /\ served' = served
  BY DEF Observe, NewFiling
<1>2. \A k \in Keys : entries[k] # Nothing => entries[k].mark # newest'
  BY <1>1, EntryFields, CacheAssumption DEF CacheInv, EntriesInv
<1>3. Fresh!NewFiling
  BY <1>1, <1>2 DEF Fresh!NewFiling, ValidAnswer
<1> QED BY <1>3 DEF Fresh!Next

(* An entry at its time limit offers nothing, and one that is a tick before it *)
(* comes to offer nothing.                                                     *)
LEMMA TickImplements ==
  ASSUME CacheInv, TimePasses
  PROVE  Fresh!Next
<1>1. /\ entries' = [k \in Keys |-> Older(entries[k])]
      /\ newest' = newest /\ served' = served
  BY DEF TimePasses, Tick
<1>2. ASSUME NEW k \in Keys
      PROVE  Valid'[k] = Fresh!Aged(Valid[k])
  <2>1. CASE entries[k] = Nothing
    BY <1>1, <2>1 DEF Older, Valid, ValidAnswer, Fresh!Aged
  <2>2. CASE entries[k] # Nothing /\ entries[k].age = Ttl
    BY <1>1, <2>2, CacheAssumption DEF Older, Valid, ValidAnswer, Fresh!Aged
  <2>3. CASE entries[k] # Nothing /\ entries[k].age # Ttl
    <3>1. /\ entries[k] \in Entry /\ entries[k].age \in 0..Ttl
          /\ entries[k].age < Ttl
      BY <2>3, EntryFields, CacheAssumption DEF CacheInv
    <3>2. entries'[k] = [entries[k] EXCEPT !.age = @ + 1]
      BY <1>1, <2>3 DEF Older
    <3>3. /\ entries'[k].age = entries[k].age + 1
          /\ entries'[k].mark = entries[k].mark
          /\ entries'[k].text = entries[k].text
          /\ entries'[k].answer = entries[k].answer
      BY <3>1, <3>2 DEF Entry
    <3>4. entries'[k] # Nothing
      BY <3>1, <3>2, <3>3, NothingAssumption, CacheAssumption DEF Entry
    <3>5. CASE entries[k].mark # newest
      BY <1>1, <2>3, <3>3, <3>5 DEF Valid, ValidAnswer, Fresh!Aged
    <3>6. CASE entries[k].mark = newest
      <4>1. Valid[k] = Offer(entries[k]) /\ Valid[k] # Nothing
        BY <2>3, <3>1, <3>6, NothingIsNoOffer DEF Valid, ValidAnswer, Offer
      <4>2. CASE entries[k].age + 1 = Ttl
        <5>1. Valid'[k] = Nothing
          BY <1>1, <3>3, <4>2, CacheAssumption DEF Valid, ValidAnswer
        <5> QED BY <4>1, <4>2, <5>1 DEF Fresh!Aged, Offer
      <4>3. CASE entries[k].age + 1 # Ttl
        <5>1. entries'[k].age < Ttl
          BY <3>1, <3>3, <4>3, CacheAssumption
        <5>2. Valid'[k] = Offer(entries'[k])
          BY <1>1, <3>3, <3>4, <3>6, <5>1 DEF Valid, ValidAnswer, Offer
        <5>3. Fresh!Aged(Valid[k]) = [Valid[k] EXCEPT !.age = @ + 1]
          BY <4>1, <4>3 DEF Fresh!Aged, Offer
        <5> QED BY <3>3, <4>1, <5>2, <5>3 DEF Offer
      <4> QED BY <4>2, <4>3
    <3> QED BY <3>5, <3>6
  <2> QED BY <2>1, <2>2, <2>3
<1>3. Fresh!Tick
  BY <1>1, <1>2 DEF Fresh!Tick, Valid
<1> QED BY <1>3 DEF Fresh!Next

LEMMA StoreImplements ==
  ASSUME CacheInv, SecondCheck
  PROVE  Fresh!Next \/ UNCHANGED Fresh!vars
<1>1. CASE UNCHANGED cacheVars
  BY <1>1 DEF cacheVars, Fresh!vars, ValidAnswer
<1>2. CASE pc = "check2" /\ response # Nothing /\ Store
  <2>1. asked.key \in Keys /\ asked.text \in Spellings /\ response \in Answers
    BY <1>2 DEF CacheInv, AskedInv, Questions
  <2>2. PICK ok \in BOOLEAN : Put(asked.key, asked.text, response, ok)
    BY <1>2 DEF Store
  <2> DEFINE e == [text |-> asked.text, answer |-> response, age |-> 0, mark |-> newest]
             new == [text |-> asked.text, answer |-> response, age |-> 0]
  <2>3. CASE entries' = entries
    <3>1. newest' = newest /\ served' = served
      BY <2>1, <2>2, PutEffect DEF CacheInv
    <3> QED BY <2>3, <3>1 DEF Fresh!vars, ValidAnswer
  <2>4. CASE /\ entries'[asked.key] \in {Nothing, e}
             /\ \A q \in Keys \ {asked.key} : entries'[q] \in {Nothing, entries[q]}
    <3>1. newest' = newest /\ served' = served
      BY <2>1, <2>2, PutEffect DEF CacheInv
    <3>2. \A k \in Keys \ {asked.key} : Valid'[k] \in {Nothing, Valid[k]}
      BY <2>4, <3>1, Dropped DEF Valid
    <3>3. Valid'[asked.key] \in {Nothing, new}
      BY <2>1, <2>4, <3>1, CacheAssumption DEF Valid, ValidAnswer
    <3>4. Fresh!Store(asked.key, asked.text, response)
      BY <2>1, <3>1, <3>2, <3>3 DEF Fresh!Store, Fresh!Forgetting, Valid
    <3> QED BY <2>1, <3>4 DEF Fresh!Next
  <2> QED BY <2>1, <2>2, <2>3, <2>4, PutEffect DEF CacheInv
<1> QED BY <1>1, <1>2 DEF SecondCheck, IdentityMatches

LEMMA FreshStep ==
  CacheInv /\ [ServiceNext]_<<cacheVars, serviceVars>> => [Fresh!Next]_(Fresh!vars)
<1> SUFFICES ASSUME CacheInv, [ServiceNext]_<<cacheVars, serviceVars>>
             PROVE  [Fresh!Next]_(Fresh!vars)
  OBVIOUS
<1>1. CASE UNCHANGED cacheVars
  BY <1>1 DEF cacheVars, Fresh!vars, ValidAnswer
<1>2. CASE Expire \/ EndRun \/ FirstCheck \/ Build
  BY <1>1, <1>2 DEF Expire, EndRun, FirstCheck, Build
<1> QED
  BY <1>1, <1>2, AskImplements, ObserveImplements, TickImplements, StoreImplements DEF ServiceNext

-------------------------------------------------------------------------------
(* The theorems.                                                               *)

(* What is kept for a question is the last answer a caller got to it, for      *)
(* every size of the cache and whatever it evicts (service.py:137-146).        *)
THEOREM KeptIsReturned == ServiceSpec => []KeptWasReturned
<1>1. CacheInv => KeptWasReturned BY DEF CacheInv
<1> QED BY <1>1, CacheInvInit, CacheInvStep, PTL DEF ServiceSpec

(* Every step of the service with its lazily purged cache is a step, or none,  *)
(* of the cache that forgets an answer the moment its time is up or a newer    *)
(* filing is observed (cache.py:112-141).                                      *)
THEOREM LazyPurgingIsImmediate == ServiceSpec => ImplementsFreshAnswers
<1> QED BY FreshInit, FreshStep, CacheInvInit, CacheInvStep, PTL
        DEF ServiceSpec, ImplementsFreshAnswers, Fresh!Spec
===============================================================================
