---------------------------- MODULE ResponseCache -----------------------------
(* BoundedResponseCache of src/disclosure_agent/runtime/cache.py.  A key stands *)
(* for a question id and the hash of the normalised question: the spellings of *)
(* one key differ in case, width or blanks.  The releases and versions in the  *)
(* key are constants of the process and left out.                              *)
EXTENDS Naturals, Sequences, SequencesExt

CONSTANTS
  Keys,        \* question id and normalised question
  Spellings,   \* the questions as they are written
  Answers,     \* the responses the service hands in
  Nothing,     \* no entry, no answer
  MaxEntries,  \* max_entries
  Ttl,         \* ttl_seconds, in ticks
  MaxFiling    \* bound on the filings observed

ASSUME CacheAssumption ==
  /\ MaxEntries \in Nat \ {0}
  /\ Ttl \in Nat \ {0}
  /\ MaxFiling \in Nat

VARIABLES
  entries,   \* the entry of each key
  order,     \* the OrderedDict's keys, least recently used first
  newest,    \* the newest filing the source has observed: its watermark
  served     \* the last get and what it returned

cacheVars == <<entries, order, newest, served>>

Entry == [text : Spellings, answer : Answers, age : 0..Ttl, mark : 0..MaxFiling]

CacheTypeOK ==
  /\ entries \in [Keys -> Entry \cup {Nothing}]
  /\ order \in Seq(Keys)
  /\ newest \in 0..MaxFiling
  /\ served \in {Nothing} \cup [key : Keys, text : Spellings, answer : Answers \cup {Nothing}]

CacheInit ==
  /\ entries = [k \in Keys |-> Nothing]
  /\ order = <<>>
  /\ newest = 0
  /\ served = Nothing

(* The watermark, which the source may fail to give.                           *)
Watermark(ok) == IF ok THEN newest ELSE Nothing

StaleByAgeOnly(e, w) == w = Nothing \/ e.age >= Ttl   \* faulty variant: the watermark is not compared

(* A get drops the entry when the watermark cannot be read, has moved on since *)
(* the put, or the entry's time is up.                                         *)
Stale(e, w) == w = Nothing \/ e.mark # w \/ e.age >= Ttl

Miss(k, t) == served' = [key |-> k, text |-> t, answer |-> Nothing]

(* The key becomes the most recently used one.                                 *)
Used(o, k) == Append(Remove(o, k), k)

Get(k, t, ok) ==
  /\ UNCHANGED newest
  /\ \/ /\ entries[k] = Nothing
        /\ Miss(k, t)
        /\ UNCHANGED <<entries, order>>
     \/ /\ entries[k] # Nothing
        /\ Stale(entries[k], Watermark(ok))
        /\ entries' = [entries EXCEPT ![k] = Nothing]
        /\ order' = Remove(order, k)
        /\ Miss(k, t)
     \/ /\ entries[k] # Nothing
        /\ ~Stale(entries[k], Watermark(ok))
        /\ entries[k].text # t
        /\ Miss(k, t)
        /\ UNCHANGED <<entries, order>>
     \/ /\ entries[k] # Nothing
        /\ ~Stale(entries[k], Watermark(ok))
        /\ entries[k].text = t
        /\ order' = Used(order, k)
        /\ served' = [key |-> k, text |-> t, answer |-> entries[k].answer]
        /\ UNCHANGED entries

Storable(w) == w # Nothing

(* A put stamps the answer with the watermark of this moment, and evicts the   *)
(* least recently used entry when there is one too many.                       *)
Put(k, t, a, ok) ==
  /\ UNCHANGED <<newest, served>>
  /\ \/ /\ ~Storable(Watermark(ok))
        /\ UNCHANGED <<entries, order>>
     \/ LET o   == Used(order, k)
            e   == [text |-> t, answer |-> a, age |-> 0, mark |-> Watermark(ok)]
            out == IF Len(o) > MaxEntries THEN {Head(o)} ELSE {}
        IN /\ Storable(Watermark(ok))
           /\ entries' = [q \in Keys |-> IF q \in out THEN Nothing ELSE IF q = k THEN e ELSE entries[q]]
           /\ order' = IF out = {} THEN o ELSE Tail(o)

(* The source observes a filing newer than all before it.                      *)
NewFiling ==
  /\ newest < MaxFiling
  /\ newest' = newest + 1
  /\ UNCHANGED <<entries, order, served>>

(* Time passes; an age is counted only until it is over the limit.             *)
Older(e) == IF e = Nothing \/ e.age = Ttl THEN e ELSE [e EXCEPT !.age = @ + 1]

Tick ==
  /\ \E k \in Keys : Older(entries[k]) # entries[k]
  /\ entries' = [k \in Keys |-> Older(entries[k])]
  /\ UNCHANGED <<order, newest, served>>

-------------------------------------------------------------------------------
(* Lazy purging at the next get serves exactly what immediate invalidation     *)
(* would: docs/OPENDART_IMPROVEMENT_ROADMAP.md:53 (cache.py:112-125).          *)
ValidAnswer(k) ==
  LET e == entries[k]
  IN IF e # Nothing /\ e.mark = newest /\ e.age < Ttl
     THEN [text |-> e.text, answer |-> e.answer, age |-> e.age] ELSE Nothing

Fresh == INSTANCE FreshAnswers WITH valid <- [k \in Keys |-> ValidAnswer(k)]

ImplementsFreshAnswers == Fresh!Spec
===============================================================================
