----------------------------- MODULE DnsServer -----------------------------
(***************************************************************************)
(* The answers of the engine's resolver (dns.rs): names that get an address *)
(* of their own out of a small range (FakeIp), and names asked of a server  *)
(* over a stream that is kept for the next question (exchange_cached,       *)
(* exchange_stream).                                                        *)
(*                                                                          *)
(* The time a reply may be kept and the five seconds a question may take    *)
(* end at any moment.  A reply is the name it answers.                      *)
(***************************************************************************)
EXTENDS Naturals, Sequences

CONSTANTS
  Names,       \* names asked for
  Size,        \* v4_size: addresses of the range
  Questions,   \* questions being worked on at once
  Streams,     \* connections to the server
  NoStream,
  MaxQuestions \* (bound) questions put to the server

ASSUME DnsAssumption ==
  /\ Size \in Nat \ {0, 1} /\ MaxQuestions \in Nat
  /\ NoStream \notin Streams

VARIABLES
  next,     \* FakeIp.next; what is left of it when divided by Size
  byName,   \* FakeIp.by_name
  byIndex,  \* FakeIp.by_index
  given,    \* (history) whom each address was last given to in an answer
  question, \* exchange: how far each question has come
  pool,     \* Server.pool
  unread,   \* what a stream was asked and has not been read of it yet, in order
  cache,    \* Server.cache: the reply kept for a name
  asked     \* (bound) questions so far

fakeVars == <<next, byName, byIndex, given>>
streamVars == <<question, pool, unread, cache, asked>>
dnsVars == <<fakeVars, streamVars>>

Put(f, x, v) == [y \in DOMAIN f \cup {x} |-> IF y = x THEN v ELSE f[y]]
Dropped(f, S) == [y \in DOMAIN f \ S |-> f[y]]

----------------------------------------------------------------------------
(* FakeIp.  index_for holds the lock of by_name throughout, so it is one    *)
(* step; `lookup` (dial_target of engine.rs) reads by_index.                *)

Indices == 0 .. Size - 1
OwnerMutant(i) == {}

Owner(i) == IF i \in DOMAIN byIndex THEN {byIndex[i]} ELSE {}

Known(n) ==
  /\ n \in DOMAIN byName
  /\ given' = Put(given, byName[n], n)
  /\ UNCHANGED <<next, byName, byIndex>>

NewIndex(n) ==
  /\ n \notin DOMAIN byName
  /\ next' = (next + 1) % Size
  /\ byIndex' = Put(byIndex, next, n)
  /\ byName' = Put(Dropped(byName, Owner(next)), n, next)
  /\ given' = Put(given, next, n)

Allocate(n) == (Known(n) \/ NewIndex(n)) /\ UNCHANGED streamVars

----------------------------------------------------------------------------
(* A question to a server.  "old": sent on the stream of the pool; "dial":  *)
(* a new one is being opened; "new": sent on it.                            *)

Idle == [at |-> "idle"]
On(q) == question[q].at \in {"old", "new"}
Unused == {s \in Streams : s # pool /\ \A q \in Questions : On(q) => question[q].stream # s}
Works(q, at, n, s) == question' = [question EXCEPT ![q] = [at |-> at, name |-> n, stream |-> s]]
Done(q) == question' = [question EXCEPT ![q] = Idle]
Sent(s, n) == unread' = [unread EXCEPT ![s] = Append(@, n)]

\* exchange_cached, and exchange_stream up to its first answer: the stream of
\* the pool is taken out of it.  A kept reply is the whole answer.
Ask(q, n) ==
  /\ question[q] = Idle /\ asked < MaxQuestions /\ n \notin DOMAIN cache
  /\ asked' = asked + 1
  /\ pool' = NoStream
  /\ \/ pool # NoStream /\ Works(q, "old", n, pool) /\ Sent(pool, n)
     \/ pool = NoStream /\ Works(q, "dial", n, NoStream) /\ UNCHANGED unread
  /\ UNCHANGED <<cache, fakeVars>>

Open(q) ==
  /\ question[q].at = "dial"
  /\ \E s \in Unused :
       /\ Works(q, "new", question[q].name, s)
       /\ unread' = [unread EXCEPT ![s] = <<question[q].name>>]
  /\ UNCHANGED <<pool, cache, asked, fakeVars>>

\* tcp_roundtrip: the next reply on the stream is taken for ours.  The stream
\* goes back into the pool and the reply, if it may be kept, into the cache.
Reply(q) ==
  /\ On(q)
  /\ LET s == question[q].stream
     IN /\ unread[s] # <<>>
        /\ cache' \in {cache, Put(cache, question[q].name, Head(unread[s]))}
        /\ unread' = [unread EXCEPT ![s] = Tail(@)]
        /\ pool' = s
  /\ Done(q)
  /\ UNCHANGED <<asked, fakeVars>>

\* An error on the kept stream: once more on a new one.
Again(q) ==
  /\ question[q].at = "old"
  /\ Works(q, "dial", question[q].name, NoStream)
  /\ UNCHANGED <<pool, unread, cache, asked, fakeVars>>

GiveUpMutant(q) ==    \* the stream is kept whatever became of the question
  /\ question[q] # Idle
  /\ Done(q)
  /\ pool' = IF On(q) THEN question[q].stream ELSE pool
  /\ UNCHANGED <<unread, cache, asked, fakeVars>>

\* QUERY_TIMEOUT, or an error that is not tried again: the stream is dropped.
GiveUp(q) ==
  /\ question[q] # Idle
  /\ Done(q)
  /\ UNCHANGED <<pool, unread, cache, asked, fakeVars>>

\* The reply has been kept for its time, or the cache is full and cleared.
Forget ==
  /\ \E N \in {DOMAIN cache} \cup {{n} : n \in DOMAIN cache} :
       N # {} /\ cache' = Dropped(cache, N)
  /\ UNCHANGED <<question, pool, unread, asked, fakeVars>>

----------------------------------------------------------------------------

DnsInit ==
  /\ next = 2 % Size
  /\ byName = [n \in {} |-> 0] /\ byIndex = [i \in {} |-> 0] /\ given = [i \in {} |-> 0]
  /\ question = [q \in Questions |-> Idle]
  /\ pool = NoStream
  /\ unread = [s \in Streams |-> <<>>]
  /\ cache = [n \in {} |-> 0]
  /\ asked = 0

DnsNext ==
  \/ \E n \in Names : Allocate(n)
  \/ \E q \in Questions :
       (\E n \in Names : Ask(q, n)) \/ Open(q) \/ Reply(q) \/ Again(q) \/ GiveUp(q)
  \/ Forget

DnsSpec == DnsInit /\ [][DnsNext]_dnsVars

----------------------------------------------------------------------------
(* An address leads to the name it was last given to, whatever was asked    *)
(* since and however often the range has been gone round: a connection to   *)
(* the address in the newest answer goes to the name that was asked for     *)
(* (dns.rs, index_for and lookup; dial_target of engine.rs).                *)
AnswerHolds ==
  \A i \in DOMAIN given : i \in DOMAIN byIndex /\ byIndex[i] = given[i]

\* No name is answered with the reply to another: not when a question is given
\* up while its reply is under way, not when the stream is used again, not out
\* of the cache (dns.rs, exchange_stream and exchange_cached).
RightAnswer ==
  /\ \A q \in Questions : On(q) => unread[question[q].stream] = <<question[q].name>>
  /\ \A n \in DOMAIN cache : cache[n] = n
=============================================================================
