-------------------------- MODULE ComponentsProofs --------------------------
(***************************************************************************)
(* What the components beside the pipeline promise, for any calls, nesting,*)
(* keys, cap, attempts, chunks, pages, values, steps, responses, readers,  *)
(* producer and owned dispatchers: the store holds the latest context of   *)
(* each running call, a call has one operation span and the LOGGING step   *)
(* hands on what it was given; and what is held is released, by walks,     *)
(* subscriptions, recovery chains, the readers of a response and a send()  *)
(* of either client.  And what a builder builds can be driven, and a host  *)
(* goes around a proxy when one of the globs fits it.                      *)
(*                                                                         *)
(* The lemmas on the store's Map say which entries an install and a close  *)
(* leave; the rest of the proof speaks of entries only, never of positions.*)
(***************************************************************************)
EXTENDS Components, PipelineBuilder, ProxySettings, SequenceFacts, FiniteSetTheorems, SequenceTheorems, TLAPS

KeysDiffer(s) == \A i, j \in DOMAIN s : s[i].key = s[j].key => i = j

-----------------------------------------------------------------------------
(* The store's Map                                                         *)

LEMMA EntryIsContext ==
  ASSUME NEW s \in Seq(Contexts), NEW e \in Entries(s)
  PROVE  e \in Contexts /\ e.call \in Calls
<1>1. e \in Contexts
  BY DEF Entries
<1> QED BY <1>1 DEF Contexts

\* Map.set displaces the entry of the same key and no other.
LEMMA PutEntries ==
  ASSUME NEW s \in Seq(Contexts), NEW x \in Contexts, KeysDiffer(s)
  PROVE  /\ Put(s, x) \in Seq(Contexts)
         /\ KeysDiffer(Put(s, x))
         /\ Entries(Put(s, x)) = {e \in Entries(s) : e.key # x.key} \cup {x}
         /\ \/ Len(Put(s, x)) = Len(s)
            \/ Len(Put(s, x)) = Len(s) + 1 /\ Put(s, x)[Len(s) + 1] = x
<1> DEFINE p == Put(s, x)
<1>1. CASE \E i \in DOMAIN s : s[i].key = x.key
  <2>1. p = [i \in DOMAIN s |-> IF s[i].key = x.key THEN x ELSE s[i]]
    BY <1>1 DEF Put
  <2>2. p \in Seq(Contexts) /\ Len(p) = Len(s) /\ DOMAIN p = DOMAIN s
    BY <2>1
  <2>3. KeysDiffer(p)
    BY <2>1, <2>2 DEF KeysDiffer
  <2>4. Entries(p) = {e \in Entries(s) : e.key # x.key} \cup {x}
    BY <1>1, <2>1, <2>2 DEF Entries
  <2> HIDE DEF p
  <2> QED BY <2>2, <2>3, <2>4 DEF p
<1>2. CASE ~\E i \in DOMAIN s : s[i].key = x.key
  <2>1. p = Append(s, x)
    BY <1>2 DEF Put
  <2>2. /\ p \in Seq(Contexts) /\ Len(p) = Len(s) + 1 /\ p[Len(s) + 1] = x
        /\ \A i \in 1 .. Len(s) : p[i] = s[i]
        /\ DOMAIN p = 1 .. Len(s) + 1 /\ DOMAIN s = 1 .. Len(s) /\ Len(s) \in Nat
    BY <2>1
  <2> HIDE DEF p
  <2>3. KeysDiffer(p)
    BY <1>2, <2>2 DEF KeysDiffer
  <2>4. Entries(p) = {e \in Entries(s) : e.key # x.key} \cup {x}
    BY <1>2, <2>2 DEF Entries
  <2> QED BY <2>2, <2>3, <2>4 DEF p
<1> QED BY <1>1, <1>2

\* The drain evicts from the oldest on and leaves the newest.
LEMMA DrainEntries ==
  ASSUME NEW s \in Seq(Contexts), KeysDiffer(s), CallsAssumption
  PROVE  /\ Drain(s) \in Seq(Contexts)
         /\ KeysDiffer(Drain(s))
         /\ Entries(Drain(s)) \subseteq Entries(s)
         /\ Len(Drain(s)) <= MaxEntries
         /\ Len(s) <= MaxEntries => Drain(s) = s
         /\ Len(s) > 0 => s[Len(s)] \in Entries(Drain(s))
<1>0. MaxEntries \in Nat /\ MaxEntries > 0 /\ Len(s) \in Nat /\ DOMAIN s = 1 .. Len(s)
  BY DEF CallsAssumption
<1>1. CASE Len(s) > MaxEntries
  <2> DEFINE cut == Len(s) - MaxEntries
             d == SubSeq(s, cut + 1, Len(s))
  <2>1. Drain(s) = d
    BY <1>1 DEF Drain
  <2>2. cut \in Nat /\ cut + 1 \in 1 .. Len(s) /\ cut + MaxEntries = Len(s)
    BY <1>0, <1>1
  <2>3. /\ d \in Seq(Contexts) /\ Len(d) = MaxEntries /\ DOMAIN d = 1 .. MaxEntries
        /\ \A i \in 1 .. MaxEntries : d[i] = s[cut + i]
    <3>1. cut + 1 \in Int /\ Len(s) \in Int /\ \A i \in cut + 1 .. Len(s) : s[i] \in Contexts
      BY <1>0, <2>2
    <3>2. /\ d \in Seq(Contexts)
          /\ Len(d) = IF cut + 1 <= Len(s) THEN Len(s) - (cut + 1) + 1 ELSE 0
          /\ \A i \in 1 .. Len(s) - (cut + 1) + 1 : d[i] = s[cut + 1 + i - 1]
      BY <3>1, SubSeqProperties
    <3> HIDE DEF d
    <3> QED BY <1>0, <2>2, <3>2
  <2> HIDE DEF d, cut
  <2>4. ASSUME NEW k \in DOMAIN d
        PROVE  cut + k \in DOMAIN s /\ d[k] = s[cut + k]
    BY <1>0, <2>2, <2>3
  <2>5. KeysDiffer(d)
    <3> SUFFICES ASSUME NEW j \in DOMAIN d, NEW k \in DOMAIN d, d[j].key = d[k].key PROVE j = k
      BY DEF KeysDiffer
    <3>1. cut + j = cut + k
      BY <2>4 DEF KeysDiffer
    <3> QED BY <2>2, <2>3, <3>1
  <2>6. Entries(d) \subseteq Entries(s)
    BY <2>4 DEF Entries
  <2>7. s[Len(s)] \in Entries(d)
    BY <1>0, <2>2, <2>3 DEF Entries
  <2> QED BY <1>0, <1>1, <2>1, <2>3, <2>5, <2>6, <2>7
<1>2. CASE ~(Len(s) > MaxEntries)
  BY <1>0, <1>2 DEF Drain, Entries
<1> QED BY <1>1, <1>2

\* An install leaves the new context and some of the others' entries, none of
\* the same key.
LEMMA InstallEntries ==
  ASSUME NEW s \in Seq(Contexts), NEW x \in Contexts, KeysDiffer(s), Len(s) <= MaxEntries,
         CallsAssumption
  PROVE  /\ Install(s, x) \in Seq(Contexts)
         /\ KeysDiffer(Install(s, x))
         /\ x \in Entries(Install(s, x))
         /\ \A e \in Entries(Install(s, x)) : e = x \/ (e \in Entries(s) /\ e.key # x.key)
         /\ Len(Install(s, x)) <= MaxEntries
<1> DEFINE p == Put(s, x)
<1>1. /\ p \in Seq(Contexts) /\ KeysDiffer(p)
      /\ Entries(p) = {e \in Entries(s) : e.key # x.key} \cup {x}
      /\ Len(p) = Len(s) \/ (Len(p) = Len(s) + 1 /\ p[Len(s) + 1] = x)
  BY PutEntries
<1> HIDE DEF p
<1>2. /\ Drain(p) \in Seq(Contexts) /\ KeysDiffer(Drain(p))
      /\ Entries(Drain(p)) \subseteq Entries(p) /\ Len(Drain(p)) <= MaxEntries
      /\ Len(p) <= MaxEntries => Drain(p) = p
      /\ Len(p) > 0 => p[Len(p)] \in Entries(Drain(p))
  BY <1>1, DrainEntries
<1>3. x \in Entries(Drain(p))
  <2>1. CASE Len(p) = Len(s)
    BY <1>1, <1>2, <2>1
  <2>2. CASE Len(p) = Len(s) + 1 /\ p[Len(s) + 1] = x
    <3>1. Len(s) \in Nat
      OBVIOUS
    <3> QED BY <1>2, <2>2, <3>1
  <2> QED BY <1>1, <2>1, <2>2
<1>4. Install(s, x) = Drain(p)
  BY DEF Install, p
<1> QED BY <1>1, <1>2, <1>3, <1>4

\* How much of a sequence is left behind one of its positions.
LEMMA TailLength ==
  ASSUME NEW n \in Nat, NEW k \in 1 .. n
  PROVE  (IF k + 1 <= n THEN n - (k + 1) + 1 ELSE 0) = n - k
  OBVIOUS

\* A close removes its context and nothing else.
LEMMA CloseEntries ==
  ASSUME NEW s \in Seq(Contexts), NEW x, KeysDiffer(s)
  PROVE  /\ Close(s, x) \in Seq(Contexts)
         /\ KeysDiffer(Close(s, x))
         /\ Entries(Close(s, x)) = Entries(s) \ {x}
         /\ Len(Close(s, x)) <= Len(s)
<1>0. Len(s) \in Nat /\ DOMAIN s = 1 .. Len(s)
  OBVIOUS
<1>1. CASE \E i \in DOMAIN s : s[i] = x
  <2> DEFINE i == CHOOSE i \in DOMAIN s : s[i] = x
             a == SubSeq(s, 1, i - 1)
             b == SubSeq(s, i + 1, Len(s))
             t == a \o b
  <2>1. i \in 1 .. Len(s) /\ s[i] = x
    BY <1>0, <1>1
  <2>2. Close(s, x) = t
    BY <1>1 DEF Close
  <2> HIDE DEF i
  <2>3. /\ a \in Seq(Contexts) /\ Len(a) = i - 1
        /\ \A k \in 1 .. i - 1 : a[k] = s[k]
    <3>1. i - 1 \in Int /\ \A k \in 1 .. i - 1 : s[k] \in Contexts
      BY <1>0, <2>1
    <3>2. /\ a \in Seq(Contexts)
          /\ Len(a) = IF 1 <= i - 1 THEN i - 1 - 1 + 1 ELSE 0
          /\ \A k \in 1 .. i - 1 - 1 + 1 : a[k] = s[1 + k - 1]
      BY <3>1, SubSeqProperties
    <3> HIDE DEF a
    <3> QED BY <1>0, <2>1, <3>2
  <2>4. /\ b \in Seq(Contexts) /\ Len(b) = Len(s) - i
        /\ \A k \in 1 .. Len(s) - i : b[k] = s[i + k]
    <3>1. i + 1 \in Int /\ Len(s) \in Int /\ \A k \in i + 1 .. Len(s) : s[k] \in Contexts
      BY <1>0, <2>1
    <3>2. /\ b \in Seq(Contexts)
          /\ Len(b) = IF i + 1 <= Len(s) THEN Len(s) - (i + 1) + 1 ELSE 0
          /\ \A k \in 1 .. Len(s) - (i + 1) + 1 : b[k] = s[i + 1 + k - 1]
      BY <3>1, SubSeqProperties, SMTT(20)
    <3> HIDE DEF b
    <3>3. Len(b) = Len(s) - i
      BY <1>0, <2>1, <3>2, TailLength
    <3>4. ASSUME NEW k \in 1 .. Len(s) - i PROVE b[k] = s[i + k]
      <4>1. k \in 1 .. Len(s) - (i + 1) + 1 /\ i + 1 + k - 1 = i + k
        BY <1>0, <2>1
      <4> QED BY <3>2, <4>1
    <3> QED BY <3>2, <3>3, <3>4
  <2> HIDE DEF a, b
  <2>5. /\ t \in Seq(Contexts) /\ Len(t) = Len(s) - 1 /\ DOMAIN t = 1 .. Len(s) - 1
        /\ \A k \in 1 .. Len(s) - 1 : t[k] = IF k < i THEN s[k] ELSE s[k + 1]
    <3>1. /\ t \in Seq(Contexts) /\ Len(t) = Len(a) + Len(b)
          /\ \A k \in 1 .. Len(a) + Len(b) : t[k] = IF k <= Len(a) THEN a[k] ELSE b[k - Len(a)]
      BY <2>3, <2>4, ConcatProperties
    <3> HIDE DEF t
    <3>2. Len(t) = Len(s) - 1 /\ DOMAIN t = 1 .. Len(s) - 1
      BY <1>0, <2>1, <2>3, <2>4, <3>1
    <3>3. ASSUME NEW k \in 1 .. Len(s) - 1
          PROVE  t[k] = IF k < i THEN s[k] ELSE s[k + 1]
      <4>0. k \in 1 .. Len(a) + Len(b) /\ (k <= Len(a) <=> k < i)
        BY <1>0, <2>1, <2>3, <2>4
      <4>1. CASE k < i
        <5>1. k \in 1 .. i - 1
          BY <1>0, <2>1, <4>1
        <5> QED BY <2>3, <3>1, <4>0, <4>1, <5>1
      <4>2. CASE ~(k < i)
        <5>1. k - (i - 1) \in 1 .. Len(s) - i /\ i + (k - (i - 1)) = k + 1
          BY <1>0, <2>1, <4>2
        <5>2. t[k] = b[k - (i - 1)]
          BY <2>3, <3>1, <4>0, <4>2
        <5> QED BY <2>4, <4>2, <5>1, <5>2
      <4> QED BY <4>1, <4>2
    <3> QED BY <3>1, <3>2, <3>3
  <2> HIDE DEF t
  <2> DEFINE From(k) == IF k < i THEN k ELSE k + 1
  <2>6. ASSUME NEW k \in DOMAIN t
        PROVE  From(k) \in DOMAIN s \ {i} /\ t[k] = s[From(k)]
    BY <1>0, <2>1, <2>5
  <2>7. KeysDiffer(t)
    <3> SUFFICES ASSUME NEW j \in DOMAIN t, NEW k \in DOMAIN t, t[j].key = t[k].key PROVE j = k
      BY DEF KeysDiffer
    <3>1. From(j) = From(k)
      BY <2>6 DEF KeysDiffer
    <3> QED BY <1>0, <2>1, <2>5, <3>1
  <2>8. Entries(t) \subseteq Entries(s) \ {x}
    BY <2>1, <2>6 DEF KeysDiffer, Entries
  <2>9. ASSUME NEW k \in 1 .. Len(s), s[k] # x PROVE s[k] \in Entries(t)
    <3>1. CASE k < i
      BY <1>0, <2>1, <2>5, <3>1 DEF Entries
    <3>2. CASE k > i
      <4>1. k - 1 \in 1 .. Len(s) - 1 /\ t[k - 1] = s[k]
        BY <1>0, <2>1, <2>5, <3>2
      <4> QED BY <2>5, <4>1 DEF Entries
    <3> QED BY <1>0, <2>1, <2>9, <3>1, <3>2
  <2>10. Entries(s) \ {x} \subseteq Entries(t)
    BY <1>0, <2>9 DEF Entries
  <2> QED BY <1>0, <2>2, <2>5, <2>7, <2>8, <2>10
<1>2. CASE ~\E i \in DOMAIN s : s[i] = x
  BY <1>0, <1>2 DEF Close, Entries
<1> QED BY <1>1, <1>2

-----------------------------------------------------------------------------
(* The invariant                                                           *)

\* A running call's latest context is its own, under its own key.
OwnContext ==
  \A c \in Calls : RunningCall(c) =>
    current[c] \in Contexts /\ current[c].call = c /\ current[c].key = KeyOf[c]

\* What the place of a call says of its span, and that nobody is nested in a
\* call that has not begun.
SpansFit ==
  \A c \in Calls :
    /\ callPc[c] = "idle" => callSpan[c] = "none"
    /\ callPc[c] = "driving" => callSpan[c] \in {"none", "inherited", "open"}
    /\ callPc[c] = "answered" => callSpan[c] = "open"
    /\ callPc[c] = "failed" => callSpan[c] \in {"open", "ended"}
    /\ callPc[c] # "idle" /\ ParentOf[c] # NoCall => callPc[ParentOf[c]] # "idle"

CallsInv ==
  CallsTypeOK /\ OwnContext /\ StoreMirrorsRunningCalls /\ SpansFit /\ OperationSpanOnce

\* An install for a call that is now running: Runtime's install of either link.
LEMMA InstallMirrors ==
  ASSUME CallsAssumption, CallsTypeOK, OwnContext, StoreMirrorsRunningCalls,
         NEW c \in Calls, NEW x \in Contexts, x.call = c, x.key = KeyOf[c],
         store' = Install(store, x), current' = [current EXCEPT ![c] = x],
         \A d \in Calls \ {c} : callPc'[d] = callPc[d],
         callPc'[c] \in {"driving", "answered", "closing"},
         displaced \ {c} \subseteq displaced', Losers(store, x) \subseteq displaced'
  PROVE  StoreMirrorsRunningCalls' /\ OwnContext'
<1>0. store \in Seq(Contexts) /\ KeysDiffer(store) /\ Len(store) <= MaxEntries
  BY DEF CallsTypeOK, StoreMirrorsRunningCalls, KeysDiffer
<1>1. /\ KeysDiffer(store') /\ x \in Entries(store') /\ Len(store') <= MaxEntries
      /\ \A e \in Entries(store') : e = x \/ (e \in Entries(store) /\ e.key # x.key)
  BY <1>0, InstallEntries
<1>2. current'[c] = x /\ \A d \in Calls \ {c} : current'[d] = current[d]
  BY DEF CallsTypeOK
<1>3. \A d \in Calls \ {c} : RunningCall(d)' <=> RunningCall(d)
  BY DEF RunningCall
<1>4. OwnContext'
  BY <1>2, <1>3 DEF OwnContext
<1>5. NoEntryOutlivesItsCall'
  <2> SUFFICES ASSUME NEW e \in Entries(store') PROVE RunningCall(e.call)' /\ current'[e.call] = e
    BY DEF NoEntryOutlivesItsCall
  <2>1. CASE e = x
    BY <1>2, <2>1 DEF RunningCall
  <2>2. CASE e \in Entries(store) /\ e.key # x.key
    <3>1. RunningCall(e.call) /\ current[e.call] = e /\ e.call \in Calls
      BY <1>0, <2>2, EntryIsContext DEF StoreMirrorsRunningCalls, NoEntryOutlivesItsCall
    <3>2. e.call # c
      BY <2>2, <3>1 DEF OwnContext
    <3> QED BY <1>2, <1>3, <3>1, <3>2
  <2> QED BY <1>1, <2>1, <2>2
<1>6. OnlyInstallsDisplace'
  <2> SUFFICES ASSUME NEW d \in Calls, RunningCall(d)', d \notin displaced'
               PROVE  current'[d] \in Entries(store')
    BY DEF OnlyInstallsDisplace
  <2>1. CASE d = c
    BY <1>1, <1>2, <2>1
  <2>2. CASE d # c
    <3>1. RunningCall(d) /\ current[d] \in Entries(store) /\ current[d].call = d
      BY <1>3, <2>2 DEF StoreMirrorsRunningCalls, OnlyInstallsDisplace, OwnContext
    <3>2. PICK e \in Entries(store') : e.call = d
      BY <2>2, <3>1 DEF Losers
    <3>3. e \in Entries(store)
      BY <1>1, <2>2, <3>2
    <3>4. e = current[d]
      BY <3>2, <3>3 DEF StoreMirrorsRunningCalls, NoEntryOutlivesItsCall
    <3> QED BY <1>2, <2>2, <3>2, <3>4
  <2> QED BY <2>1, <2>2
<1> QED BY <1>1, <1>4, <1>5, <1>6 DEF StoreMirrorsRunningCalls, KeysDiffer

\* The finally's close by a call that is now settled: it takes away what this
\* call installed last, and nothing that another call put there.
LEMMA CloseMirrors ==
  ASSUME CallsTypeOK, OwnContext, StoreMirrorsRunningCalls,
         NEW c \in Calls, RunningCall(c),
         store' = Close(store, current[c]), current' = current, displaced' = displaced,
         callPc' = [callPc EXCEPT ![c] = "settled"]
  PROVE  StoreMirrorsRunningCalls' /\ OwnContext'
<1>0. /\ store \in Seq(Contexts) /\ KeysDiffer(store) /\ Len(store) <= MaxEntries
      /\ Len(store) \in Nat
  BY DEF CallsTypeOK, StoreMirrorsRunningCalls, KeysDiffer
<1>1. /\ store' \in Seq(Contexts) /\ KeysDiffer(store')
      /\ Entries(store') = Entries(store) \ {current[c]}
      /\ Len(store') <= Len(store)
  BY <1>0, CloseEntries
<1>2. /\ \A d \in Calls \ {c} : RunningCall(d)' <=> RunningCall(d)
      /\ ~RunningCall(c)'
  BY DEF RunningCall, CallsTypeOK
<1>3. OwnContext'
  BY <1>2 DEF OwnContext
<1>4. NoEntryOutlivesItsCall'
  <2> SUFFICES ASSUME NEW e \in Entries(store') PROVE RunningCall(e.call)' /\ current'[e.call] = e
    BY DEF NoEntryOutlivesItsCall
  <2>1. e \in Entries(store) /\ e # current[c]
    BY <1>1
  <2>2. RunningCall(e.call) /\ current[e.call] = e /\ e.call \in Calls
    BY <1>0, <2>1, EntryIsContext DEF StoreMirrorsRunningCalls, NoEntryOutlivesItsCall
  <2> QED BY <1>2, <2>1, <2>2
<1>5. OnlyInstallsDisplace'
  <2> SUFFICES ASSUME NEW d \in Calls, RunningCall(d)', d \notin displaced'
               PROVE  current'[d] \in Entries(store')
    BY DEF OnlyInstallsDisplace
  <2>1. d # c /\ RunningCall(d)
    BY <1>2
  <2>2. current[d] \in Entries(store) /\ current[d].call = d /\ current[c].call = c
    BY <2>1 DEF StoreMirrorsRunningCalls, OnlyInstallsDisplace, OwnContext
  <2> QED BY <1>1, <2>1, <2>2
<1>6. Len(store') <= MaxEntries
  BY <1>0, <1>1, CallsAssumption DEF CallsAssumption
<1> QED BY <1>1, <1>3, <1>4, <1>5, <1>6 DEF StoreMirrorsRunningCalls, KeysDiffer

\* A tracer factory that throws: the entry just installed goes again, and what
\* it displaced stays displaced.
LEMMA ThrowMirrors ==
  ASSUME CallsAssumption, CallsTypeOK, OwnContext, StoreMirrorsRunningCalls,
         NEW c \in Calls, callPc[c] = "idle", NEW x \in Contexts, x.call = c, x.key = KeyOf[c],
         store' = Close(Install(store, x), x), current' = [current EXCEPT ![c] = x],
         displaced' = displaced \cup Losers(store, x),
         callPc' = [callPc EXCEPT ![c] = "settled"]
  PROVE  StoreMirrorsRunningCalls' /\ OwnContext'
<1> DEFINE installed == Install(store, x)
<1>0. store \in Seq(Contexts) /\ KeysDiffer(store) /\ Len(store) <= MaxEntries
  BY DEF CallsTypeOK, StoreMirrorsRunningCalls, KeysDiffer
<1>1. /\ installed \in Seq(Contexts) /\ KeysDiffer(installed) /\ Len(installed) <= MaxEntries
      /\ \A e \in Entries(installed) : e = x \/ (e \in Entries(store) /\ e.key # x.key)
  BY <1>0, InstallEntries
<1>2. store' = Close(installed, x)
  OBVIOUS
<1> HIDE DEF installed
<1>3. /\ store' \in Seq(Contexts) /\ KeysDiffer(store')
      /\ Entries(store') = Entries(installed) \ {x} /\ Len(store') <= Len(installed)
  BY <1>1, <1>2, CloseEntries
<1>4. /\ \A d \in Calls \ {c} : current'[d] = current[d] /\ (RunningCall(d)' <=> RunningCall(d))
      /\ ~RunningCall(c)' /\ ~RunningCall(c)
  BY DEF RunningCall, CallsTypeOK
<1>5. OwnContext'
  BY <1>4 DEF OwnContext
<1>6. NoEntryOutlivesItsCall'
  <2> SUFFICES ASSUME NEW e \in Entries(store') PROVE RunningCall(e.call)' /\ current'[e.call] = e
    BY DEF NoEntryOutlivesItsCall
  <2>1. e \in Entries(store)
    BY <1>1, <1>3
  <2>2. RunningCall(e.call) /\ current[e.call] = e /\ e.call \in Calls
    BY <1>0, <2>1, EntryIsContext DEF StoreMirrorsRunningCalls, NoEntryOutlivesItsCall
  <2> QED BY <1>4, <2>2
<1>7. OnlyInstallsDisplace'
  <2> SUFFICES ASSUME NEW d \in Calls, RunningCall(d)', d \notin displaced'
               PROVE  current'[d] \in Entries(store')
    BY DEF OnlyInstallsDisplace
  <2>1. d # c /\ RunningCall(d) /\ current'[d] = current[d]
    BY <1>4
  <2>2. current[d] \in Entries(store) /\ current[d].call = d
    BY <2>1 DEF StoreMirrorsRunningCalls, OnlyInstallsDisplace, OwnContext
  <2>3. PICK e \in Entries(installed) : e.call = d
    BY <2>1, <2>2 DEF Losers, installed
  <2>4. e # x /\ e \in Entries(store)
    BY <1>1, <2>1, <2>3
  <2>5. e = current[d]
    BY <2>3, <2>4 DEF StoreMirrorsRunningCalls, NoEntryOutlivesItsCall
  <2> QED BY <1>3, <2>1, <2>3, <2>4, <2>5
<1>8. Len(store') <= MaxEntries
  BY <1>1, <1>3 DEF CallsAssumption
<1> QED BY <1>3, <1>5, <1>6, <1>7, <1>8 DEF StoreMirrorsRunningCalls, KeysDiffer

-----------------------------------------------------------------------------
(* Every step keeps the invariant                                          *)

\* The links a call installs are its own.
LEMMA LinksAreOwn ==
  ASSUME CallsAssumption, NEW c \in Calls, NEW r \in Requests
  PROVE  /\ RequestContext(c, r) \in Contexts
         /\ RequestContext(c, r).call = c /\ RequestContext(c, r).key = KeyOf[c]
         /\ RequestContext(c, r) # NoContext
  BY DEF CallsAssumption, RequestContext, Contexts, NoContext

LEMMA ExchangeIsOwn ==
  ASSUME CallsAssumption, CallsTypeOK, OwnContext, NEW c \in Calls, RunningCall(c),
         NEW sent \in Requests
  PROVE  LET x == PromoteToExchange(ExchangeSource(current[c], sent))
         IN  x \in Contexts /\ x.call = c /\ x.key = KeyOf[c]
<1> DEFINE y == ExchangeSource(current[c], sent)
<1>1. y \in Contexts /\ y.call = c /\ y.key = KeyOf[c]
  <2>1. current[c] \in Contexts /\ current[c].call = c /\ current[c].key = KeyOf[c]
    BY DEF OwnContext
  <2> QED BY <2>1, LinksAreOwn DEF ExchangeSource
<1> HIDE DEF y
<1> QED BY <1>1 DEF PromoteToExchange, Contexts, y

LEMMA CallsStart == CallsInit => CallsInv
<1> SUFFICES ASSUME CallsInit PROVE CallsInv
  OBVIOUS
<1> USE CallsAssumption DEF CallsAssumption, CallsInit
<1>1. CallsTypeOK
  BY DEF CallsTypeOK, CallState, SpanState
<1>2. OwnContext /\ StoreMirrorsRunningCalls
  BY DEF OwnContext, StoreMirrorsRunningCalls, NoEntryOutlivesItsCall, OnlyInstallsDisplace,
         RunningCall, Entries
<1>3. SpansFit /\ OperationSpanOnce
  BY DEF SpansFit, OperationSpanOnce
<1> QED BY <1>1, <1>2, <1>3 DEF CallsInv

LEMMA SendKeeps ==
  ASSUME CallsInv, NEW c \in Calls, SendEmpty(c) \/ Send(c) \/ SendFactoryThrows(c)
  PROVE  CallsTypeOK' /\ OwnContext' /\ StoreMirrorsRunningCalls'
<1> USE CallsAssumption DEF CallsInv
<1> DEFINE x == RequestContext(c, "original")
<1>0. /\ x \in Contexts /\ x.call = c /\ x.key = KeyOf[c]
      /\ callPc[c] = "idle" /\ store \in Seq(Contexts) /\ KeysDiffer(store) /\ Len(store) <= MaxEntries
  BY LinksAreOwn DEF SendEmpty, Send, SendFactoryThrows, MayStart, Requests, CallsTypeOK,
     StoreMirrorsRunningCalls, KeysDiffer
<1> HIDE DEF x
<1>1. CASE SendEmpty(c)
  <2>1. CallsTypeOK'
    BY <1>1 DEF SendEmpty, CallsTypeOK, CallState
  <2>2. \A d \in Calls : RunningCall(d)' <=> RunningCall(d)
    BY <1>0, <1>1 DEF SendEmpty, RunningCall, CallsTypeOK
  <2>3. OwnContext'
    BY <1>1, <2>2 DEF SendEmpty, OwnContext
  <2>4. \A e \in Entries(store) : e.call \in Calls
    BY <1>0, EntryIsContext
  <2>5. StoreMirrorsRunningCalls'
    BY <1>1, <2>2, <2>4 DEF SendEmpty, StoreMirrorsRunningCalls, NoEntryOutlivesItsCall,
       OnlyInstallsDisplace, Entries
  <2> QED BY <2>1, <2>3, <2>5
<1>2. CASE Send(c)
  <2>1. /\ store' = Install(store, x) /\ displaced' = displaced \cup Losers(store, x)
        /\ current' = [current EXCEPT ![c] = x]
        /\ callPc' = [callPc EXCEPT ![c] = "driving"]
        /\ \E started \in SpanStarts(c) \ {"throws"} : callSpan' = [callSpan EXCEPT ![c] = started]
        /\ ended' = ended
    BY <1>2 DEF Send, x
  <2>2. StoreMirrorsRunningCalls' /\ OwnContext'
    BY <1>0, <2>1, InstallMirrors DEF CallsTypeOK
  <2>3. store' \in Seq(Contexts)
    BY <1>0, <2>1, InstallEntries
  <2>4. CallsTypeOK'
    BY <1>0, <2>1, <2>3 DEF CallsTypeOK, CallState, SpanState, SpanStarts, Losers
  <2> QED BY <2>2, <2>4
<1>3. CASE SendFactoryThrows(c)
  <2>1. /\ store' = Close(Install(store, x), x) /\ displaced' = displaced \cup Losers(store, x)
        /\ current' = [current EXCEPT ![c] = x]
        /\ callPc' = [callPc EXCEPT ![c] = "settled"]
        /\ callSpan' = callSpan /\ ended' = ended
    BY <1>3 DEF SendFactoryThrows, x
  <2>2. StoreMirrorsRunningCalls' /\ OwnContext'
    BY <1>0, <2>1, ThrowMirrors
  <2>3. store' \in Seq(Contexts)
    BY <1>0, <2>1, InstallEntries, CloseEntries
  <2>4. CallsTypeOK'
    BY <1>0, <2>1, <2>3 DEF CallsTypeOK, CallState, Losers
  <2> QED BY <2>2, <2>4
<1> QED BY <1>1, <1>2, <1>3

LEMMA WalkEndKeeps ==
  ASSUME CallsInv, NEW c \in Calls, Answer(c) \/ Fail(c)
  PROVE  CallsTypeOK' /\ OwnContext' /\ StoreMirrorsRunningCalls'
<1> USE CallsAssumption DEF CallsInv
<1>0. RunningCall(c) /\ callPc[c] = "driving"
  BY DEF Answer, Fail, WalkMayEnd, RunningCall
<1>1. CASE Answer(c)
  <2>1. PICK sent \in Requests :
          LET x == PromoteToExchange(ExchangeSource(current[c], sent)) IN
            /\ store' = Install(store, x)
            /\ displaced' = (displaced \ {c}) \cup Losers(store, x)
            /\ current' = [current EXCEPT ![c] = x]
    BY <1>1 DEF Answer
  <2> DEFINE x == PromoteToExchange(ExchangeSource(current[c], sent))
  <2>2. x \in Contexts /\ x.call = c /\ x.key = KeyOf[c]
    BY <1>0, ExchangeIsOwn
  <2>3. /\ store' = Install(store, x) /\ displaced' = (displaced \ {c}) \cup Losers(store, x)
        /\ current' = [current EXCEPT ![c] = x]
    BY <2>1
  <2> HIDE DEF x
  <2>4. /\ callPc' = [callPc EXCEPT ![c] = IF callSpan[c] = "open" THEN "answered" ELSE "closing"]
        /\ callSpan' = callSpan /\ ended' = ended
    BY <1>1 DEF Answer
  <2>5. StoreMirrorsRunningCalls' /\ OwnContext'
    BY <2>2, <2>3, <2>4, InstallMirrors DEF CallsTypeOK
  <2>6. store' \in Seq(Contexts)
    <3>1. store \in Seq(Contexts) /\ KeysDiffer(store) /\ Len(store) <= MaxEntries
      BY DEF CallsTypeOK, StoreMirrorsRunningCalls, KeysDiffer
    <3> QED BY <2>2, <2>3, <3>1, InstallEntries
  <2>7. CallsTypeOK'
    BY <2>2, <2>3, <2>4, <2>6 DEF CallsTypeOK, CallState, Losers
  <2> QED BY <2>5, <2>7
<1>2. CASE Fail(c)
  <2>1. CallsTypeOK'
    BY <1>2 DEF Fail, CallsTypeOK, CallState
  <2>2. \A d \in Calls : RunningCall(d)' <=> RunningCall(d)
    BY <1>0, <1>2 DEF Fail, RunningCall, CallsTypeOK
  <2>3. OwnContext'
    BY <1>2, <2>2 DEF Fail, OwnContext
  <2>4. \A e \in Entries(store) : e.call \in Calls
    BY EntryIsContext DEF CallsTypeOK
  <2>5. StoreMirrorsRunningCalls'
    BY <1>2, <2>2, <2>4 DEF Fail, StoreMirrorsRunningCalls, NoEntryOutlivesItsCall,
       OnlyInstallsDisplace, Entries
  <2> QED BY <2>1, <2>3, <2>5
<1> QED BY <1>1, <1>2

LEMMA SpanEndKeeps ==
  ASSUME CallsInv, NEW c \in Calls, EndSpan(c) \/ RecordFailure(c)
  PROVE  CallsTypeOK' /\ OwnContext' /\ StoreMirrorsRunningCalls'
<1> USE DEF CallsInv
<1>0. /\ callPc[c] \in {"answered", "failed"}
      /\ \E next \in {"closing", "failed"} : callPc' = [callPc EXCEPT ![c] = next]
      /\ store' = store /\ current' = current /\ displaced' = displaced
  BY DEF EndSpan, RecordFailure
<1>1. CallsTypeOK'
  <2>0. ended \in [Calls -> Nat] /\ callSpan \in [Calls -> SpanState]
    BY DEF CallsTypeOK
  <2>1. CASE EndOnce(c)
    <3>1. ended' \in [Calls -> Nat]
      BY <2>0, <2>1 DEF EndOnce
    <3>2. callSpan' \in [Calls -> SpanState]
      BY <2>0, <2>1 DEF EndOnce, SpanState
    <3> QED BY <1>0, <3>1, <3>2 DEF CallsTypeOK, CallState
  <2>2. CASE /\ callSpan' = [callSpan EXCEPT ![c] = IF @ = "open" THEN "abandoned" ELSE @]
             /\ ended' = ended
    <3>1. callSpan' \in [Calls -> SpanState]
      BY <2>0, <2>2 DEF SpanState
    <3> QED BY <1>0, <2>0, <2>2, <3>1 DEF CallsTypeOK, CallState
  <2> QED BY <2>1, <2>2 DEF EndSpan, RecordFailure
<1>2. \A d \in Calls : RunningCall(d)' <=> RunningCall(d)
  BY <1>0 DEF RunningCall, CallsTypeOK
<1>3. OwnContext'
  BY <1>0, <1>2 DEF OwnContext
<1>4. \A e \in Entries(store) : e.call \in Calls
  BY EntryIsContext DEF CallsTypeOK
<1>5. StoreMirrorsRunningCalls'
  BY <1>0, <1>2, <1>4 DEF StoreMirrorsRunningCalls, NoEntryOutlivesItsCall, OnlyInstallsDisplace, Entries
<1> QED BY <1>1, <1>3, <1>5

LEMMA SettleKeeps ==
  ASSUME CallsInv, NEW c \in Calls, Settle(c)
  PROVE  CallsTypeOK' /\ OwnContext' /\ StoreMirrorsRunningCalls'
<1> USE DEF CallsInv
<1>1. /\ RunningCall(c) /\ store' = Close(store, current[c])
      /\ callPc' = [callPc EXCEPT ![c] = "settled"]
      /\ current' = current /\ displaced' = displaced /\ callSpan' = callSpan /\ ended' = ended
  BY DEF Settle, RunningCall
<1>2. StoreMirrorsRunningCalls' /\ OwnContext'
  BY <1>1, CloseMirrors
<1>3. store' \in Seq(Contexts)
  BY <1>1, CloseEntries DEF CallsTypeOK, StoreMirrorsRunningCalls, KeysDiffer
<1>4. CallsTypeOK'
  BY <1>1, <1>3 DEF CallsTypeOK, CallState
<1> QED BY <1>2, <1>4

\* The spans: a step changes the span of one call only, at a place that says
\* what the span was.
LEMMA SpansKeep ==
  ASSUME CallsAssumption, CallsTypeOK, SpansFit, OperationSpanOnce, NEW c \in Calls,
         \/ SendEmpty(c) \/ Send(c) \/ SendFactoryThrows(c) \/ Answer(c) \/ Fail(c)
         \/ EndSpan(c) \/ RecordFailure(c) \/ Settle(c)
  PROVE  SpansFit' /\ OperationSpanOnce'
<1> USE DEF CallsAssumption, CallsTypeOK, SpansFit, OperationSpanOnce
<1>1. CASE SendEmpty(c)
  BY <1>1 DEF SendEmpty, MayStart
<1>2. CASE Send(c)
  <2>1. PICK started \in SpanStarts(c) \ {"throws"} : callSpan' = [callSpan EXCEPT ![c] = started]
    BY <1>2 DEF Send
  <2>2. /\ callPc[c] = "idle" /\ callPc' = [callPc EXCEPT ![c] = "driving"] /\ ended' = ended
        /\ ParentOf[c] # NoCall => callPc[ParentOf[c]] = "driving"
    BY <1>2 DEF Send, MayStart
  <2>3. /\ started \in {"none", "inherited", "open"}
        /\ ParentOf[c] # NoCall /\ started = "open" =>
             callSpan[ParentOf[c]] \notin {"inherited", "open"}
    BY DEF SpanStarts
  <2>4. SpansFit'
    BY <2>1, <2>2, <2>3
  <2>5. \A d \in Calls : ParentOf[d] = c => callPc[d] = "idle"
    BY <2>2
  <2>6. OperationSpanOnce'
    BY <2>1, <2>2, <2>3, <2>5
  <2> QED BY <2>4, <2>6
<1>3. CASE SendFactoryThrows(c)
  BY <1>3 DEF SendFactoryThrows, MayStart
<1>4. CASE Answer(c) \/ Fail(c)
  BY <1>4 DEF Answer, Fail, WalkMayEnd
<1>5. CASE EndSpan(c) \/ RecordFailure(c)
  <2>1. /\ callPc[c] \in {"answered", "failed"} /\ callSpan[c] \in {"open", "ended"}
        /\ \E next \in {"closing", "failed"} : callPc' = [callPc EXCEPT ![c] = next]
        /\ callPc[c] = "failed" => callPc' = [callPc EXCEPT ![c] = "closing"]
    BY <1>5 DEF EndSpan, RecordFailure
  <2>2. CASE EndOnce(c)
    BY <2>1, <2>2 DEF EndOnce
  <2>3. CASE ~EndOnce(c)
    <3>1. /\ callSpan' = [callSpan EXCEPT ![c] = IF @ = "open" THEN "abandoned" ELSE @]
          /\ ended' = ended /\ callPc' = [callPc EXCEPT ![c] = "closing"]
      BY <1>5, <2>3 DEF EndSpan, RecordFailure
    <3> QED BY <2>1, <3>1
  <2> QED BY <2>2, <2>3
<1>6. CASE Settle(c)
  BY <1>6 DEF Settle
<1> QED BY <1>1, <1>2, <1>3, <1>4, <1>5, <1>6

LEMMA CallsStepKeeps == CallsInv /\ [CallsNext]_callVars => CallsInv'
<1> SUFFICES ASSUME CallsInv, [CallsNext]_callVars PROVE CallsInv'
  OBVIOUS
<1>1. CASE UNCHANGED callVars
  BY <1>1 DEF callVars, CallsInv, CallsTypeOK, OwnContext, StoreMirrorsRunningCalls, SpansFit,
     OperationSpanOnce, NoEntryOutlivesItsCall, OnlyInstallsDisplace, RunningCall, Entries
<1>2. CASE CallsNext
  <2>1. PICK c \in Calls :
          \/ SendEmpty(c) \/ Send(c) \/ SendFactoryThrows(c) \/ Answer(c) \/ Fail(c)
          \/ EndSpan(c) \/ RecordFailure(c) \/ Settle(c)
    BY <1>2 DEF CallsNext
  <2>2. CallsTypeOK' /\ OwnContext' /\ StoreMirrorsRunningCalls'
    BY <2>1, SendKeeps, WalkEndKeeps, SpanEndKeeps, SettleKeeps
  <2>3. SpansFit' /\ OperationSpanOnce'
    BY <2>1, SpansKeep, CallsAssumption DEF CallsInv
  <2> QED BY <2>2, <2>3 DEF CallsInv
<1> QED BY <1>1, <1>2

LEMMA CallsInvariant == CallsSpec => []CallsInv
  BY CallsStart, CallsStepKeeps, PTL DEF CallsSpec

-----------------------------------------------------------------------------

\* The store, the calls and their spans keep their types (ContextStore,
\* Runtime).
THEOREM CallsTypeCorrect == CallsSpec => []CallsTypeOK
  BY CallsInvariant, PTL DEF CallsInv

\* No entry outlives its call and no close evicts another call's, for any
\* keys shared and any cap (ContextStore.close, Runtime.#drive's finally).
THEOREM StoreHoldsRunningCalls == CallsSpec => []StoreMirrorsRunningCalls
  BY CallsInvariant, PTL DEF CallsInv

\* A logical operation has one span, which is ended once (startOperationSpan,
\* driveWithSpan).
THEOREM OneSpanPerOperation == CallsSpec => []OperationSpanOnce
  BY CallsInvariant, PTL DEF CallsInv
-----------------------------------------------------------------------------
(* The LOGGING step.  LoggingIsTransparent looks at an attempt when it is  *)
(* over; the proof says how far it is at each place (AttemptAt), and that  *)
(* no two attempts and no operation share a span (SpansApart), so ending   *)
(* one leaves the others alone.                                            *)

LogPlaces == {"idle", "driving", "probing", "requesting", "sending", "capturing", "measuring",
              "failing", "ending", "attempted", "settled"}
EventKinds == {"request", "response", "failure"}
Gifts == {"none", "response", "error", "captured", "spi"}
Attempts == [span : Nat, before : Nat, gave : Gifts, hands : Gifts, metered : Nat,
             logged : Seq(EventKinds), closed : Nat]
Taps == [body : Bodies, chunks : Nat, mirrored : Nat,
         sink : {"none", "open", "closed", "aborted"}, failed : BOOLEAN]

LogTypes ==
  /\ logging \in Settings
  /\ spanEnds \in Seq(Nat)
  /\ appSpan \in Nat
  /\ driverSpan \in [LogCalls -> Nat]
  /\ stepSpan \in [LogCalls -> Nat]
  /\ logPc \in [LogCalls -> LogPlaces]
  /\ operation \in [LogCalls -> Nat]
  /\ attempt \in [LogCalls -> Attempts]
  /\ drives \in [LogCalls -> Nat]
  /\ tapped \in [LogCalls -> Taps]

\* Every span was started, and an attempt's is nobody else's.
Apart(operationSpan, attemptSpan, started) ==
  \A c \in LogCalls :
    /\ operationSpan[c] <= started /\ attemptSpan[c] <= started
    /\ \A d \in LogCalls : attemptSpan[c] # NoSpan =>
         attemptSpan[c] # operationSpan[d] /\ (d # c => attemptSpan[c] # attemptSpan[d])

AttemptSpans == [c \in LogCalls |-> attempt[c].span]
SpansApart == Apart(operation, AttemptSpans, Len(spanEnds))

\* The span of an attempt is the active one of its frame and not ended as long
\* as the step runs, and ended once when it is over.
SpanOfAttempt ==
  \A c \in LogCalls :
    /\ InStep(c) => stepSpan[c] = attempt[c].span
    /\ InStep(c) /\ Recording(attempt[c].span) => spanEnds[attempt[c].span] = 0
    /\ logPc[c] = "attempted" /\ Recording(attempt[c].span) => spanEnds[attempt[c].span] = 1

PreviewFits ==
  \A c \in LogCalls :
    tapped[c].mirrored = IF tapped[c].chunks < TapCap THEN tapped[c].chunks ELSE TapCap

Emitted(n) == IF logging.granularity = "none" THEN 0 ELSE n

\* What was given, handed on, measured and logged, at each place.
Kept(a) == a.hands \in IF a.gave = "error" THEN {"error", "spi"} ELSE {"response", "captured", "spi"}
Told(a) == ~logging.throws => a.hands # "spi" /\ a.metered = 1 /\ Len(a.logged) = Emitted(2)
Untold(a) == a.metered = 0 /\ a.closed = 0 /\ Len(a.logged) = Emitted(1)

AttemptAt(place, a) ==
  /\ place \in {"probing", "requesting"} => a.metered = 0 /\ a.closed = 0 /\ Len(a.logged) = 0
  /\ place = "sending" => Untold(a)
  /\ place \in {"capturing", "measuring"} =>
       Untold(a) /\ a.gave = "response" /\ a.hands \in {"response", "captured"}
  /\ place = "failing" => Untold(a) /\ Kept(a) /\ (~logging.throws => a.hands # "spi")
  /\ place = "ending" => a.closed = 0 /\ Kept(a) /\ Told(a)
  /\ place = "attempted" => a.closed = 1 /\ Kept(a) /\ Told(a)

AttemptPlaces == \A c \in LogCalls : AttemptAt(logPc[c], attempt[c])

LogInv == LogTypes /\ SpansApart /\ SpanOfAttempt /\ PreviewFits /\ AttemptPlaces

LEMMA LoggingInitInv == LoggingInit => LogInv
<1> SUFFICES ASSUME NEW settings \in Settings, LoggingStarts(settings) PROVE LogInv
  BY DEF LoggingInit
<1> USE DEF LoggingStarts, NoSpan, NoAttempt, NewAttempt, NoTap
<1>1. NoAttempt \in Attempts /\ NoTap \in Taps
  BY DEF Attempts, Taps, Bodies, Gifts
<1>2. LogTypes
  BY <1>1 DEF LogTypes, LogPlaces
<1>3. SpansApart /\ SpanOfAttempt /\ PreviewFits /\ AttemptPlaces
  BY LoggingAssumption
  DEF LoggingAssumption, SpansApart, Apart, AttemptSpans, SpanOfAttempt, PreviewFits, AttemptPlaces, AttemptAt,
      Recording, InStep
<1> QED BY <1>2, <1>3 DEF LogInv

\* A stretch that starts spans leaves the ones there are.
LEMMA StartedSpans ==
  ASSUME spanEnds \in Seq(Nat), NEW n \in Nat, Started(n)
  PROVE  /\ spanEnds' \in Seq(Nat) /\ Len(spanEnds') = Len(spanEnds) + n /\ Len(spanEnds) \in Nat
         /\ \A i \in 1 .. Len(spanEnds) : spanEnds'[i] = spanEnds[i]
         /\ \A i \in Len(spanEnds) + 1 .. Len(spanEnds) + n : spanEnds'[i] = 0
<1> DEFINE fresh == [i \in 1 .. n |-> 0]
<1>1. fresh \in Seq(Nat) /\ Len(fresh) = n /\ \A i \in 1 .. n : fresh[i] = 0
  OBVIOUS
<1>2. spanEnds' = spanEnds \o fresh
  BY DEF Started
<1> HIDE DEF fresh
<1>3. /\ spanEnds \o fresh \in Seq(Nat) /\ Len(spanEnds \o fresh) = Len(spanEnds) + Len(fresh)
      /\ \A i \in 1 .. Len(spanEnds) + Len(fresh) :
           (spanEnds \o fresh)[i] = IF i <= Len(spanEnds) THEN spanEnds[i] ELSE fresh[i - Len(spanEnds)]
  BY <1>1, ConcatProperties
<1>4. Len(spanEnds) \in Nat
  OBVIOUS
<1>5. ASSUME NEW i \in Len(spanEnds) + 1 .. Len(spanEnds) + n PROVE spanEnds'[i] = 0
  <2>1. i \in 1 .. Len(spanEnds) + n /\ ~(i <= Len(spanEnds)) /\ i - Len(spanEnds) \in 1 .. n
    BY <1>4
  <2> QED BY <1>1, <1>2, <1>3, <2>1
<1> QED BY <1>1, <1>2, <1>3, <1>4, <1>5

\* end() counts for its own span only, and the noop span has none.
LEMMA EndedSpans ==
  ASSUME spanEnds \in Seq(Nat), NEW span \in Nat, span <= Len(spanEnds),
         spanEnds' = EndCalled(span)
  PROVE  /\ spanEnds' \in Seq(Nat) /\ Len(spanEnds') = Len(spanEnds) /\ Len(spanEnds) \in Nat
         /\ Recording(span) => spanEnds'[span] = spanEnds[span] + 1
         /\ \A i \in 1 .. Len(spanEnds) : i # span => spanEnds'[i] = spanEnds[i]
<1>1. CASE span = 0
  BY <1>1 DEF EndCalled, Recording, NoSpan
<1>2. CASE span # 0
  <2>1. spanEnds' = [spanEnds EXCEPT ![span] = @ + 1] /\ span \in 1 .. Len(spanEnds)
    BY <1>2 DEF EndCalled, Recording, NoSpan
  <2> QED BY <2>1
<1> QED BY <1>1, <1>2

\* What the head of the step does to its own call.
LEMMA HeadOfStep ==
  ASSUME LogTypes, NEW c \in LogCalls, NEW span \in Nat, NEW before \in Nat, NEW body \in Bodies,
         Entered(c, span, before, body)
  PROVE  /\ attempt' \in [LogCalls -> Attempts] /\ stepSpan' \in [LogCalls -> Nat]
         /\ drives' \in [LogCalls -> Nat] /\ logPc' \in [LogCalls -> LogPlaces]
         /\ tapped' \in [LogCalls -> Taps]
         /\ attempt'[c].span = span /\ attempt'[c].metered = 0 /\ attempt'[c].closed = 0
         /\ Len(attempt'[c].logged) = 0
         /\ stepSpan'[c] = span /\ logPc'[c] \in {"probing", "requesting"}
         /\ tapped'[c].chunks = 0 /\ tapped'[c].mirrored = 0
         /\ \A d \in LogCalls : d # c =>
              /\ attempt'[d] = attempt[d] /\ stepSpan'[d] = stepSpan[d] /\ logPc'[d] = logPc[d]
              /\ tapped'[d] = tapped[d]
<1> DEFINE a == NewAttempt(span, before)
           t == [NoTap EXCEPT !.body = body, !.sink = IF Probes(body) THEN "open" ELSE "none"]
<1>1. a \in Attempts /\ a.span = span /\ a.metered = 0 /\ a.closed = 0 /\ a.logged = <<>>
  <2>1. <<>> \in Seq(EventKinds)
    OBVIOUS
  <2> QED BY <2>1 DEF NewAttempt, Attempts, Gifts
<1>2. t \in Taps /\ t.chunks = 0 /\ t.mirrored = 0
  BY DEF NoTap, Taps
<1>3. /\ attempt' = [attempt EXCEPT ![c] = a] /\ tapped' = [tapped EXCEPT ![c] = t]
      /\ stepSpan' = [stepSpan EXCEPT ![c] = span] /\ drives' = [drives EXCEPT ![c] = @ + 1]
      /\ logPc' = [logPc EXCEPT ![c] = IF Probes(body) THEN "probing" ELSE "requesting"]
  BY DEF Entered
<1> HIDE DEF a, t
<1>4. attempt' \in [LogCalls -> Attempts] /\ tapped' \in [LogCalls -> Taps]
  BY <1>1, <1>2, <1>3 DEF LogTypes
<1>5. stepSpan' \in [LogCalls -> Nat] /\ drives' \in [LogCalls -> Nat] /\ logPc' \in [LogCalls -> LogPlaces]
  BY <1>3 DEF LogTypes, LogPlaces
<1> QED BY <1>1, <1>2, <1>3, <1>4, <1>5 DEF LogTypes

\* Numbers past the ones given out are apart from them.
LEMMA FreshIsApart ==
  ASSUME NEW c \in LogCalls, NEW len \in Nat, NEW n \in Nat, NEW opened \in Nat, NEW span \in Nat,
         NEW op \in [LogCalls -> Nat], NEW at \in [LogCalls -> Nat], Apart(op, at, len),
         opened = op[c] \/ opened = 0 \/ (opened = len + 1 /\ n > 0),
         span = 0 \/ (span = len + n /\ n > 0 /\ span # opened)
  PROVE  Apart([op EXCEPT ![c] = opened], [at EXCEPT ![c] = span], len + n)
<1> DEFINE op1 == [op EXCEPT ![c] = opened]
           at1 == [at EXCEPT ![c] = span]
<1> USE DEF Apart, NoSpan
<1>1. \A d \in LogCalls : op1[d] <= len + n /\ at1[d] <= len + n
  OBVIOUS
<1>2. ASSUME NEW d \in LogCalls, NEW e \in LogCalls, at1[d] # 0
      PROVE  at1[d] # op1[e] /\ (e # d => at1[d] # at1[e])
  <2>1. CASE d = c
    BY <1>2, <2>1
  <2>2. CASE d # c
    BY <1>2, <2>2
  <2> QED BY <2>1, <2>2
<1> QED BY <1>1, <1>2

\* An attempt begins: its span, if it has one, is the last that was started.
LEMMA EntryKeeps ==
  ASSUME LogInv, NEW c \in LogCalls, logPc[c] \in {"idle", "driving"}, NEW n \in Nat, Started(n),
         NEW opened \in Nat, NEW span \in Nat, NEW before \in Nat, NEW body \in Bodies,
         Entered(c, span, before, body), operation' = [operation EXCEPT ![c] = opened],
         opened \in {operation[c], 0} \/ (opened = Len(spanEnds) + 1 /\ n > 0),
         span = 0 \/ (span = Len(spanEnds) + n /\ n > 0 /\ span # opened),
         logging' = logging, driverSpan' \in [LogCalls -> Nat], appSpan' \in Nat
  PROVE  LogInv'
<1> DEFINE len == Len(spanEnds)
<1> USE DEF LogInv
<1>1. /\ spanEnds' \in Seq(Nat) /\ Len(spanEnds') = len + n /\ len \in Nat
      /\ \A i \in 1 .. len : spanEnds'[i] = spanEnds[i]
      /\ \A i \in len + 1 .. len + n : spanEnds'[i] = 0
  BY StartedSpans DEF LogTypes
<1>2. /\ attempt' \in [LogCalls -> Attempts] /\ stepSpan' \in [LogCalls -> Nat]
      /\ drives' \in [LogCalls -> Nat] /\ logPc' \in [LogCalls -> LogPlaces]
      /\ tapped' \in [LogCalls -> Taps]
      /\ attempt'[c].span = span /\ attempt'[c].metered = 0 /\ attempt'[c].closed = 0
      /\ Len(attempt'[c].logged) = 0
      /\ stepSpan'[c] = span /\ logPc'[c] \in {"probing", "requesting"}
      /\ tapped'[c].chunks = 0 /\ tapped'[c].mirrored = 0
      /\ \A d \in LogCalls : d # c =>
           /\ attempt'[d] = attempt[d] /\ stepSpan'[d] = stepSpan[d] /\ logPc'[d] = logPc[d]
           /\ tapped'[d] = tapped[d]
  BY HeadOfStep
<1>3. /\ operation' \in [LogCalls -> Nat] /\ operation'[c] = opened
      /\ \A d \in LogCalls : d # c => operation'[d] = operation[d]
  BY DEF LogTypes
<1>4. \A d \in LogCalls : /\ operation[d] \in Nat /\ operation[d] <= len
                          /\ attempt[d].span \in Nat /\ attempt[d].span <= len
  BY DEF LogTypes, Attempts, SpansApart, Apart, AttemptSpans
<1>10. /\ n \in Nat /\ len \in Nat /\ span \in Nat /\ opened \in Nat
       /\ \A d \in LogCalls : d # c => attempt'[d].span = attempt[d].span
       /\ attempt'[c].span = span
  BY <1>1, <1>2
<1>0. /\ opened = operation[c] \/ opened = 0 \/ (opened = len + 1 /\ n > 0)
      /\ span = 0 \/ (span = len + n /\ n > 0 /\ span # opened)
  OBVIOUS
<1> HIDE DEF len
<1>5. LogTypes'
  BY <1>1, <1>2, <1>3 DEF LogTypes
<1>6. SpansApart'
  <2> DEFINE before1 == AttemptSpans
             after1 == AttemptSpans'
  <2>1. before1 \in [LogCalls -> Nat] /\ operation \in [LogCalls -> Nat]
    BY <1>4 DEF AttemptSpans, LogTypes
  <2>2. after1 = [before1 EXCEPT ![c] = span]
    BY <1>10 DEF AttemptSpans
  <2>3. Apart(operation, before1, len)
    BY DEF SpansApart, len
  <2> HIDE DEF before1
  <2>4. Apart([operation EXCEPT ![c] = opened], [before1 EXCEPT ![c] = span], len + n)
    BY <1>0, <1>10, <2>1, <2>3, FreshIsApart
  <2> QED BY <1>1, <2>2, <2>4 DEF SpansApart
<1>7. SpanOfAttempt'
  <2> SUFFICES ASSUME NEW d \in LogCalls
               PROVE  /\ InStep(d)' => stepSpan'[d] = attempt'[d].span
                      /\ InStep(d)' /\ attempt'[d].span # 0 => spanEnds'[attempt'[d].span] = 0
                      /\ logPc'[d] = "attempted" /\ attempt'[d].span # 0 => spanEnds'[attempt'[d].span] = 1
    BY DEF SpanOfAttempt, Recording, NoSpan
  <2>1. CASE d = c
    <3>1. span # 0 => spanEnds'[span] = 0
      <4>1. span # 0 => span \in len + 1 .. len + n
        BY <1>0, <1>10
      <4> QED BY <1>1, <4>1
    <3> QED BY <1>2, <2>1, <3>1
  <2>2. CASE d # c
    <3>1. attempt[d].span # 0 => spanEnds'[attempt[d].span] = spanEnds[attempt[d].span]
      <4>1. attempt[d].span # 0 => attempt[d].span \in 1 .. len
        BY <1>4, <1>10
      <4> QED BY <1>1, <4>1
    <3> QED BY <1>2, <2>2, <3>1 DEF SpanOfAttempt, Recording, NoSpan, InStep
  <2> QED BY <2>1, <2>2
<1>8. PreviewFits'
  <2> SUFFICES ASSUME NEW d \in LogCalls
               PROVE  tapped'[d].mirrored = IF tapped'[d].chunks < TapCap THEN tapped'[d].chunks ELSE TapCap
    BY DEF PreviewFits
  <2>1. CASE d = c
    BY <1>2, <2>1, LoggingAssumption DEF LoggingAssumption
  <2>2. CASE d # c
    BY <1>2, <2>2 DEF PreviewFits
  <2> QED BY <2>1, <2>2
<1>9. AttemptPlaces'
  <2> SUFFICES ASSUME NEW d \in LogCalls PROVE AttemptAt(logPc[d], attempt[d])'
    BY DEF AttemptPlaces
  <2>1. CASE d = c
    BY <1>2, <2>1 DEF AttemptAt
  <2>2. CASE d # c
    BY <1>2, <2>2, ZenonT(40) DEF AttemptPlaces, AttemptAt, Untold, Told, Emitted, Kept
  <2> QED BY <2>1, <2>2
<1> QED BY <1>5, <1>6, <1>7, <1>8, <1>9

\* A move inside the step: the attempt keeps its span, and no span is touched.
LEMMA InsideKeeps ==
  ASSUME LogInv, NEW c \in LogCalls, InStep(c), NEW a \in Attempts,
         NEW place \in {"probing", "requesting", "sending", "capturing", "measuring", "failing", "ending"},
         logPc' = [logPc EXCEPT ![c] = place], attempt' = [attempt EXCEPT ![c] = a],
         a.span = attempt[c].span, AttemptAt(place, a),
         tapped' \in [LogCalls -> Taps], PreviewFits',
         UNCHANGED <<logging, appSpan, driverSpan, stepSpan, spanEnds, operation, drives>>
  PROVE  LogInv'
<1> USE DEF LogInv
<1>1. /\ logPc'[c] = place /\ attempt'[c] = a
      /\ \A d \in LogCalls : d # c => logPc'[d] = logPc[d] /\ attempt'[d] = attempt[d]
      /\ attempt' \in [LogCalls -> Attempts] /\ logPc' \in [LogCalls -> LogPlaces]
  BY DEF LogTypes, LogPlaces
<1>2. \A d \in LogCalls : attempt'[d].span = attempt[d].span
  BY <1>1
<1>3. LogTypes'
  BY <1>1 DEF LogTypes
<1>4. SpansApart'
  <2>1. AttemptSpans' = AttemptSpans
    BY <1>2 DEF AttemptSpans
  <2> QED BY <2>1 DEF SpansApart
<1>5. SpanOfAttempt'
  BY <1>1, <1>2 DEF SpanOfAttempt, InStep
<1>6. AttemptPlaces'
  <2> SUFFICES ASSUME NEW d \in LogCalls PROVE AttemptAt(logPc[d], attempt[d])'
    BY DEF AttemptPlaces
  <2>1. CASE d = c
    BY <1>1, <2>1 DEF AttemptAt, Untold, Told, Emitted, Kept
  <2>2. CASE d # c
    BY <1>1, <2>2 DEF AttemptPlaces, AttemptAt, Untold, Told, Emitted, Kept
  <2> QED BY <2>1, <2>2
<1> QED BY <1>3, <1>4, <1>5, <1>6

\* The taps of the other calls stay as they are.
LEMMA TapMoves ==
  ASSUME LogInv, NEW c \in LogCalls, NEW t \in Taps, tapped' = [tapped EXCEPT ![c] = t],
         t.mirrored = IF t.chunks < TapCap THEN t.chunks ELSE TapCap
  PROVE  tapped' \in [LogCalls -> Taps] /\ PreviewFits'
  BY DEF LogInv, LogTypes, PreviewFits

LEMMA PreviewKept ==
  ASSUME LogInv, UNCHANGED tapped PROVE tapped' \in [LogCalls -> Taps] /\ PreviewFits'
  BY DEF LogInv, LogTypes, PreviewFits

\* The attempt is untouched: the tap runs under the probe or the transport.
LEMMA TapKeeps ==
  ASSUME LogInv, NEW c \in LogCalls, MirrorChunk(c) \/ TapSettles(c)
  PROVE  LogInv'
<1> DEFINE t == tapped[c]
<1>1. /\ t \in Taps /\ attempt[c] \in Attempts /\ logPc \in [LogCalls -> LogPlaces]
      /\ attempt \in [LogCalls -> Attempts] /\ tapped \in [LogCalls -> Taps]
      /\ t.mirrored = IF t.chunks < TapCap THEN t.chunks ELSE TapCap
      /\ AttemptAt(logPc[c], attempt[c])
  BY DEF LogInv, LogTypes, PreviewFits, AttemptPlaces
<1>2. /\ logPc[c] \in {"probing", "sending"} /\ InStep(c)
      /\ UNCHANGED <<logging, appSpan, driverSpan, stepSpan, spanEnds, operation, drives, attempt>>
  BY DEF MirrorChunk, TapSettles, Writing, InStep
<1>3. /\ attempt' = [attempt EXCEPT ![c] = attempt[c]] /\ attempt[c].span = attempt[c].span
  BY <1>1, <1>2
<1>4. CASE MirrorChunk(c)
  <2> DEFINE x == t.chunks + 1
             y == IF t.mirrored < TapCap THEN t.mirrored + 1 ELSE t.mirrored
             new == [t EXCEPT !.chunks = x, !.mirrored = y]
  <2>1. tapped' = [tapped EXCEPT ![c] = new]
    BY <1>1, <1>4 DEF MirrorChunk
  <2>2. x \in Nat /\ y \in Nat /\ y = IF x < TapCap THEN x ELSE TapCap
    BY <1>1, LoggingAssumption DEF LoggingAssumption, Taps
  <2> HIDE DEF x, y
  <2>3. new \in Taps /\ new.chunks = x /\ new.mirrored = y
    BY <1>1, <2>2 DEF Taps
  <2> HIDE DEF new
  <2>4. tapped' \in [LogCalls -> Taps] /\ PreviewFits'
    BY <2>1, <2>2, <2>3, TapMoves
  <2>5. logPc' = logPc
    BY <1>4 DEF MirrorChunk
  <2>6. CASE logPc[c] = "probing"
    <3>1. logPc' = [logPc EXCEPT ![c] = "probing"] /\ AttemptAt("probing", attempt[c])
      BY <1>1, <2>5, <2>6
    <3> QED BY <1>1, <1>2, <1>3, <2>4, <3>1, InsideKeeps
  <2>7. CASE logPc[c] = "sending"
    <3>1. logPc' = [logPc EXCEPT ![c] = "sending"] /\ AttemptAt("sending", attempt[c])
      BY <1>1, <2>5, <2>7
    <3> QED BY <1>1, <1>2, <1>3, <2>4, <3>1, InsideKeeps
  <2> QED BY <1>2, <2>6, <2>7
<1>5. CASE TapSettles(c)
  <2>1. PICK failed \in BOOLEAN :
          /\ tapped' = [tapped EXCEPT ![c].sink = IF failed THEN "aborted" ELSE "closed",
                                      ![c].failed = failed]
          /\ logPc' = [logPc EXCEPT ![c] = IF @ = "probing" THEN "requesting" ELSE @]
    BY <1>5 DEF TapSettles
  <2>2. PICK new : /\ new = [t EXCEPT !.sink = IF failed THEN "aborted" ELSE "closed", !.failed = failed]
                   /\ tapped' = [tapped EXCEPT ![c] = new]
    BY <1>1, <2>1
  <2>3. new \in Taps /\ new.mirrored = IF new.chunks < TapCap THEN new.chunks ELSE TapCap
    BY <1>1, <2>2 DEF Taps
  <2>4. tapped' \in [LogCalls -> Taps] /\ PreviewFits'
    BY <2>2, <2>3, TapMoves
  <2>5. CASE logPc[c] = "probing"
    <3>1. logPc' = [logPc EXCEPT ![c] = "requesting"] /\ AttemptAt("requesting", attempt[c])
      BY <1>1, <2>1, <2>5 DEF AttemptAt
    <3> QED BY <1>1, <1>2, <1>3, <2>4, <3>1, InsideKeeps
  <2>6. CASE logPc[c] = "sending"
    <3>1. logPc' = [logPc EXCEPT ![c] = "sending"] /\ AttemptAt("sending", attempt[c])
      BY <1>1, <2>1, <2>6
    <3> QED BY <1>1, <1>2, <1>3, <2>4, <3>1, InsideKeeps
  <2> QED BY <1>2, <2>5, <2>6
<1> QED BY <1>4, <1>5

\* Updates of single fields keep the other ones.
LEMMA LoggedField ==
  ASSUME NEW a \in Attempts, NEW l \in Seq(EventKinds)
  PROVE  LET b == [a EXCEPT !.logged = l]
         IN  /\ b \in Attempts /\ b.span = a.span /\ b.gave = a.gave /\ b.hands = a.hands
             /\ b.metered = a.metered /\ b.closed = a.closed /\ b.logged = l
  BY DEF Attempts

\* next() is called and settles, and what it gave is captured and measured.
LEMMA StepsKeepAttempt ==
  ASSUME LogInv, NEW c \in LogCalls,
         NextCalled(c) \/ NextSettles(c) \/ Capture(c) \/ Measure(c) \/ RecordError(c)
  PROVE  LogInv'
<1> DEFINE a == attempt[c]
<1> USE LoggingAssumption
<1>1. /\ a \in Attempts /\ tapped[c] \in Taps /\ logging \in Settings
      /\ attempt \in [LogCalls -> Attempts] /\ tapped \in [LogCalls -> Taps]
      /\ tapped[c].mirrored = IF tapped[c].chunks < TapCap THEN tapped[c].chunks ELSE TapCap
      /\ AttemptAt(logPc[c], a)
  BY DEF LogInv, LogTypes, PreviewFits, AttemptPlaces
<1>2. a.logged \in Seq(EventKinds) /\ Len(<<>>) = 0 /\ \A e \in EventKinds :
        /\ Append(a.logged, e) \in Seq(EventKinds) /\ Len(Append(a.logged, e)) = Len(a.logged) + 1
        /\ Logged(c, e) \in Seq(EventKinds)
        /\ Len(Logged(c, e)) = IF logging.granularity = "none" THEN Len(a.logged) ELSE Len(a.logged) + 1
  BY <1>1 DEF Attempts, Logged
<1>3. CASE NextCalled(c)
  <2> DEFINE b == [a EXCEPT !.logged = Logged(c, "request")]
             t == [tapped[c] EXCEPT !.chunks = 0, !.mirrored = 0, !.failed = FALSE,
                     !.sink = IF tapped[c].body # "none" /\ logging.granularity = "body"
                              THEN "open" ELSE "none"]
  <2>1. /\ logPc[c] = "requesting" /\ InStep(c) /\ logPc' = [logPc EXCEPT ![c] = "sending"]
        /\ attempt' = [attempt EXCEPT ![c] = b] /\ tapped' = [tapped EXCEPT ![c] = t]
        /\ UNCHANGED <<logging, appSpan, driverSpan, stepSpan, spanEnds, operation, drives>>
    BY <1>1, <1>3 DEF NextCalled, InStep
  <2>2. b \in Attempts /\ b.span = a.span /\ AttemptAt("sending", b)
    <3> DEFINE l == Logged(c, "request")
    <3>0. "request" \in EventKinds /\ a.metered = 0 /\ a.closed = 0 /\ Len(a.logged) = 0
      BY <1>1, <2>1 DEF EventKinds, AttemptAt
    <3>1. l \in Seq(EventKinds) /\ Len(l) = Emitted(1)
      BY <1>2, <3>0 DEF Emitted
    <3> HIDE DEF l
    <3>2. b \in Attempts /\ b.span = a.span /\ b.metered = a.metered /\ b.closed = a.closed /\ b.logged = l
      BY <1>1, <3>1, LoggedField DEF l
    <3> QED BY <3>0, <3>1, <3>2 DEF AttemptAt, Untold
  <2>3. t \in Taps /\ t.mirrored = IF t.chunks < TapCap THEN t.chunks ELSE TapCap
    <3> DEFINE zero == 0
    <3>0. zero \in Nat /\ t = [tapped[c] EXCEPT !.chunks = zero, !.mirrored = zero, !.failed = FALSE,
                               !.sink = IF tapped[c].body # "none" /\ logging.granularity = "body"
                                        THEN "open" ELSE "none"]
      OBVIOUS
    <3> HIDE DEF zero, t
    <3>1. t \in Taps /\ t.chunks = zero /\ t.mirrored = zero
      BY <1>1, <3>0 DEF Taps
    <3> QED BY <3>1 DEF LoggingAssumption, zero
  <2> HIDE DEF b, t
  <2> QED BY <2>1, <2>2, <2>3, TapMoves, InsideKeeps
<1>4. CASE NextSettles(c)
  <2>1. PICK gave \in {"response", "error"} :
          /\ attempt' = [attempt EXCEPT ![c] = [a EXCEPT !.gave = gave, !.hands = gave]]
          /\ logPc' = [logPc EXCEPT ![c] =
               IF gave = "error" THEN "failing"
               ELSE IF logging.granularity = "body" THEN "capturing" ELSE "measuring"]
    BY <1>1, <1>4 DEF NextSettles
  <2> DEFINE b == [a EXCEPT !.gave = gave, !.hands = gave]
             t == [tapped[c] EXCEPT !.sink = "none"]
             place == IF gave = "error" THEN "failing"
                      ELSE IF logging.granularity = "body" THEN "capturing" ELSE "measuring"
  <2>2. /\ logPc[c] = "sending" /\ InStep(c) /\ tapped' = [tapped EXCEPT ![c] = t]
        /\ UNCHANGED <<logging, appSpan, driverSpan, stepSpan, spanEnds, operation, drives>>
    BY <1>1, <1>4 DEF NextSettles, InStep
  <2>3. b \in Attempts /\ b.span = a.span /\ b.gave = gave /\ b.hands = gave /\ b.metered = a.metered
        /\ b.closed = a.closed /\ b.logged = a.logged
    BY <1>1 DEF Attempts, Gifts
  <2>4. place \in {"failing", "capturing", "measuring"} /\ AttemptAt(place, b)
    BY <1>1, <2>2, <2>3 DEF AttemptAt, Untold, Kept
  <2>5. t \in Taps /\ t.mirrored = IF t.chunks < TapCap THEN t.chunks ELSE TapCap
    BY <1>1 DEF Taps
  <2>6. attempt' = [attempt EXCEPT ![c] = b] /\ logPc' = [logPc EXCEPT ![c] = place]
    BY <2>1
  <2> HIDE DEF b, t, place
  <2> QED BY <2>2, <2>3, <2>4, <2>5, <2>6, TapMoves, InsideKeeps
<1>5. CASE Capture(c)
  <2>1. PICK hands \in {"response", "captured"} :
          attempt' = [attempt EXCEPT ![c] = [a EXCEPT !.hands = hands]]
    BY <1>1, <1>5 DEF Capture
  <2> DEFINE b == [a EXCEPT !.hands = hands]
  <2>2. /\ logPc[c] = "capturing" /\ InStep(c) /\ logPc' = [logPc EXCEPT ![c] = "measuring"]
        /\ UNCHANGED <<logging, appSpan, driverSpan, stepSpan, spanEnds, operation, drives, tapped>>
    BY <1>5 DEF Capture, InStep
  <2>3. b \in Attempts /\ b.span = a.span /\ AttemptAt("measuring", b)
    BY <1>1, <2>2 DEF Attempts, Gifts, AttemptAt, Untold
  <2>4. attempt' = [attempt EXCEPT ![c] = b]
    BY <2>1
  <2> HIDE DEF b
  <2> QED BY <2>2, <2>3, <2>4, PreviewKept, InsideKeeps
<1>6. CASE Measure(c)
  <2>1. /\ logPc[c] = "measuring" /\ InStep(c)
        /\ UNCHANGED <<logging, appSpan, driverSpan, stepSpan, spanEnds, operation, drives, tapped>>
    BY <1>6 DEF Measure, InStep
  <2>2. CASE /\ attempt' = [attempt EXCEPT ![c].metered = @ + 1, ![c].logged = Logged(c, "response")]
             /\ logPc' = [logPc EXCEPT ![c] = "ending"]
    <3> DEFINE m == a.metered + 1
               l == Logged(c, "response")
               b == [a EXCEPT !.metered = m, !.logged = l]
    <3>2. attempt' = [attempt EXCEPT ![c] = b]
      BY <1>1, <2>2
    <3>5. /\ "response" \in EventKinds /\ a.metered = 0 /\ a.closed = 0 /\ Len(a.logged) = Emitted(1)
          /\ Kept(a) /\ (~logging.throws => a.hands # "spi")
      BY <1>1, <2>1 DEF EventKinds, AttemptAt, Untold, Kept
    <3>3. l \in Seq(EventKinds) /\ Len(l) = Emitted(2) /\ m \in Nat /\ m = 1
      BY <1>2, <3>5 DEF Emitted
    <3> HIDE DEF l, m
    <3>4. /\ b \in Attempts /\ b.span = a.span /\ b.gave = a.gave /\ b.hands = a.hands
          /\ b.metered = m /\ b.closed = a.closed /\ b.logged = l
      BY <1>1, <3>3 DEF Attempts
    <3>1. b \in Attempts /\ b.span = a.span /\ AttemptAt("ending", b)
      BY <3>3, <3>4, <3>5 DEF AttemptAt, Kept, Told
    <3> HIDE DEF b
    <3> QED BY <2>1, <2>2, <3>1, <3>2, PreviewKept, InsideKeeps
  <2>3. CASE /\ logging.throws /\ attempt' = [attempt EXCEPT ![c].hands = "spi"]
             /\ logPc' = [logPc EXCEPT ![c] = "failing"]
    <3> DEFINE b == [a EXCEPT !.hands = "spi"]
    <3>1. b \in Attempts /\ b.span = a.span /\ AttemptAt("failing", b)
      BY <1>1, <2>1, <2>3 DEF Attempts, Gifts, AttemptAt, Untold, Kept
    <3>2. attempt' = [attempt EXCEPT ![c] = b]
      BY <1>1, <2>3
    <3> HIDE DEF b
    <3> QED BY <2>1, <2>3, <3>1, <3>2, PreviewKept, InsideKeeps
  <2> QED BY <1>6, <2>2, <2>3 DEF Measure
<1>7. CASE RecordError(c)
  <2>1. /\ logPc[c] = "failing" /\ InStep(c) /\ logPc' = [logPc EXCEPT ![c] = "ending"]
        /\ UNCHANGED <<logging, appSpan, driverSpan, stepSpan, spanEnds, operation, drives, tapped>>
    BY <1>7 DEF RecordError, InStep
  <2>2. CASE attempt' = [attempt EXCEPT ![c].metered = @ + 1, ![c].logged = Logged(c, "failure")]
    <3> DEFINE m == a.metered + 1
               l == Logged(c, "failure")
               b == [a EXCEPT !.metered = m, !.logged = l]
    <3>2. attempt' = [attempt EXCEPT ![c] = b]
      BY <1>1, <2>2
    <3>5. /\ "failure" \in EventKinds /\ a.metered = 0 /\ a.closed = 0 /\ Len(a.logged) = Emitted(1)
          /\ Kept(a) /\ (~logging.throws => a.hands # "spi")
      BY <1>1, <2>1 DEF EventKinds, AttemptAt, Untold, Kept
    <3>3. l \in Seq(EventKinds) /\ Len(l) = Emitted(2) /\ m \in Nat /\ m = 1
      BY <1>2, <3>5 DEF Emitted
    <3> HIDE DEF l, m
    <3>4. /\ b \in Attempts /\ b.span = a.span /\ b.gave = a.gave /\ b.hands = a.hands
          /\ b.metered = m /\ b.closed = a.closed /\ b.logged = l
      BY <1>1, <3>3 DEF Attempts
    <3>1. b \in Attempts /\ b.span = a.span /\ AttemptAt("ending", b)
      BY <3>3, <3>4, <3>5 DEF AttemptAt, Kept, Told
    <3> HIDE DEF b
    <3> QED BY <2>1, <3>1, <3>2, PreviewKept, InsideKeeps
  <2>3. CASE logging.throws /\ attempt' = [attempt EXCEPT ![c].hands = "spi"]
    <3> DEFINE b == [a EXCEPT !.hands = "spi"]
    <3>1. b \in Attempts /\ b.span = a.span /\ AttemptAt("ending", b)
      BY <1>1, <2>1, <2>3 DEF Attempts, Gifts, AttemptAt, Untold, Kept, Told
    <3>2. attempt' = [attempt EXCEPT ![c] = b]
      BY <1>1, <2>3
    <3> HIDE DEF b
    <3> QED BY <2>1, <3>1, <3>2, PreviewKept, InsideKeeps
  <2> QED BY <1>7, <2>2, <2>3 DEF RecordError
<1> QED BY <1>3, <1>4, <1>5, <1>6, <1>7

\* A span that ends is one's own: everybody else's has ended as often as before.
LEMMA LeavesKeepAttempt ==
  ASSUME LogInv, NEW c \in LogCalls, LeaveStep(c) \/ DriveAgain(c) \/ CallEnds(c)
  PROVE  LogInv'
<1> USE DEF LogInv
<1>1. /\ spanEnds \in Seq(Nat) /\ Len(spanEnds) \in Nat
      /\ \A d \in LogCalls :
           /\ attempt[d] \in Attempts /\ attempt[d].span \in Nat /\ operation[d] \in Nat
           /\ attempt[d].span <= Len(spanEnds) /\ operation[d] <= Len(spanEnds)
           /\ \A e \in LogCalls : attempt[d].span # 0 =>
                attempt[d].span # operation[e] /\ (e # d => attempt[d].span # attempt[e].span)
  BY DEF LogTypes, Attempts, SpansApart, Apart, AttemptSpans, NoSpan
<1>2. PreviewFits' /\ tapped' = tapped /\ logging' = logging /\ operation' = operation
  BY DEF PreviewFits, LeaveStep, DriveAgain, CallEnds
<1>3. CASE LeaveStep(c)
  <2> DEFINE s == attempt[c].span
             b == attempt'[c]
  <2>1. /\ logPc[c] = "ending" /\ logPc' = [logPc EXCEPT ![c] = "attempted"]
        /\ spanEnds' = EndCalled(s) /\ stepSpan' = [stepSpan EXCEPT ![c] = attempt[c].before]
        /\ UNCHANGED <<logging, appSpan, driverSpan, operation, drives, tapped>>
    BY <1>3 DEF LeaveStep
  <2>2. /\ spanEnds' \in Seq(Nat) /\ Len(spanEnds') = Len(spanEnds)
        /\ s # 0 => spanEnds'[s] = spanEnds[s] + 1
        /\ \A i \in 1 .. Len(spanEnds) : i # s => spanEnds'[i] = spanEnds[i]
    BY <1>1, <2>1, EndedSpans DEF Recording, NoSpan
  <2>3. /\ attempt' \in [LogCalls -> Attempts] /\ \A d \in LogCalls : d # c => attempt'[d] = attempt[d]
        /\ b.span = s /\ AttemptAt("attempted", b)
    <3>1. attempt[c].closed = 0 /\ Kept(attempt[c]) /\ Told(attempt[c]) /\ attempt \in [LogCalls -> Attempts]
      BY <2>1 DEF AttemptPlaces, AttemptAt, LogTypes
    <3> DEFINE one == attempt[c].closed + 1
    <3>2. one \in Nat /\ one = 1
      BY <3>1
    <3>3. CASE attempt' = [attempt EXCEPT ![c].closed = @ + 1]
      <4>1. attempt' = [attempt EXCEPT ![c] = [attempt[c] EXCEPT !.closed = one]]
        BY <3>3
      <4> HIDE DEF one
      <4> DEFINE new == [attempt[c] EXCEPT !.closed = one]
      <4>2. /\ new \in Attempts /\ new.closed = one /\ new.span = attempt[c].span /\ new.gave = attempt[c].gave
            /\ new.hands = attempt[c].hands /\ new.metered = attempt[c].metered /\ new.logged = attempt[c].logged
        BY <1>1, <3>2 DEF Attempts
      <4>3. attempt' = [attempt EXCEPT ![c] = new]
        BY <4>1
      <4> HIDE DEF new
      <4> QED BY <3>1, <3>2, <4>2, <4>3 DEF AttemptAt, Kept, Told
    <3>4. CASE logging.throws /\ attempt' = [attempt EXCEPT ![c].closed = @ + 1, ![c].hands = "spi"]
      <4>1. attempt' = [attempt EXCEPT ![c] = [attempt[c] EXCEPT !.closed = one, !.hands = "spi"]]
        BY <3>1, <3>4
      <4> HIDE DEF one
      <4> DEFINE new == [attempt[c] EXCEPT !.closed = one, !.hands = "spi"]
      <4>2. /\ new \in Attempts /\ new.closed = one /\ new.span = attempt[c].span /\ new.gave = attempt[c].gave
            /\ new.hands = "spi"
        BY <1>1, <3>2 DEF Attempts, Gifts
      <4>3. attempt' = [attempt EXCEPT ![c] = new]
        BY <4>1
      <4> HIDE DEF new
      <4> QED BY <3>1, <3>2, <3>4, <4>2, <4>3, ZenonT(40) DEF AttemptAt, Kept, Told
    <3> QED BY <1>3, <3>3, <3>4 DEF LeaveStep
  <2>4. /\ logPc'[c] = "attempted" /\ \A d \in LogCalls : d # c => logPc'[d] = logPc[d] /\ stepSpan'[d] = stepSpan[d]
        /\ logPc' \in [LogCalls -> LogPlaces] /\ stepSpan' \in [LogCalls -> Nat]
    BY <1>1, <2>1 DEF LogTypes, LogPlaces, Attempts
  <2>5. LogTypes'
    BY <2>1, <2>2, <2>3, <2>4 DEF LogTypes
  <2> HIDE DEF b
  <2>6. \A d \in LogCalls : attempt'[d].span = attempt[d].span
    BY <2>3 DEF b
  <2>7. SpansApart'
    <3>1. AttemptSpans' = AttemptSpans
      BY <2>6 DEF AttemptSpans
    <3> QED BY <2>1, <2>2, <3>1 DEF SpansApart
  <2>8. SpanOfAttempt'
    <3> SUFFICES ASSUME NEW d \in LogCalls
                 PROVE  /\ InStep(d)' => stepSpan'[d] = attempt'[d].span
                        /\ InStep(d)' /\ attempt'[d].span # 0 => spanEnds'[attempt'[d].span] = 0
                        /\ logPc'[d] = "attempted" /\ attempt'[d].span # 0 => spanEnds'[attempt'[d].span] = 1
      BY DEF SpanOfAttempt, Recording, NoSpan
    <3>1. CASE d = c
      <4>1. s # 0 => spanEnds[s] = 0
        BY <2>1 DEF SpanOfAttempt, Recording, NoSpan, InStep
      <4> QED BY <2>2, <2>4, <2>6, <3>1, <4>1 DEF InStep
    <3>2. CASE d # c
      <4>1. attempt[d].span # 0 => attempt[d].span \in 1 .. Len(spanEnds) /\ attempt[d].span # s
        BY <1>1, <3>2
      <4>2. attempt[d].span # 0 => spanEnds'[attempt[d].span] = spanEnds[attempt[d].span]
        BY <2>2, <4>1
      <4> QED BY <2>4, <2>6, <3>2, <4>2 DEF SpanOfAttempt, Recording, NoSpan, InStep
    <3> QED BY <3>1, <3>2
  <2>9. AttemptPlaces'
    <3> SUFFICES ASSUME NEW d \in LogCalls PROVE AttemptAt(logPc[d], attempt[d])'
      BY DEF AttemptPlaces
    <3>1. CASE d = c
      BY <1>2, <2>3, <2>4, <3>1 DEF AttemptAt, Kept, Told, Emitted, b
    <3>2. CASE d # c
      BY <1>2, <2>3, <2>4, <3>2 DEF AttemptPlaces, AttemptAt, Untold, Told, Emitted, Kept
    <3> QED BY <3>1, <3>2
  <2> QED BY <1>2, <2>5, <2>7, <2>8, <2>9
<1>4. CASE DriveAgain(c) \/ CallEnds(c)
  <2>1. /\ spanEnds' \in Seq(Nat) /\ Len(spanEnds') = Len(spanEnds)
        /\ \A i \in 1 .. Len(spanEnds) : i # operation[c] => spanEnds'[i] = spanEnds[i]
    <3>1. CASE DriveAgain(c)
      BY <1>1, <3>1 DEF DriveAgain
    <3>2. CASE CallEnds(c)
      BY <1>1, <3>2, EndedSpans DEF CallEnds
    <3> QED BY <1>4, <3>1, <3>2
  <2>2. /\ UNCHANGED <<logging, appSpan, driverSpan, stepSpan, operation, attempt, drives, tapped>>
        /\ logPc'[c] \in {"driving", "settled"} /\ logPc' \in [LogCalls -> LogPlaces]
        /\ \A d \in LogCalls : d # c => logPc'[d] = logPc[d]
    BY <1>4 DEF DriveAgain, CallEnds, LogTypes, LogPlaces
  <2>3. LogTypes'
    BY <2>1, <2>2 DEF LogTypes
  <2>4. SpansApart'
    <3>1. AttemptSpans' = AttemptSpans
      BY <2>2 DEF AttemptSpans
    <3> QED BY <2>1, <2>2, <3>1 DEF SpansApart
  <2>5. SpanOfAttempt'
    <3>1. \A d \in LogCalls : attempt[d].span # 0 => spanEnds'[attempt[d].span] = spanEnds[attempt[d].span]
      <4> TAKE d \in LogCalls
      <4>1. attempt[d].span # 0 => attempt[d].span \in 1 .. Len(spanEnds) /\ attempt[d].span # operation[c]
        BY <1>1
      <4> QED BY <2>1, <4>1
    <3> QED BY <2>2, <3>1 DEF SpanOfAttempt, Recording, NoSpan, InStep
  <2>6. AttemptPlaces'
    <3> SUFFICES ASSUME NEW d \in LogCalls PROVE AttemptAt(logPc[d], attempt[d])'
      BY DEF AttemptPlaces
    <3>1. CASE d = c
      BY <2>2, <3>1 DEF AttemptAt
    <3>2. CASE d # c
      BY <2>2, <3>2 DEF AttemptPlaces, AttemptAt, Untold, Told, Emitted, Kept
    <3> QED BY <3>1, <3>2
  <2> QED BY <1>2, <2>3, <2>4, <2>5, <2>6
<1> QED BY <1>3, <1>4

\* send() and the drive of an outer step.
LEMMA StartsKeepAttempt ==
  ASSUME LogInv, NEW c \in LogCalls, SendThrough(c) \/ SendDeferred(c) \/ Drive(c)
  PROVE  LogInv'
<1> DEFINE len == Len(spanEnds)
<1>1. /\ spanEnds \in Seq(Nat) /\ len \in Nat /\ appSpan \in Nat /\ driverSpan \in [LogCalls -> Nat]
      /\ operation \in [LogCalls -> Nat] /\ operation[c] \in Nat /\ driverSpan[c] \in Nat
      /\ tapped[c] \in Taps
  BY DEF LogInv, LogTypes
<1>2. CASE SendThrough(c)
  <2> DEFINE opened == IF OpensOperation THEN len + 1 ELSE NoSpan
             count == (IF OpensOperation THEN 1 ELSE 0) + (IF TracesAttempts THEN 1 ELSE 0)
             span == IF TracesAttempts THEN len + count ELSE NoSpan
             before == IF OpensOperation THEN opened ELSE appSpan
  <2>1. PICK body \in Bodies :
          /\ Started(count) /\ operation' = [operation EXCEPT ![c] = opened]
          /\ Entered(c, span, before, body) /\ driverSpan' = [driverSpan EXCEPT ![c] = span]
          /\ appSpan' = IF OpensOperation THEN appSpan ELSE span
    BY <1>2 DEF SendThrough
  <2>2. logPc[c] = "idle" /\ logging' = logging
    BY <1>2 DEF SendThrough
  <2>3. /\ opened \in Nat /\ count \in Nat /\ span \in Nat /\ before \in Nat
        /\ opened \in {operation[c], 0} \/ (opened = len + 1 /\ count > 0)
        /\ span = 0 \/ (span = len + count /\ count > 0 /\ span # opened)
    BY <1>1 DEF NoSpan
  <2> HIDE DEF opened, count, span, before
  <2>4. driverSpan' \in [LogCalls -> Nat] /\ appSpan' \in Nat
    BY <1>1, <2>1, <2>3
  <2> QED BY <2>1, <2>2, <2>3, <2>4, EntryKeeps
<1>3. CASE Drive(c)
  <2> DEFINE opened == operation[c]
             count == IF TracesAttempts THEN 1 ELSE 0
             span == IF TracesAttempts THEN len + 1 ELSE NoSpan
             before == driverSpan[c]
             body == tapped[c].body
  <2>1. /\ Started(count) /\ Entered(c, span, before, body)
        /\ driverSpan' = [driverSpan EXCEPT ![c] = span]
    BY <1>3 DEF Drive
  <2>2. /\ logPc[c] = "driving" /\ logging' = logging /\ appSpan' = appSpan
        /\ operation' = [operation EXCEPT ![c] = opened]
    BY <1>1, <1>3 DEF Drive
  <2>3. /\ opened \in Nat /\ count \in Nat /\ span \in Nat /\ before \in Nat /\ body \in Bodies
        /\ opened \in {operation[c], 0}
        /\ span = 0 \/ (span = len + count /\ count > 0 /\ span # opened)
    BY <1>1 DEF NoSpan, Taps, LogInv, SpansApart, Apart
  <2> HIDE DEF count, span, before, body, opened
  <2>4. driverSpan' \in [LogCalls -> Nat] /\ appSpan' \in Nat
    BY <1>1, <2>1, <2>2, <2>3
  <2> QED BY <2>1, <2>2, <2>3, <2>4, EntryKeeps
<1>4. CASE SendDeferred(c)
  <2> DEFINE opened == IF OpensOperation THEN len + 1 ELSE NoSpan
             count == IF OpensOperation THEN 1 ELSE 0
  <2>1. /\ Started(count) /\ operation' = [operation EXCEPT ![c] = opened]
        /\ driverSpan' = [driverSpan EXCEPT ![c] = IF OpensOperation THEN opened ELSE appSpan]
        /\ logPc' = [logPc EXCEPT ![c] = "driving"]
        /\ UNCHANGED <<logging, appSpan, stepSpan, attempt, drives>>
    BY <1>4 DEF SendDeferred
  <2>2. PICK body \in Bodies : tapped' = [tapped EXCEPT ![c] = [NoTap EXCEPT !.body = body]]
    BY <1>4 DEF SendDeferred
  <2>3. /\ opened \in Nat /\ count \in Nat /\ count + 0 = count
        /\ opened = operation[c] \/ opened = 0 \/ (opened = len + 1 /\ count > 0)
    BY <1>1 DEF NoSpan
  <2>4. /\ spanEnds' \in Seq(Nat) /\ Len(spanEnds') = len + count
        /\ \A i \in 1 .. len : spanEnds'[i] = spanEnds[i]
    BY <1>1, <2>1, <2>3, StartedSpans
  <2> DEFINE t == [NoTap EXCEPT !.body = body]
  <2>5. t \in Taps /\ t.mirrored = IF t.chunks < TapCap THEN t.chunks ELSE TapCap
    <3>1. NoTap \in Taps /\ NoTap.chunks = 0 /\ NoTap.mirrored = 0
      BY DEF NoTap, Taps, Bodies
    <3>2. t \in Taps /\ t.chunks = NoTap.chunks /\ t.mirrored = NoTap.mirrored
      BY <3>1 DEF Taps
    <3> HIDE DEF t
    <3> QED BY <3>1, <3>2, LoggingAssumption DEF LoggingAssumption
  <2>6. tapped' = [tapped EXCEPT ![c] = t]
    BY <2>2
  <2> HIDE DEF t
  <2>7. tapped' \in [LogCalls -> Taps] /\ PreviewFits'
    BY <2>5, <2>6, TapMoves
  <2>8. LogTypes'
    <3>1. driverSpan' \in [LogCalls -> Nat] /\ operation' \in [LogCalls -> Nat]
      BY <1>1, <2>1, <2>3
    <3>2. logPc' \in [LogCalls -> LogPlaces]
      BY <2>1 DEF LogInv, LogTypes, LogPlaces
    <3> QED BY <2>1, <2>4, <2>7, <3>1, <3>2 DEF LogInv, LogTypes
  <2>9. \A d \in LogCalls : attempt[d].span \in Nat /\ attempt[d].span <= len /\ operation[d] <= len
    BY DEF LogInv, LogTypes, Attempts, SpansApart, Apart, AttemptSpans
  <2>10. SpansApart'
    <3>1. \A d, e \in LogCalls : attempt[d].span # 0 =>
            attempt[d].span # operation[e] /\ (e # d => attempt[d].span # attempt[e].span)
      BY DEF LogInv, SpansApart, Apart, AttemptSpans, NoSpan
    <3>2. /\ operation'[c] = opened /\ \A d \in LogCalls : d # c => operation'[d] = operation[d]
          /\ AttemptSpans' = AttemptSpans
      BY <1>1, <2>1 DEF AttemptSpans
    <3> HIDE DEF opened, count, len
    <3>3. /\ len \in Nat /\ count \in Nat /\ opened \in Nat /\ opened <= len + count
          /\ opened = operation[c] \/ opened = 0 \/ opened = len + 1
      BY <1>1, <2>3, <2>9
    <3>4. ASSUME NEW d \in LogCalls
          PROVE  /\ operation'[d] <= len + count /\ attempt[d].span <= len + count
                 /\ attempt[d].span # 0 => attempt[d].span # operation'[c]
      <4>1. /\ attempt[d].span \in Nat /\ attempt[d].span <= len
            /\ operation[d] \in Nat /\ operation[d] <= len
        BY <1>1, <2>9
      <4>2. attempt[d].span <= len + count BY <3>3, <4>1
      <4>3. operation'[d] <= len + count
        <5>1. operation'[d] = opened \/ operation'[d] = operation[d] BY <3>2
        <5> QED BY <3>3, <4>1, <5>1
      <4>4. attempt[d].span # 0 => attempt[d].span # opened BY <3>1, <3>3, <4>1
      <4> QED BY <3>2, <4>2, <4>3, <4>4
    <3> QED BY <2>4, <3>1, <3>2, <3>4 DEF SpansApart, Apart, AttemptSpans, NoSpan
  <2>11. SpanOfAttempt'
    <3>1. \A d \in LogCalls : attempt[d].span # 0 => spanEnds'[attempt[d].span] = spanEnds[attempt[d].span]
      <4> TAKE d \in LogCalls
      <4> HAVE attempt[d].span # 0
      <4> HIDE DEF len, count, opened
      <4>1. attempt[d].span \in 1 .. len BY <1>1, <2>9
      <4> QED BY <2>4, <4>1
    <3> QED BY <2>1, <3>1 DEF LogInv, LogTypes, SpanOfAttempt, Recording, NoSpan, InStep
  <2>12. AttemptPlaces'
    BY <2>1 DEF LogInv, LogTypes, AttemptPlaces, AttemptAt, Untold, Told, Emitted, Kept
  <2> QED BY <2>7, <2>8, <2>10, <2>11, <2>12 DEF LogInv
<1> QED BY <1>2, <1>3, <1>4

LEMMA LoggingStepKeeps == LogInv /\ [LoggingNext]_logVars => LogInv'
<1> SUFFICES ASSUME LogInv, [LoggingNext]_logVars PROVE LogInv'
  OBVIOUS
<1>1. CASE UNCHANGED logVars
  BY <1>1 DEF logVars, LogInv, LogTypes, SpansApart, Apart, AttemptSpans, SpanOfAttempt, InStep, PreviewFits,
              AttemptPlaces, AttemptAt, Untold, Told, Emitted, Kept
<1>2. CASE LoggingNext
  BY <1>2, StartsKeepAttempt, TapKeeps, StepsKeepAttempt, LeavesKeepAttempt DEF LoggingNext
<1> QED BY <1>1, <1>2

LEMMA LoggingImplies == LogInv => LoggingIsTransparent
  BY DEF LogInv, SpanOfAttempt, PreviewFits, AttemptPlaces, AttemptAt, Told, Emitted, Kept,
         LoggingIsTransparent

\* What the pipeline gave is handed on, measured and logged once under a span
\* ended once, and the preview is the head of one write, for any calls,
\* attempts, chunks and preview size (LoggingStep, LoggedRequestBody).
THEOREM LoggingHandsOn == LoggingSpec => []LoggingIsTransparent
  BY LoggingInitInv, LoggingStepKeeps, LoggingImplies, PTL DEF LoggingSpec

\* Watching a call changes nothing of it: both sides of it together.
THEOREM WatchingChangesNothing == CallsSpec /\ LoggingSpec => []ObservabilityIsTransparent
  BY OneSpanPerOperation, LoggingHandsOn, PTL DEF ObservabilityIsTransparent

-----------------------------------------------------------------------------
(* A walk over pages.  PagesReleased looks at all pages; the proof shows   *)
(* that only the last one can be live (Past) and says how far it is at     *)
(* each place (LastPage).                                                  *)

PageStates == {"none", "open", "closing", "closed", "failed"}

PagingTypes ==
  /\ PageBound \in Nat
  /\ view \in Views
  /\ fetched \in 0 .. PageBound
  /\ page \in [Pages -> PageStates]

\* A page is fetched only after the one before it has been closed without error.
Past == \A n \in Pages :
  /\ n < fetched => page[n] = "closed"
  /\ n > fetched => page[n] = "none"

\* What the walk holds, and how far the release of its last page is, at each
\* place it can be suspended at.
LastPage ==
  /\ walkPc = "start" => fetched = 0 /\ held = 0
  /\ walkPc = "yielded" =>
       /\ fetched # 0 /\ held = fetched /\ page[fetched] # "none"
       /\ view = "items" => page[fetched] = "closed"
  /\ walkPc \in {"closing", "quiet", "rethrow"} =>
       fetched # 0 /\ held = 0 /\ page[fetched] \in {"closing", "closed", "failed"}
  /\ walkPc \in {"closingItems", "releasing"} =>
       fetched # 0 /\ held = fetched /\ page[fetched] \in {"closing", "closed", "failed"}
  /\ walkPc = "sending" => held = 0 /\ (fetched # 0 => page[fetched] = "closed")
  /\ walkPc = "parsing" => fetched # 0 /\ held = 0 /\ page[fetched] = "open"
  /\ walkPc = "quiet" => signalled
  /\ walkPc = "over" /\ fetched # 0 =>
       /\ page[fetched] \in {"closed", "failed"}
       /\ walkResult = "ended" /\ page[fetched] = "failed" => signalled /\ held # fetched

PagingInv == PagingTypes /\ Past /\ LastPage

-----------------------------------------------------------------------------

LEMMA PagingStarts == PaginatorInit => PagingInv
  BY PaginatorAssumption
  DEF PaginatorAssumption, PaginatorInit, PaginatorStarts, PagingInv, PagingTypes, Past, LastPage,
      PageStates, Pages

\* The steps of the generator, which end at a yield, an await or the finally.
LEMMA WalkKeeps ==
  ASSUME PagingInv,
         \/ AskForPage \/ PreviousClosed \/ SendPageFails \/ NoPageAnswered \/ PageAnswered
         \/ QuietlyClosed \/ Parsed \/ ParseFails \/ Rethrown \/ ItemsClosed \/ StopPaging
         \/ WalkReleased
  PROVE  PagingInv'
<1> USE DEF PagingInv, PagingTypes, Past, LastPage, PageStates, Pages, Released, Settled, Finish
<1>1. CASE AskForPage
  <2>1. CASE ~MayContinue
    <3>1. Finish("ended") /\ walkPc \in {"start", "yielded"}
          /\ UNCHANGED <<view, fetched, more, signalled>>
      BY <1>1, <2>1 DEF AskForPage
    <3>2. CASE held = 0
      BY <3>1, <3>2
    <3>3. CASE held # 0
      BY <3>1, <3>3
    <3> QED BY <3>2, <3>3
  <2>2. CASE MayContinue /\ held = 0
    BY <1>1, <2>2 DEF AskForPage
  <2>3. CASE MayContinue /\ held # 0
    BY <1>1, <2>3 DEF AskForPage
  <2> QED BY <2>1, <2>2, <2>3
<1>2. CASE PreviousClosed
  BY <1>2 DEF PreviousClosed
<1>3. CASE SendPageFails \/ NoPageAnswered
  BY <1>3 DEF SendPageFails, NoPageAnswered
<1>4. CASE PageAnswered
  BY <1>4 DEF PageAnswered
<1>5. CASE QuietlyClosed \/ Rethrown
  BY <1>5 DEF QuietlyClosed, Rethrown
<1>6. CASE Parsed \/ ParseFails
  BY <1>6 DEF Parsed, ParseFails
<1>7. CASE ItemsClosed
  BY <1>7 DEF ItemsClosed
<1>8. CASE StopPaging
  BY <1>8 DEF StopPaging
<1>9. CASE WalkReleased
  BY <1>9 DEF WalkReleased
<1> QED BY <1>1, <1>2, <1>3, <1>4, <1>5, <1>6, <1>7, <1>8, <1>9

\* The consumer's close of a page, the settlement of a release and the signal.
LEMMA OthersKeep ==
  ASSUME PagingInv, ConsumerClosesPage \/ PageReleaseSettles \/ SignalPaging
  PROVE  PagingInv'
<1> USE DEF PagingInv, PagingTypes, Past, LastPage, PageStates, Pages
<1>1. CASE ConsumerClosesPage
  BY <1>1 DEF ConsumerClosesPage, Released
<1>2. CASE PageReleaseSettles
  BY <1>2 DEF PageReleaseSettles
<1>3. CASE SignalPaging
  BY <1>3 DEF SignalPaging
<1> QED BY <1>1, <1>2, <1>3

LEMMA PagingKeeps == PagingInv /\ [PaginatorNext]_pagingVars => PagingInv'
<1> SUFFICES ASSUME PagingInv, [PaginatorNext]_pagingVars PROVE PagingInv'
  OBVIOUS
<1>1. CASE UNCHANGED pagingVars
  BY <1>1 DEF pagingVars, PagingInv, PagingTypes, Past, LastPage
<1>2. CASE PaginatorNext
  BY <1>2, WalkKeeps, OthersKeep DEF PaginatorNext
<1> QED BY <1>1, <1>2

\* Only the last page can be live.
LEMMA AtMostOneLive ==
  ASSUME PagingInv
  PROVE  Cardinality({n \in Pages : Live(n)}) <= 1
<1> DEFINE L == {n \in Pages : Live(n)}
<1>1. L \subseteq {fetched}
  BY DEF PagingInv, PagingTypes, Past, Live, Pages
<1>2. IsFiniteSet({fetched}) /\ Cardinality({fetched}) = 1
  BY FS_Singleton
<1>3. IsFiniteSet(L) /\ Cardinality(L) <= Cardinality({fetched})
  BY <1>1, <1>2, FS_Subset
<1> QED BY <1>2, <1>3

LEMMA PagingInvImplies == PagingInv => PagesReleased /\ CloseFailureHeard
<1> SUFFICES ASSUME PagingInv PROVE PagesReleased /\ CloseFailureHeard
  OBVIOUS
<1>1. walkPc \in {"sending", "over"} => \A n \in Pages : ~Live(n)
  BY DEF PagingInv, PagingTypes, Past, LastPage, Live, Pages
<1>2. walkPc = "yielded" /\ view = "items" => \A n \in Pages : ~Live(n)
  BY DEF PagingInv, PagingTypes, Past, LastPage, Live, Pages
<1>3. CloseFailureHeard
  BY DEF PagingInv, PagingTypes, Past, LastPage, CloseFailureHeard, Pages
<1> QED BY <1>1, <1>2, <1>3, AtMostOneLive DEF PagesReleased

\* A walk holds one response at most, none across an exchange or when it is
\* over, and the consumer hears of a failed close (Paginator's #walk, items()
\* and paginateWithFetchers).
THEOREM WalkReleasesPages == PaginatorSpec => [](PagesReleased /\ CloseFailureHeard)
  BY PagingStarts, PagingKeeps, PagingInvImplies, PTL DEF PaginatorSpec

-----------------------------------------------------------------------------
(* A subscription                                                          *)

\* The loop returns only after the subscriber was closed, and the finalizer
\* has done both by then.
RxInv == RxReleasesOnce /\ (loop = "returning" => subscriber # "open")

LEMMA RxStarts == RxInit => RxInv
  BY DEF RxInit, RxInv, RxReleasesOnce

LEMMA RxKeeps == RxInv /\ [RxNext]_rxVars => RxInv'
<1> SUFFICES ASSUME RxInv, [RxNext]_rxVars PROVE RxInv'
  OBVIOUS
<1> USE DEF RxInv, RxReleasesOnce, CloseSubscriber, ReturnOnce
<1>1. CASE Unsubscribe
  BY <1>1 DEF Unsubscribe
<1>2. CASE PullNext \/ PullSettles
  BY <1>2 DEF PullNext, PullSettles
<1>3. CASE DeliverValue
  BY <1>3 DEF DeliverValue, Cancelled
<1>4. CASE LoopBreaks \/ PullThrows
  BY <1>4 DEF LoopBreaks, PullThrows
<1>5. CASE LoopReturns
  BY <1>5 DEF LoopReturns
<1>6. CASE UNCHANGED rxVars
  BY <1>6 DEF rxVars
<1> QED BY <1>1, <1>2, <1>3, <1>4, <1>5, <1>6 DEF RxNext

\* The source is released and the iterator returned exactly once each, and no
\* value reaches a subscriber that has gone (fromAsyncIterable).
THEOREM SubscriptionReleasesOnce == RxSpec => []RxReleasesOnce
<1>1. RxInv => RxReleasesOnce
  BY DEF RxInv
<1> QED BY <1>1, RxStarts, RxKeeps, PTL DEF RxSpec

\* Both together: whoever leaves, and whenever, what was held is released.
THEOREM LeavingReleases == PaginatorSpec /\ RxSpec => []TeardownReleases
  BY WalkReleasesPages, SubscriptionReleasesOnce, PTL DEF TeardownReleases

-----------------------------------------------------------------------------
(* The recovery chain                                                      *)

\* The outcome is the latest response or an error of a step, and every other
\* response has been released.
OneAtMost ==
  /\ answered \in 0 .. MaxResponses
  /\ response \in [Responses -> {"none", "open", "closing", "closed", "failed"}]
  /\ outcome.kind \in {"pending", "success", "failure"}
  /\ outcome.kind = "pending" => answered = 0
  /\ outcome.kind = "success" => answered # 0 /\ outcome.response = answered
  /\ outcome.kind = "failure" => outcome.primary # "close"
  /\ \A r \in Responses : r > answered => response[r] = "none"
  /\ \A r \in Responses :
       response[r] \in {"open", "closing"} => outcome.kind = "success" /\ r = outcome.response

\* How far the response in hand is, and how many hooks have run, at each place.
ChainPlaces ==
  /\ phase \in {"request", "transport", "response", "recovery", "closing", "done"}
  /\ index \in Nat /\ hookRuns \in Nat
  /\ phase \in {"request", "transport"} => outcome.kind = "pending"
  /\ phase \in {"response", "recovery", "done"} => outcome.kind \in {"success", "failure"}
  /\ outcome.kind = "success" /\ phase # "closing" => response[outcome.response] = "open"
  /\ phase = "closing" =>
       /\ outcome.kind = "success"
       /\ response[outcome.response] \in {"closing", "closed", "failed"}
       /\ after \in {"response", "recovery"}
       /\ hookRuns = IF after = "recovery" THEN index + 1 ELSE 0
  /\ phase \in {"request", "transport", "response"} => hookRuns = 0
  /\ phase = "recovery" => hookRuns = index
  /\ phase = "done" => hookRuns = RecoverySteps

ChainInv == OneAtMost /\ ChainPlaces

LEMMA ChainStarts == RecoveryInit => ChainInv
  BY RecoveryAssumption
  DEF RecoveryAssumption, RecoveryInit, ChainInv, OneAtMost, ChainPlaces, Responses

\* The request chain and the transport.
LEMMA HeadKeeps ==
  ASSUME ChainInv,
         \/ RequestStepPasses \/ RequestStepThrows \/ RequestReady
         \/ TransportAnswers \/ TransportRejects
  PROVE  ChainInv'
<1> USE RecoveryAssumption
    DEF RecoveryAssumption, ChainInv, OneAtMost, ChainPlaces, Responses, Goto, NextStep
<1>1. CASE RequestStepPasses \/ RequestReady
  BY <1>1 DEF RequestStepPasses, RequestReady
<1>2. CASE RequestStepThrows
  BY <1>2 DEF RequestStepThrows, Failure
<1>3. CASE TransportRejects
  BY <1>3 DEF TransportRejects, Failure
<1>4. CASE TransportAnswers
  BY <1>4 DEF TransportAnswers, Success
<1> QED BY <1>1, <1>2, <1>3, <1>4

\* The steps of both lists.
LEMMA StepsKeep ==
  ASSUME ChainInv,
         \/ StepPasses \/ StepSubstitutes \/ StepReturnsFailure \/ StepThrows \/ StatusMapped
  PROVE  ChainInv'
<1> USE RecoveryAssumption
    DEF RecoveryAssumption, ChainInv, OneAtMost, ChainPlaces, Responses, NextStep, StepRuns, Counted
<1>1. CASE StepPasses
  BY <1>1 DEF StepPasses
<1>2. CASE StepSubstitutes
  BY <1>2 DEF StepSubstitutes, Success
<1>3. CASE StepReturnsFailure
  BY <1>3 DEF StepReturnsFailure, Failure
<1>4. CASE StepThrows
  BY <1>4 DEF StepThrows, HeldOpen, Failure
<1>5. CASE StatusMapped
  BY <1>5 DEF StatusMapped
<1> QED BY <1>1, <1>2, <1>3, <1>4, <1>5

\* The release after a throw, and the ends of the phases.
LEMMA TailKeeps ==
  ASSUME ChainInv, ReleaseAfterThrow \/ ThrowConverted \/ ResponsePhaseEnds \/ Unwrap
  PROVE  ChainInv'
<1> USE RecoveryAssumption
    DEF RecoveryAssumption, ChainInv, OneAtMost, ChainPlaces, Responses, Goto
<1>1. CASE ReleaseAfterThrow
  BY <1>1 DEF ReleaseAfterThrow
<1>2. CASE ThrowConverted
  BY <1>2 DEF ThrowConverted, Failure
<1>3. CASE ResponsePhaseEnds \/ Unwrap
  BY <1>3 DEF ResponsePhaseEnds, Unwrap
<1> QED BY <1>1, <1>2, <1>3

LEMMA ChainKeeps == ChainInv /\ [RecoveryNext]_recoveryVars => ChainInv'
<1> SUFFICES ASSUME ChainInv, [RecoveryNext]_recoveryVars PROVE ChainInv'
  OBVIOUS
<1>1. CASE UNCHANGED recoveryVars
  BY <1>1 DEF recoveryVars, ChainInv, OneAtMost, ChainPlaces
<1>2. CASE RecoveryNext
  BY <1>2, HeadKeeps, StepsKeep, TailKeeps DEF RecoveryNext
<1> QED BY <1>1, <1>2

LEMMA ChainImplies == ChainInv => RecoveryReleases
  BY DEF ChainInv, OneAtMost, ChainPlaces, RecoveryReleases, Unreleased, Responses

\* A failed call has released every response it saw and a successful one holds
\* the one it returns, whichever steps throw (dispatchWithRecovery).
THEOREM ChainReleasesResponses == RecoverySpec => []RecoveryReleases
  BY ChainStarts, ChainKeeps, ChainImplies, PTL DEF RecoverySpec
-----------------------------------------------------------------------------
(* The readers of a response                                               *)

Results == {"none", "empty", "null", "bytes", "error", "value"}
Errors == {"none", "decode", "type", "status", "abort", "read", "close"}
Outcomes == [result : Results, error : Errors, also : {"none", "close"}]
Operations == {"none", "bytes", "decode", "httpError", "value", "stream"}
Stops == {"idle", "reading", "leaving", "closing", "joined", "over"}
Records == [op : Operations, at : Stops, kept : Nat, outcome : Outcomes]

\* What a call may be doing at each place.
ReaderTypes ==
  /\ reads \in [Consumers -> Records]
  /\ {reader, memoized} \subseteq Consumers \cup {NoConsumer}
  /\ content \in {"null", "open", "ended", "failed", "terminated", "cancelled"}
  /\ closing \in {"none", "pending", "closed", "failed"}
  /\ \A c \in Consumers :
       /\ reads[c].at = "idle" => reads[c].op = "none"
       /\ reads[c].at = "reading" => reads[c].op \in {"bytes", "decode", "httpError", "stream"}
       /\ reads[c].at = "leaving" => reads[c].op = "decode"
       /\ reads[c].at = "closing" => reads[c].op \in {"bytes", "decode", "httpError"}
       /\ reads[c].at = "joined" => reads[c].op = "value" /\ memoized \in Consumers

\* The lock is held by the one call that is reading.
LockIsTheReaders == \A c \in Consumers : reads[c].at = "reading" <=> reader = c

\* A call that has left its loop has a result or an error.
Ended == {"leaving", "closing", "over"}
EndedDecided ==
  \A c \in Consumers :
    reads[c].at \in Ended =>
      reads[c].outcome.result # "none" \/ reads[c].outcome.error # "none"

\* A release that was started is never forgotten, and an owner waits for it.
OwnersWait ==
  \A c \in Consumers :
    /\ reads[c].at = "closing" => closing # "none"
    /\ reads[c].at = "over" /\ reads[c].op \in {"bytes", "decode"} =>
         closing \in {"closed", "failed"}

\* A body stays open behind a release only under a reader.
OpenOnlyUnderReader ==
  closing # "none" => content # "open" \/ reader # NoConsumer \/ GaveUp

\* An owner that saw the release of a cancelled body fail says so.
FailedReleaseHeard ==
  /\ closing = "pending" => content = "cancelled"
  /\ (closing = "failed" /\ content = "cancelled") =>
       \A c \in Consumers :
         reads[c].at = "over" /\ reads[c].op \in {"bytes", "decode"} =>
           "close" \in {reads[c].outcome.error, reads[c].outcome.also}

ReaderInv ==
  /\ ReaderTypes /\ LockIsTheReaders /\ EndedDecided
  /\ OwnersWait /\ OpenOnlyUnderReader /\ FailedReleaseHeard

LEMMA ReadersStart == ResponseInit => ReaderInv
  BY ResponseAssumption
  DEF ResponseAssumption, ResponseInit, ResponseStarts, ReaderInv, ReaderTypes, Outcomes,
      LockIsTheReaders, EndedDecided, Ended, OwnersWait, OpenOnlyUnderReader,
      FailedReleaseHeard, Undecided, Outcome, Records, Operations, Stops, Results, Errors

\* What a call that moves leaves: its own record changed, the others as they were.
LEMMA CallMoves ==
  ASSUME ReaderTypes, NEW c \in Consumers,
         NEW op \in Operations, NEW at \in Stops, NEW o \in Outcomes,
         Goes(c, op, at, o)
  PROVE  /\ reads' \in [Consumers -> Records]
         /\ reads'[c].op = op /\ reads'[c].at = at /\ reads'[c].outcome = o
         /\ \A d \in Consumers : d # c => reads'[d] = reads[d]
  BY DEF ReaderTypes, Records, Goes

LEMMA ClosingNames ==
  ASSUME ReaderTypes, CloseCall(reader)
  PROVE  /\ closing' # "none"
         /\ closing' \in {"pending", "closed", "failed"}
         /\ content' \in {"null", "open", "ended", "failed", "terminated", "cancelled"}
         /\ closing # "none" => closing' = closing /\ content' = content
         /\ closing = "none" /\ content' = "open" => reader # NoConsumer
         /\ closing' = "pending" => closing = "pending" \/ content' = "cancelled"
         /\ closing = "none" /\ closing' = "failed" => content' = "failed"
  BY DEF ReaderTypes, CloseCall, ReleaseOf

\* The head of a call.
LEMMA BeginsKeep ==
  ASSUME ReaderInv, NEW c \in Consumers, NEW op \in {"bytes", "decode", "httpError", "stream"},
         op = "stream" => content # "null",
         reads[c].at = "idle", BeginRead(c, op),
         memoized' \in {memoized, c}
  PROVE  ReaderInv'
<1> USE ResponseAssumption
    DEF ResponseAssumption, ReaderInv, LockIsTheReaders, EndedDecided, Ended, OwnersWait,
        OpenOnlyUnderReader, FailedReleaseHeard, GaveUp, Over
<1>1. CASE content = "null" \/ reader # NoConsumer
  <2> DEFINE o == Unreadable(op)
  <2>1. /\ o \in Outcomes /\ Left(op) \in Stops /\ op \in Operations
        /\ o.result # "none" \/ o.error # "none"
    BY DEF Unreadable, Left, ClosesAtOnce, Outcomes, Outcome, FailedWith, Results, Errors,
           Operations, Stops
  <2>2. Goes(c, op, Left(op), o) /\ UNCHANGED reader
    BY <1>1 DEF BeginRead
  <2> HIDE DEF o
  <2>3. /\ reads' \in [Consumers -> Records]
        /\ reads'[c].op = op /\ reads'[c].at = Left(op) /\ reads'[c].outcome = o
        /\ \A d \in Consumers : d # c => reads'[d] = reads[d]
    BY <2>1, <2>2, CallMoves
  <2>4. CASE op \in {"bytes", "httpError"}
    <3>1. CloseCall(reader) /\ Left(op) = "closing"
      BY <1>1, <2>4 DEF BeginRead, ClosesAtOnce, Left
    <3>2. ReaderTypes'
      BY <2>2, <2>3, <2>4, <3>1, ClosingNames DEF ReaderTypes
    <3>3. (GaveUp => GaveUp')
      BY <2>3, <3>1
    <3> QED BY <1>1, <2>1, <2>2, <2>3, <2>4, <3>1, <3>2, <3>3, ClosingNames DEF ReaderTypes
  <2>5. CASE op \in {"decode", "stream"}
    <3>1. UNCHANGED <<closing, content>> /\ Left(op) = (IF op = "stream" THEN "over" ELSE "leaving")
      BY <1>1, <2>5 DEF BeginRead, ClosesAtOnce, Left
    <3>2. ReaderTypes'
      BY <2>2, <2>3, <2>5, <3>1 DEF ReaderTypes
    <3>3. (GaveUp => GaveUp')
      BY <2>3, <3>1
    <3> QED BY <1>1, <2>1, <2>2, <2>3, <2>5, <3>1, <3>2, <3>3 DEF ReaderTypes
  <2> QED BY <2>4, <2>5
<1>2. CASE ~(content = "null" \/ reader # NoConsumer)
  <2>1. /\ Goes(c, op, "reading", Undecided)
        /\ reader' = c /\ UNCHANGED <<closing, content>>
    BY <1>2 DEF BeginRead
  <2>2. Undecided \in Outcomes /\ op \in Operations /\ "reading" \in Stops
    BY DEF Undecided, Outcome, Outcomes, Results, Errors, Operations, Stops
  <2>3. /\ reads' \in [Consumers -> Records]
        /\ reads'[c].op = op /\ reads'[c].at = "reading"
        /\ \A d \in Consumers : d # c => reads'[d] = reads[d]
    BY <2>1, <2>2, CallMoves
  <2>4. ReaderTypes'
    BY <2>1, <2>3 DEF ReaderTypes
  <2> QED BY <1>2, <2>1, <2>3, <2>4 DEF ReaderTypes
<1> QED BY <1>1, <1>2

\* A call that ends, joins or gives up without touching the body.
LEMMA AsideKeeps ==
  ASSUME ReaderInv, NEW c \in Consumers, reads[c].at = "idle",
         NEW op \in Operations, NEW at \in {"leaving", "joined", "over"}, NEW o \in Outcomes,
         Goes(c, op, at, o), UNCHANGED <<reader, closing, content, memoized>>,
         at = "leaving" => op = "decode",
         at = "joined" => op = "value" /\ memoized \in Consumers,
         at = "over" => op \notin {"bytes", "decode"},
         at # "joined" => o.result # "none" \/ o.error # "none"
  PROVE  ReaderInv'
<1> USE ResponseAssumption
    DEF ResponseAssumption, ReaderInv, LockIsTheReaders, EndedDecided, Ended, OwnersWait,
        OpenOnlyUnderReader, FailedReleaseHeard, GaveUp, Over
<1>1. at \in Stops
  BY DEF Stops
<1>2. /\ reads' \in [Consumers -> Records]
      /\ reads'[c].op = op /\ reads'[c].at = at /\ reads'[c].outcome = o
      /\ \A d \in Consumers : d # c => reads'[d] = reads[d]
  BY <1>1, CallMoves
<1>3. ReaderTypes'
  BY <1>2 DEF ReaderTypes
<1>4. GaveUp => GaveUp'
  BY <1>2
<1> QED BY <1>2, <1>3, <1>4 DEF ReaderTypes

LEMMA HeadsKeep ==
  ASSUME ReaderInv, NEW c \in Consumers,
         \/ ReadBytes(c) \/ DecodeResponse(c) \/ ToHttpError(c)
         \/ DecodeSuccess(c) \/ TypedValue(c) \/ ReadStream(c)
  PROVE  ReaderInv'
<1> USE DEF Idle
<1>1. CASE ReadBytes(c)
  BY <1>1, BeginsKeep DEF ReadBytes
<1>2. CASE DecodeResponse(c)
  BY <1>2, BeginsKeep DEF DecodeResponse
<1>3. CASE ToHttpError(c)
  <2>1. CASE received.status = "error"
    BY <1>3, <2>1, BeginsKeep DEF ToHttpError
  <2>2. CASE received.status # "error"
    <3> DEFINE o == Outcome("null", "none", "none")
    <3>1. o \in Outcomes /\ o.result = "null" /\ "httpError" \in Operations
      BY DEF Outcome, Outcomes, Results, Errors, Operations, Stops
    <3>2. Goes(c, "httpError", "over", o) /\ UNCHANGED <<reader, closing, content, memoized>>
      BY <1>3, <2>2 DEF ToHttpError
    <3> HIDE DEF o
    <3> QED BY <1>3, <3>1, <3>2, AsideKeeps DEF ToHttpError
  <2> QED BY <2>1, <2>2
<1>4. CASE DecodeSuccess(c)
  <2>1. CASE received.status \in {"success", "error"}
    BY <1>4, <2>1, BeginsKeep DEF DecodeSuccess
  <2>2. CASE received.status \notin {"success", "error"}
    <3> DEFINE o == FailedWith("status")
    <3>1. o \in Outcomes /\ o.error = "status" /\ "decode" \in Operations
      BY DEF FailedWith, Outcome, Outcomes, Results, Errors, Operations, Stops
    <3>2. Goes(c, "decode", "leaving", o) /\ UNCHANGED <<reader, closing, content, memoized>>
      BY <1>4, <2>2 DEF DecodeSuccess
    <3> HIDE DEF o
    <3> QED BY <1>4, <3>1, <3>2, AsideKeeps DEF DecodeSuccess
  <2> QED BY <2>1, <2>2
<1>5. CASE TypedValue(c)
  <2>1. CASE memoized = NoConsumer
    BY <1>5, <2>1, BeginsKeep DEF TypedValue
  <2>2. CASE memoized # NoConsumer
    <3>1. Undecided \in Outcomes /\ "value" \in Operations
      BY DEF Undecided, Outcome, Outcomes, Results, Errors, Operations, Stops
    <3>2. /\ Goes(c, "value", "joined", Undecided)
          /\ UNCHANGED <<reader, closing, content, memoized>>
      BY <1>5, <2>2 DEF TypedValue
    <3>3. memoized \in Consumers
      BY <2>2 DEF ReaderInv, ReaderTypes
    <3> HIDE DEF Undecided
    <3> QED BY <1>5, <3>1, <3>2, <3>3, AsideKeeps DEF TypedValue
  <2> QED BY <2>1, <2>2
<1>6. CASE ReadStream(c)
  <2>1. CASE BeginRead(c, "stream")
    BY <1>6, <2>1, BeginsKeep DEF ReadStream
  <2>2. CASE ~BeginRead(c, "stream")
    <3> DEFINE o == FailedWith("abort")
    <3>1. o \in Outcomes /\ o.error = "abort" /\ "stream" \in Operations
      BY DEF FailedWith, Outcome, Outcomes, Results, Errors, Operations, Stops
    <3>2. Goes(c, "stream", "over", o) /\ UNCHANGED <<reader, closing, content, memoized>>
      BY <1>6, <2>2 DEF ReadStream
    <3> HIDE DEF o
    <3> QED BY <1>6, <3>1, <3>2, AsideKeeps DEF ReadStream
  <2> QED BY <2>1, <2>2
<1> QED BY <1>1, <1>2, <1>3, <1>4, <1>5, <1>6

\* The call that leaves its loop gives the lock back; the body is no longer open,
\* or its reader gave up.
LEMMA LoopsKeep ==
  ASSUME ReaderInv, NEW c \in Consumers,
         NEW at \in {"leaving", "closing", "over"}, NEW o \in Outcomes,
         reads[c].at = "reading", Goes(c, reads[c].op, at, o),
         at = Left(reads[c].op),
         o.result # "none" \/ o.error # "none",
         reader' = NoConsumer, UNCHANGED memoized,
         content' \in {"null", "open", "ended", "failed", "terminated", "cancelled"},
         closing' \in {"none", "pending", "closed", "failed"},
         closing # "none" => closing' = closing,
         content' = "cancelled" <=> content = "cancelled",
         closing = "none" /\ closing' # "none" =>
           ClosesAtOnce(reads[c].op) /\ closing' # "pending"
             /\ (closing' = "failed" => content' # "cancelled"),
         ClosesAtOnce(reads[c].op) => closing' # "none",
         content' = "open" => at = "over" /\ o.error = "abort"
  PROVE  ReaderInv'
<1> USE ResponseAssumption
    DEF ResponseAssumption, ReaderInv, LockIsTheReaders, EndedDecided, Ended, OwnersWait,
        OpenOnlyUnderReader, FailedReleaseHeard, GaveUp, Over
<1>1. /\ at \in Stops /\ reads[c].op \in {"bytes", "decode", "httpError", "stream"}
      /\ reads[c].op \in Operations
  BY DEF ReaderTypes, Stops, Operations
<1>2. /\ reads' \in [Consumers -> Records]
      /\ reads'[c].op = reads[c].op /\ reads'[c].at = at /\ reads'[c].outcome = o
      /\ \A d \in Consumers : d # c => reads'[d] = reads[d]
  BY <1>1, CallMoves
<1>3. ReaderTypes'
  BY <1>1, <1>2 DEF ReaderTypes, Left, ClosesAtOnce
<1>4. LockIsTheReaders'
  BY <1>1, <1>2 DEF ReaderTypes
<1>5. EndedDecided' /\ OwnersWait'
  BY <1>1, <1>2 DEF ReaderTypes, Left, ClosesAtOnce
<1>6. OpenOnlyUnderReader'
  BY <1>1, <1>2
<1>7. FailedReleaseHeard'
  BY <1>1, <1>2 DEF ReaderTypes, Left, ClosesAtOnce
<1> QED BY <1>3, <1>4, <1>5, <1>6, <1>7

LEMMA LoopEndsKeep ==
  ASSUME ReaderInv, NEW c \in Consumers, ReadToEnd(c) \/ ReadFails(c) \/ ReadAborted(c)
  PROVE  ReaderInv'
<1>1. ReaderTypes /\ FailedReleaseHeard
  BY DEF ReaderInv
<1>2. /\ reads[c].at = "reading" => reads[c].op \in {"bytes", "decode", "httpError", "stream"}
      /\ reads[c].op = "stream" => ~ClosesAtOnce(reads[c].op) /\ Left(reads[c].op) = "over"
      /\ reads[c].at = "reading" => Left(reads[c].op) \in {"leaving", "closing", "over"}
  BY <1>1 DEF ReaderTypes, Left, ClosesAtOnce
<1>3. CASE ReadToEnd(c)
  <2>1. PICK o \in Made(c) : Goes(c, reads[c].op, Left(reads[c].op), o)
    BY <1>3 DEF ReadToEnd
  <2>2. o \in Outcomes /\ (o.result # "none" \/ o.error # "none")
    <3>1. CASE reads[c].op = "bytes"
      BY <3>1 DEF Made, Outcome, Outcomes, Results, Errors
    <3>2. CASE reads[c].op = "httpError"
      BY <3>2 DEF Made, Outcome, Outcomes, Results, Errors
    <3>3. CASE reads[c].op \notin {"bytes", "httpError"}
      <4>1. o \in {FailedWith("decode"), Outcome("value", "none", "none")}
        BY <3>3 DEF Made
      <4> QED BY <4>1 DEF FailedWith, Outcome, Outcomes, Results, Errors
    <3> QED BY <3>1, <3>2, <3>3
  <2>3. /\ reads[c].at = "reading" /\ reader' = NoConsumer /\ UNCHANGED memoized
        /\ content \in {"open", "ended", "cancelled"}
        /\ content' = IF content = "open" THEN "ended" ELSE content
        /\ closing' = IF ClosesAtOnce(reads[c].op) /\ closing = "none" THEN "closed" ELSE closing
    BY <1>3 DEF ReadToEnd
  <2>4. closing \in {"none", "pending", "closed", "failed"}
    BY <1>1 DEF ReaderTypes
  <2> QED BY <1>2, <2>1, <2>2, <2>3, <2>4, LoopsKeep
<1>4. CASE ReadFails(c)
  <2>1. PICK error \in {"read", "decode"} :
          Goes(c, reads[c].op, Left(reads[c].op), FailedWith(error))
    BY <1>4 DEF ReadFails
  <2> DEFINE o == FailedWith(error)
  <2>2. o \in Outcomes /\ o.error # "none"
    BY DEF FailedWith, Outcome, Outcomes, Results, Errors, Operations, Stops
  <2>3. /\ reads[c].at = "reading" /\ reader' = NoConsumer /\ UNCHANGED memoized
        /\ content # "cancelled" /\ content' \in {"failed", "terminated"}
        /\ closing' = IF ~ClosesAtOnce(reads[c].op) \/ closing # "none" THEN closing
                      ELSE IF content' = "failed" THEN "failed" ELSE "closed"
    BY <1>4 DEF ReadFails
  <2>4. closing \in {"none", "pending", "closed", "failed"}
    BY <1>1 DEF ReaderTypes
  <2> HIDE DEF o
  <2> QED BY <1>2, <2>1, <2>2, <2>3, <2>4, LoopsKeep DEF o
<1>5. CASE ReadAborted(c)
  <2> DEFINE o == FailedWith("abort")
  <2>1. o \in Outcomes /\ o.error = "abort"
    BY DEF FailedWith, Outcome, Outcomes, Results, Errors, Operations, Stops
  <2>2. /\ reads[c].at = "reading" /\ reads[c].op = "stream"
        /\ Goes(c, reads[c].op, "over", o)
        /\ reader' = NoConsumer /\ UNCHANGED <<content, closing, memoized>>
    BY <1>5 DEF ReadAborted
  <2>3. /\ closing \in {"none", "pending", "closed", "failed"}
        /\ content \in {"null", "open", "ended", "failed", "terminated", "cancelled"}
    BY <1>1 DEF ReaderTypes
  <2> HIDE DEF o
  <2> QED BY <1>2, <2>1, <2>2, <2>3, LoopsKeep
<1> QED BY <1>3, <1>4, <1>5

\* A chunk, and the answer of a value() that was joined.
LEMMA RecordsKeep ==
  ASSUME ReaderInv, NEW c \in Consumers, ReadChunk(c) \/ ValueShared(c)
  PROVE  ReaderInv'
<1> USE ResponseAssumption
    DEF ResponseAssumption, ReaderInv, LockIsTheReaders, EndedDecided, Ended, OwnersWait,
        OpenOnlyUnderReader, FailedReleaseHeard, GaveUp, Over
<1>1. CASE ReadChunk(c)
  <2>1. /\ reads' \in [Consumers -> Records]
        /\ \A d \in Consumers : /\ reads'[d].op = reads[d].op /\ reads'[d].at = reads[d].at
                               /\ reads'[d].outcome = reads[d].outcome
    BY <1>1 DEF ReadChunk, ReaderTypes, Records
  <2>2. UNCHANGED <<content, reader, closing, memoized>>
    BY <1>1 DEF ReadChunk
  <2>3. ReaderTypes'
    BY <2>1, <2>2 DEF ReaderTypes
  <2>4. GaveUp => GaveUp'
    BY <2>1
  <2> QED BY <2>1, <2>2, <2>3, <2>4 DEF ReaderTypes
<1>2. CASE ValueShared(c)
  <2>1. /\ reads[c].op = "value" /\ memoized \in Consumers
        /\ reads \in [Consumers -> Records]
    BY <1>2 DEF ValueShared, ReaderTypes
  <2>2. /\ reads' \in [Consumers -> Records]
        /\ reads'[c].op = "value" /\ reads'[c].at = "over"
        /\ reads'[c].outcome = reads[memoized].outcome
        /\ \A d \in Consumers : d # c => reads'[d] = reads[d]
    <3> DEFINE r == [reads[memoized] EXCEPT !.op = "value"]
    <3>1. reads' = [reads EXCEPT ![c] = r] /\ reads[memoized].at = "over"
      BY <1>2 DEF ValueShared
    <3>2. /\ r \in Records /\ r.op = "value" /\ r.at = "over"
          /\ r.outcome = reads[memoized].outcome
      BY <2>1, <3>1 DEF Records, Operations
    <3> HIDE DEF r
    <3> QED BY <2>1, <3>1, <3>2
  <2>3. UNCHANGED <<content, reader, closing, memoized>> /\ reads[c].at = "joined"
        /\ reads[memoized].at = "over"
    BY <1>2 DEF ValueShared
  <2>4. ReaderTypes'
    BY <2>2, <2>3 DEF ReaderTypes
  <2>5. GaveUp => GaveUp'
    BY <2>2, <2>3
  <2> QED BY <2>1, <2>2, <2>3, <2>4, <2>5 DEF ReaderTypes
<1> QED BY <1>1, <1>2

\* close(), by anybody, and what becomes of it.
LEMMA ReleasesKeep ==
  ASSUME ReaderInv, CancelSettles \/ CloseResponse
  PROVE  ReaderInv'
<1> USE ResponseAssumption
    DEF ResponseAssumption, ReaderInv, LockIsTheReaders, EndedDecided, Ended, OwnersWait,
        OpenOnlyUnderReader, FailedReleaseHeard, GaveUp, Over
<1>1. UNCHANGED <<reads, reader, memoized>>
  BY DEF CancelSettles, CloseResponse
<1>2. GaveUp => GaveUp'
  BY <1>1
<1>3. CASE CancelSettles
  BY <1>1, <1>2, <1>3 DEF CancelSettles, ReaderTypes
<1>4. CASE CloseResponse
  <2>1. closing = "none" /\ CloseCall(reader)
    BY <1>4 DEF CloseResponse
  <2>2. ReaderTypes'
    BY <1>1, <2>1, ClosingNames DEF ReaderTypes
  <2> QED BY <1>1, <1>2, <2>1, <2>2, ClosingNames DEF ReaderTypes
<1> QED BY <1>3, <1>4

\* closingAfter, and the answer of a call whose release has settled.
LEMMA LeavesKeep ==
  ASSUME ReaderInv, NEW c \in Consumers, CloseAfter(c) \/ FinishOperation(c)
  PROVE  ReaderInv'
<1> USE ResponseAssumption
    DEF ResponseAssumption, ReaderInv, LockIsTheReaders, EndedDecided, Ended, OwnersWait,
        OpenOnlyUnderReader, FailedReleaseHeard, GaveUp, Over
<1>1. CASE CloseAfter(c)
  <2>1. /\ Goes(c, "decode", "closing", reads[c].outcome) /\ CloseCall(reader)
        /\ UNCHANGED <<reader, memoized>> /\ reads[c].at = "leaving"
    BY <1>1 DEF CloseAfter
  <2>2. /\ "decode" \in Operations /\ "closing" \in Stops /\ reads[c].outcome \in Outcomes
    BY DEF Operations, Stops, ReaderTypes, Records
  <2>3. /\ reads' \in [Consumers -> Records]
        /\ reads'[c].op = "decode" /\ reads'[c].at = "closing"
        /\ reads'[c].outcome = reads[c].outcome
        /\ \A d \in Consumers : d # c => reads'[d] = reads[d]
    BY <2>1, <2>2, CallMoves
  <2>4. ReaderTypes'
    BY <2>1, <2>3, ClosingNames DEF ReaderTypes
  <2>5. GaveUp => GaveUp'
    BY <2>1, <2>3
  <2> QED BY <2>1, <2>3, <2>4, <2>5, ClosingNames DEF ReaderTypes
<1>2. CASE FinishOperation(c)
  <2> DEFINE o == WithRelease(reads[c].op, reads[c].outcome)
  <2>1. /\ Goes(c, reads[c].op, "over", o) /\ reads[c].at = "closing"
        /\ closing \in {"closed", "failed"}
        /\ UNCHANGED <<content, reader, closing, memoized>>
    BY <1>2 DEF FinishOperation
  <2>2. /\ reads[c].op \in Operations /\ "over" \in Stops /\ reads[c].outcome \in Outcomes
        /\ reads[c].op # "stream" /\ reads[c].op # "value"
    BY <2>1 DEF Operations, Stops, ReaderTypes, Records
  <2>3. /\ o \in Outcomes /\ (o.result # "none" \/ o.error # "none")
        /\ closing = "failed" /\ content = "cancelled" /\ reads[c].op # "httpError" =>
             "close" \in {o.error, o.also}
    BY <2>1, <2>2 DEF WithRelease, FailedWith, Outcome, Outcomes, Results, Errors, Operations, Stops
  <2> HIDE DEF o
  <2>4. /\ reads' \in [Consumers -> Records]
        /\ reads'[c].op = reads[c].op /\ reads'[c].at = "over" /\ reads'[c].outcome = o
        /\ \A d \in Consumers : d # c => reads'[d] = reads[d]
    BY <2>1, <2>2, <2>3, CallMoves
  <2>5. ReaderTypes'
    BY <2>1, <2>4 DEF ReaderTypes
  <2>6. GaveUp => GaveUp'
    BY <2>1, <2>4
  <2> QED BY <2>1, <2>2, <2>3, <2>4, <2>5, <2>6 DEF ReaderTypes
<1> QED BY <1>1, <1>2

LEMMA ReadersKeep == ReaderInv /\ [ResponseNext]_responseVars => ReaderInv'
<1> SUFFICES ASSUME ReaderInv, [ResponseNext]_responseVars PROVE ReaderInv'
  OBVIOUS
<1>1. CASE UNCHANGED responseVars
  BY <1>1 DEF responseVars, ReaderInv, ReaderTypes, LockIsTheReaders, EndedDecided, OwnersWait,
              OpenOnlyUnderReader, FailedReleaseHeard, GaveUp, Over
<1>2. CASE ResponseNext
  BY <1>2, HeadsKeep, LoopEndsKeep, RecordsKeep, ReleasesKeep, LeavesKeep DEF ResponseNext
<1> QED BY <1>1, <1>2

LEMMA ReadersImply == ReaderInv => ReadersRelease
  BY ResponseAssumption
  DEF ResponseAssumption, ReaderInv, ReaderTypes, LockIsTheReaders, EndedDecided, Ended,
      OwnersWait, OpenOnlyUnderReader, FailedReleaseHeard, ReadersRelease, GaveUp, Over

\* A call that owns the response has released it when it is over, one that does
\* not leaves it to its owner, and a release that fails is heard.
THEOREM ReadersReleaseTheirs == ResponseSpec => []ReadersRelease
  BY ReadersStart, ReadersKeep, ReadersImply, PTL DEF ResponseSpec

\* Both owners together: nothing a chain or a reader held is left unreleased.
THEOREM ResponsesAreReleased == RecoverySpec /\ ResponseSpec => []ResponsesReleased
  BY ChainReleasesResponses, ReadersReleaseTheirs, PTL DEF ResponsesReleased

-----------------------------------------------------------------------------
(* A send().  RejectedSendIsClean says nothing of the places before        *)
(* "rejected", so it is not inductive.  What carries it: a fork that is    *)
(* not live any more has taken the exchange down (Severed), each place of  *)
(* send() knows what is still running (Places), and the cause is that of a *)
(* signal that fired (Causes).                                             *)

Dispatchers == {"proxied", "direct"}

\* The types of what steps update in part; the other variables are assigned
\* whole.
SignalTypes ==
  /\ composed \in {"live"} \cup Aborts
  /\ fork \in [state : {"live", "pulled"} \cup Aborts, attached : BOOLEAN, detached : BOOLEAN]
  /\ pool \in [owned : SUBSET Dispatchers, live : SUBSET Dispatchers,
               closing : BOOLEAN, failed : SUBSET Dispatchers]

\* A fork that has fired lets no exchange answer and leaves no answer open.
Severed == fork.state # "live" => native # "pending" /\ answer # "open"

\* What is running, and what is held, at each place of send().
Places ==
  /\ sendPc \in {"start", "preparing"} =>
       native = "idle" /\ answer = "none" /\ ~fork.attached /\ fork.state = "live"
  /\ sendPc = "start" => producer = "none"
  /\ sendPc \in {"answered", "dropping", "returning", "delivered"} => native = "answered"
  /\ sendPc \in {"dropping", "rejecting", "rejected"} => native # "pending" /\ answer # "open"
  /\ sendPc \in {"rejecting", "rejected"} => ProducerSettled
  /\ fork.detached => sendPc \in {"delivered", "rejected"}
  /\ sendPc = "delivered" => fork.detached
  /\ sendPc = "rejected" /\ fork.attached => fork.detached

\* The fork fires for what its source fired for, and so does the failure.
Causes ==
  /\ fork.state \in Aborts => composed = fork.state
  /\ failure = "CancellationError" => composed = "cancelled" \/ pool.closing
  /\ failure = "TransportFailureError(timeout)" => composed = "timedOut"

LiveIsOwned == pool.live \subseteq pool.owned

SendInv == SignalTypes /\ Severed /\ Places /\ Causes /\ LiveIsOwned

-----------------------------------------------------------------------------

LEMMA SendStarts == TransportInit => SendInv
  BY TransportAssumption
  DEF TransportAssumption, TransportInit, TransportStarts, SendInv, SignalTypes, Severed, Places, Causes,
      LiveIsOwned, Aborts, Dispatchers

\* Every step keeps these types.
LEMMA TypesKept ==
  ASSUME SignalTypes, [TransportNext]_transportVars
  PROVE  SignalTypes'
<1> USE DEF SignalTypes, Aborts
<1>1. CASE SendAborted \/ HeadersThrow
  BY <1>1 DEF SendAborted, HeadersThrow, Reject
<1>2. CASE PrepareBody \/ BufferingFails
  BY <1>2 DEF PrepareBody, BufferingFails, Reject
<1>3. CASE DispatchNative
  BY <1>3 DEF DispatchNative, Catch
<1>4. CASE DiscardAborted
  BY <1>4 DEF DiscardAborted
<1>5. CASE AdaptThrows \/ Adapt
  BY <1>5 DEF AdaptThrows, Adapt
<1>6. CASE Deliver \/ RejectSend
  BY <1>6 DEF Deliver, RejectSend
<1>7. CASE AbandonPump \/ Dropped
  BY <1>7 DEF AbandonPump, Dropped
<1>8. CASE PullFork
  BY <1>8 DEF PullFork, ForkAbort, SignalFires
<1>9. CASE SourceAborts
  BY <1>9 DEF SourceAborts, SignalFires
<1>10. CASE NativeAnswers
  BY <1>10 DEF NativeAnswers
<1>11. CASE NativeRejects
  BY <1>11 DEF NativeRejects, Catch
<1>12. CASE ProducerFails \/ ProducerUnwinds
  BY <1>12 DEF ProducerFails, ProducerUnwinds, ProducerRejects, Catch
<1>13. CASE ProducerFinishes \/ SourceStalls
  BY <1>13 DEF ProducerFinishes, SourceStalls
<1>14. CASE CallerCloses \/ CloseTransport
  BY <1>14 DEF CallerCloses, CloseTransport
<1>15. CASE DestroyDispatcher
  <2>1. PICK d \in pool.live, fails \in BOOLEAN :
          pool' = [pool EXCEPT !.live = @ \ {d}, !.failed = IF fails THEN @ \cup {d} ELSE @]
    BY <1>15 DEF DestroyDispatcher
  <2>2. pool' \in [owned : SUBSET Dispatchers, live : SUBSET Dispatchers,
                   closing : BOOLEAN, failed : SUBSET Dispatchers]
    <3>1. d \in Dispatchers /\ pool.failed \cup {d} \subseteq Dispatchers
      OBVIOUS
    <3> QED BY <2>1, <3>1
  <2>3. UNCHANGED <<composed, fork>>
    BY <1>15 DEF DestroyDispatcher
  <2> QED BY <2>2, <2>3
<1>16. CASE UNCHANGED transportVars
  BY <1>16 DEF transportVars
<1> QED
  BY <1>1, <1>2, <1>3, <1>4, <1>5, <1>6, <1>7, <1>8,
     <1>9, <1>10, <1>11, <1>12, <1>13, <1>14, <1>15, <1>16
  DEF TransportNext, SendStep, Environment

\* An exchange starts under a live fork, and a fork that fires takes down
\* what is there.
LEMMA SeveredKept ==
  ASSUME SignalTypes, Severed, Places, [TransportNext]_transportVars
  PROVE  Severed'
<1> USE DEF SignalTypes, Aborts, Severed, Places
<1>1. CASE SendAborted \/ HeadersThrow
  BY <1>1 DEF SendAborted, HeadersThrow, Reject
<1>2. CASE PrepareBody \/ BufferingFails
  BY <1>2 DEF PrepareBody, BufferingFails, Reject
<1>3. CASE DispatchNative
  BY <1>3 DEF DispatchNative, Catch
<1>4. CASE DiscardAborted
  BY <1>4 DEF DiscardAborted
<1>5. CASE AdaptThrows \/ Adapt
  BY <1>5 DEF AdaptThrows, Adapt
<1>6. CASE Deliver \/ RejectSend
  BY <1>6 DEF Deliver, RejectSend
<1>7. CASE AbandonPump \/ Dropped
  BY <1>7 DEF AbandonPump, Dropped
<1>8. CASE PullFork
  BY <1>8 DEF PullFork, ForkAbort, SignalFires
<1>9. CASE SourceAborts
  BY <1>9 DEF SourceAborts, SignalFires
<1>10. CASE NativeAnswers
  BY <1>10 DEF NativeAnswers
<1>11. CASE NativeRejects
  BY <1>11 DEF NativeRejects, Catch
<1>12. CASE ProducerFails \/ ProducerUnwinds
  BY <1>12 DEF ProducerFails, ProducerUnwinds, ProducerRejects, Catch
<1>13. CASE ProducerFinishes \/ SourceStalls
  BY <1>13 DEF ProducerFinishes, SourceStalls
<1>14. CASE CallerCloses \/ CloseTransport
  BY <1>14 DEF CallerCloses, CloseTransport
<1>15. CASE DestroyDispatcher
  BY <1>15 DEF DestroyDispatcher, Catch
<1>16. CASE UNCHANGED transportVars
  BY <1>16 DEF transportVars
<1> QED
  BY <1>1, <1>2, <1>3, <1>4, <1>5, <1>6, <1>7, <1>8,
     <1>9, <1>10, <1>11, <1>12, <1>13, <1>14, <1>15, <1>16
  DEF TransportNext, SendStep, Environment

\* Each step of send() finds what its place promises, and no step of the
\* environment takes it away.
LEMMA PlacesKept ==
  ASSUME SignalTypes, Severed, Places, [TransportNext]_transportVars
  PROVE  Places'
<1> USE DEF SignalTypes, Aborts, Severed, Places, ProducerSettled
<1>1. CASE SendAborted \/ HeadersThrow
  BY <1>1 DEF SendAborted, HeadersThrow, Reject
<1>2. CASE PrepareBody \/ BufferingFails
  BY <1>2 DEF PrepareBody, BufferingFails, Reject
<1>3. CASE DispatchNative
  BY <1>3 DEF DispatchNative, Catch
<1>4. CASE DiscardAborted
  BY <1>4 DEF DiscardAborted
<1>5. CASE AdaptThrows \/ Adapt
  BY <1>5 DEF AdaptThrows, Adapt
<1>6. CASE Deliver \/ RejectSend
  BY <1>6 DEF Deliver, RejectSend
<1>7. CASE AbandonPump \/ Dropped
  BY <1>7 DEF AbandonPump, Dropped
<1>8. CASE PullFork
  BY <1>8 DEF PullFork, ForkAbort, SignalFires
<1>9. CASE SourceAborts
  BY <1>9 DEF SourceAborts, SignalFires
<1>10. CASE NativeAnswers
  BY <1>10 DEF NativeAnswers
<1>11. CASE NativeRejects
  BY <1>11 DEF NativeRejects, Catch
<1>12. CASE ProducerFails \/ ProducerUnwinds
  BY <1>12 DEF ProducerFails, ProducerUnwinds, ProducerRejects, Catch
<1>13. CASE ProducerFinishes \/ SourceStalls
  BY <1>13 DEF ProducerFinishes, SourceStalls
<1>14. CASE CallerCloses \/ CloseTransport
  BY <1>14 DEF CallerCloses, CloseTransport
<1>15. CASE DestroyDispatcher
  BY <1>15 DEF DestroyDispatcher, Catch
<1>16. CASE UNCHANGED transportVars
  BY <1>16 DEF transportVars
<1> QED
  BY <1>1, <1>2, <1>3, <1>4, <1>5, <1>6, <1>7, <1>8,
     <1>9, <1>10, <1>11, <1>12, <1>13, <1>14, <1>15, <1>16
  DEF TransportNext, SendStep, Environment

\* A failure is named after a signal that has fired or a close() that began.
LEMMA CausesKept ==
  ASSUME SignalTypes, Places, Causes, [TransportNext]_transportVars
  PROVE  Causes'
<1> USE DEF SignalTypes, Aborts, Causes
<1>1. CASE SendAborted \/ HeadersThrow
  BY <1>1 DEF SendAborted, HeadersThrow, Reject, AbortToSdkError
<1>2. CASE PrepareBody \/ BufferingFails
  BY <1>2 DEF PrepareBody, BufferingFails, Reject
<1>3. CASE DispatchNative
  BY <1>3 DEF DispatchNative, Catch, AbortToSdkError
<1>4. CASE DiscardAborted
  BY <1>4 DEF DiscardAborted, AbortToSdkError
<1>5. CASE AdaptThrows \/ Adapt
  BY <1>5 DEF AdaptThrows, Adapt
<1>6. CASE Deliver \/ RejectSend
  BY <1>6 DEF Deliver, RejectSend
<1>7. CASE AbandonPump \/ Dropped
  BY <1>7 DEF AbandonPump, Dropped
<1>8. CASE PullFork
  BY <1>8 DEF PullFork, ForkAbort, SignalFires
<1>9. CASE SourceAborts
  BY <1>9 DEF SourceAborts, SignalFires
<1>10. CASE NativeAnswers
  BY <1>10 DEF NativeAnswers
<1>11. CASE NativeRejects
  BY <1>11 DEF NativeRejects, Catch, ToDispatchError, ToDispatchFailure, AbortToSdkError,
      Rejections
<1>12. CASE ProducerFails \/ ProducerUnwinds
  BY <1>12 DEF ProducerFails, ProducerUnwinds, ProducerRejects, Catch, AbortToSdkError
<1>13. CASE ProducerFinishes \/ SourceStalls
  BY <1>13 DEF ProducerFinishes, SourceStalls
<1>14. CASE CallerCloses \/ CloseTransport
  BY <1>14 DEF CallerCloses, CloseTransport
<1>15. CASE DestroyDispatcher
  BY <1>15 DEF DestroyDispatcher, Catch, ToDispatchError, ToDispatchFailure,
      AbortToSdkError, Rejections
<1>16. CASE UNCHANGED transportVars
  BY <1>16 DEF transportVars
<1> QED
  BY <1>1, <1>2, <1>3, <1>4, <1>5, <1>6, <1>7, <1>8,
     <1>9, <1>10, <1>11, <1>12, <1>13, <1>14, <1>15, <1>16
  DEF TransportNext, SendStep, Environment

\* Dispatchers only leave the pool.
LEMMA LiveIsOwnedKept ==
  ASSUME SignalTypes, LiveIsOwned, [TransportNext]_transportVars
  PROVE  LiveIsOwned'
<1> USE DEF SignalTypes, LiveIsOwned
<1>1. CASE SendAborted \/ HeadersThrow
  BY <1>1 DEF SendAborted, HeadersThrow, Reject
<1>2. CASE PrepareBody \/ BufferingFails
  BY <1>2 DEF PrepareBody, BufferingFails, Reject
<1>3. CASE DispatchNative
  BY <1>3 DEF DispatchNative, Catch
<1>4. CASE DiscardAborted
  BY <1>4 DEF DiscardAborted
<1>5. CASE AdaptThrows \/ Adapt
  BY <1>5 DEF AdaptThrows, Adapt
<1>6. CASE Deliver \/ RejectSend
  BY <1>6 DEF Deliver, RejectSend
<1>7. CASE AbandonPump \/ Dropped
  BY <1>7 DEF AbandonPump, Dropped
<1>8. CASE PullFork
  BY <1>8 DEF PullFork, ForkAbort, SignalFires
<1>9. CASE SourceAborts
  BY <1>9 DEF SourceAborts, SignalFires
<1>10. CASE NativeAnswers
  BY <1>10 DEF NativeAnswers
<1>11. CASE NativeRejects
  BY <1>11 DEF NativeRejects, Catch
<1>12. CASE ProducerFails \/ ProducerUnwinds
  BY <1>12 DEF ProducerFails, ProducerUnwinds, ProducerRejects, Catch
<1>13. CASE ProducerFinishes \/ SourceStalls
  BY <1>13 DEF ProducerFinishes, SourceStalls
<1>14. CASE CallerCloses \/ CloseTransport
  BY <1>14 DEF CallerCloses, CloseTransport
<1>15. CASE DestroyDispatcher
  BY <1>15 DEF DestroyDispatcher, Catch
<1>16. CASE UNCHANGED transportVars
  BY <1>16 DEF transportVars
<1> QED
  BY <1>1, <1>2, <1>3, <1>4, <1>5, <1>6, <1>7, <1>8,
     <1>9, <1>10, <1>11, <1>12, <1>13, <1>14, <1>15, <1>16
  DEF TransportNext, SendStep, Environment

LEMMA SendStepKeeps == SendInv /\ [TransportNext]_transportVars => SendInv'
  BY TypesKept, SeveredKept, PlacesKept, CausesKept, LiveIsOwnedKept DEF SendInv

LEMMA SendInvariant == TransportSpec => []SendInv
  BY SendStarts, SendStepKeeps, PTL DEF TransportSpec

-----------------------------------------------------------------------------

\* A send() that rejects leaves no exchange, answer, producer or listener
\* behind and names its cause (#dispatch, #exchange, send's finally).
THEOREM RejectionLeavesNothing == TransportSpec => []RejectedSendIsClean
<1>1. SendInv => RejectedSendIsClean
  BY DEF SendInv, Places, Causes, RejectedSendIsClean
<1> QED BY <1>1, SendInvariant, PTL

\* After delivery only the caller, or a dispatcher the transport destroys,
\* ends the body: the fork is detached and the exchange has answered
\* (forkSignal, producerFailure).
THEOREM DeliveredBodyIsTheCallers == TransportSpec => DeliveryIsFinal
<1> DEFINE Final ==
      sendPc = "delivered" =>
        /\ sendPc' = "delivered"
        /\ answer' # answer => answer' = "released" \/ (pool' # pool /\ pool.owned # {})
<1>1. ASSUME SendInv, TransportNext, sendPc = "delivered" PROVE Final
  <2>1. native = "answered" /\ fork.detached
    BY <1>1 DEF SendInv, Places
  <2>2. ~SendStep
    BY <1>1 DEF SendStep, SendAborted, HeadersThrow, PrepareBody, BufferingFails, DispatchNative,
      DiscardAborted, AdaptThrows, Adapt, Deliver, AbandonPump, PullFork, Dropped, RejectSend
  <2>3. CASE SourceAborts \/ CallerCloses \/ CloseTransport
    BY <1>1, <2>1, <2>3 DEF SourceAborts, CallerCloses, CloseTransport
  <2>4. CASE NativeAnswers \/ NativeRejects
    BY <2>1, <2>4 DEF NativeAnswers, NativeRejects
  <2>5. CASE ProducerFails \/ ProducerUnwinds \/ ProducerFinishes \/ SourceStalls
    BY <1>1, <2>5 DEF ProducerFails, ProducerUnwinds, ProducerFinishes, SourceStalls, ProducerRejects
  <2>6. CASE DestroyDispatcher
    <3>1. PICK d \in pool.live : \E fails \in BOOLEAN :
            pool' = [pool EXCEPT !.live = @ \ {d}, !.failed = IF fails THEN @ \cup {d} ELSE @]
      BY <2>6 DEF DestroyDispatcher
    <3>2. d \in pool.owned /\ pool'.live = pool.live \ {d}
      BY <1>1, <3>1 DEF SendInv, LiveIsOwned, SignalTypes
    <3>3. pool' # pool /\ pool.owned # {}
      BY <3>1, <3>2
    <3>4. sendPc' = sendPc
      BY <1>1, <2>1, <2>6 DEF DestroyDispatcher
    <3> QED BY <1>1, <3>3, <3>4
  <2> QED BY <1>1, <2>2, <2>3, <2>4, <2>5, <2>6 DEF TransportNext, Environment
<1>2. SendInv /\ [TransportNext]_transportVars => [Final]_transportVars
  BY <1>1
<1> QED BY <1>2, SendInvariant, PTL DEF TransportSpec, DeliveryIsFinal

-----------------------------------------------------------------------------
(* The builder.  A bucket holds steps of its own stage, a pillar's one at  *)
(* most and SEND's none; that is what BuildsAreDrivable says of an array,  *)
(* stage by stage.  What was built last came from such buckets, so that a  *)
(* builder seeded from it has them again (SeedingRestores).                *)

Of(s) == {d \in Descriptors : d.stage = s}
BucketOK(s, b) ==
  /\ b \in Seq(Of(s))
  /\ s \in PillarStages => Len(b) <= 1
  /\ s = SendStage => b = <<>>
BucketsOK(bs) == bs = [s \in Stages |-> bs[s]] /\ \A s \in Stages : BucketOK(s, bs[s])

BuilderInv ==
  /\ BucketsOK(buckets)
  /\ \E bs : BucketsOK(bs) /\ built = Flatten(bs)

\* The stages, by their places: SEND is the last, and no pillar.
LEMMA StagesAre ==
  /\ Len(StageOrder) \in Nat /\ Len(StageOrder) # 0 /\ DOMAIN StageOrder = 1 .. Len(StageOrder)
  /\ \A i \in 1 .. Len(StageOrder) : StageOrder[i] \in Stages
  /\ \A s \in Stages : \E i \in 1 .. Len(StageOrder) : StageOrder[i] = s
  /\ \A i, j \in 1 .. Len(StageOrder) : StageOrder[i] = StageOrder[j] => i = j
  /\ SendStage = StageOrder[Len(StageOrder)] /\ SendStage \in Stages
  /\ SendStage \notin PillarStages /\ PillarStages \subseteq Stages
<1>1. StageOrder \in Seq(Stages) /\ StageOrder # <<>> /\ IsInjective(StageOrder)
      /\ PillarStages \subseteq Stages \ {SendStage}
  BY BuilderAssumption DEF BuilderAssumption
<1>2. /\ Len(StageOrder) \in Nat /\ Len(StageOrder) # 0 /\ DOMAIN StageOrder = 1 .. Len(StageOrder)
      /\ \A i \in 1 .. Len(StageOrder) : StageOrder[i] \in Stages
  BY <1>1, LenProperties, EmptySeq
<1>3. SendStage = StageOrder[Len(StageOrder)] BY DEF SendStage, Last
<1>4. \A s \in Stages : \E i \in 1 .. Len(StageOrder) : StageOrder[i] = s
  BY <1>2 DEF Stages, ToSet
<1>5. \A i, j \in 1 .. Len(StageOrder) : StageOrder[i] = StageOrder[j] => i = j
  BY <1>1, <1>2 DEF IsInjective
<1>6. SendStage \in Stages BY <1>2, <1>3
<1> QED BY <1>1, <1>2, <1>3, <1>4, <1>5, <1>6

\* Buckets are no throw.
LEMMA NoThrow ==
  ASSUME NEW bs, bs = [s \in Stages |-> bs[s]]
  PROVE  bs # Throws
<1>1. DOMAIN bs = Stages BY Zenon
<1>2. DOMAIN Throws = {} BY DEF Throws
<1>3. Stages # {} BY StagesAre
<1> QED BY <1>1, <1>2, <1>3

\* A bucket is replaced by another that may be there.
LEMMA OneBucket ==
  ASSUME NEW bs, BucketsOK(bs), NEW s \in Stages, NEW b, BucketOK(s, b)
  PROVE  BucketsOK([bs EXCEPT ![s] = b])
<1> DEFINE new == [bs EXCEPT ![s] = b]
<1>1. DOMAIN bs = Stages /\ \A t \in Stages : BucketOK(t, bs[t]) BY DEF BucketsOK
<1>2. new = [t \in Stages |-> IF t = s THEN b ELSE bs[t]] BY <1>1
<1>3. new = [t \in Stages |-> new[t]] BY <1>2
<1>4. \A t \in Stages : new[t] = IF t = s THEN b ELSE bs[t] BY <1>2
<1> HIDE DEF new
<1>5. \A t \in Stages : BucketOK(t, new[t]) BY <1>1, <1>4
<1> QED BY <1>3, <1>5 DEF BucketsOK, new

\* What a slot tells of its bucket.
LEMMA SlotTells ==
  ASSUME NEW bs, BucketsOK(bs), NEW d \in Descriptors, d.stage # SendStage,
         PillarSlot(bs, d) \notin {"collides", "occupied"}
  PROVE  /\ d.stage \in Stages /\ d \in Of(d.stage)
         /\ bs[d.stage] \in Seq(Of(d.stage))
         /\ d.stage \in PillarStages => bs[d.stage] = <<>>
<1>1. d.stage \in Stages BY DEF Descriptors
<1>2. BucketOK(d.stage, bs[d.stage]) BY <1>1 DEF BucketsOK
<1>3. d.stage \in PillarStages => bs[d.stage] = <<>> BY DEF PillarSlot
<1> QED BY <1>1, <1>2, <1>3 DEF BucketOK, Of

\* One step more at either end of its bucket.
LEMMA AddingKeeps ==
  ASSUME NEW bs, BucketsOK(bs), NEW d \in Descriptors
  PROVE  /\ AppendStep(bs, d) # Throws => BucketsOK(AppendStep(bs, d))
         /\ PrependStep(bs, d) # Throws => BucketsOK(PrependStep(bs, d))
<1>1. CASE d.stage = SendStage \/ PillarSlot(bs, d) = "collides"
  BY <1>1 DEF AppendStep, PrependStep
<1>2. CASE d.stage # SendStage /\ PillarSlot(bs, d) = "occupied"
  BY <1>2 DEF AppendStep, PrependStep
<1>3. CASE d.stage # SendStage /\ PillarSlot(bs, d) \notin {"collides", "occupied"}
  <2> DEFINE s == d.stage
             b == bs[s]
             back == Append(b, d)
             front == <<d>> \o b
  <2>1. /\ s \in Stages /\ d \in Of(s) /\ b \in Seq(Of(s))
        /\ s \in PillarStages => b = <<>>
    BY <1>3, SlotTells
  <2>2. /\ back \in Seq(Of(s)) /\ Len(back) = Len(b) + 1 /\ Len(b) \in Nat
        /\ front \in Seq(Of(s)) /\ Len(front) = 1 + Len(b)
    <3>1. <<d>> \in Seq(Of(s)) /\ Len(<<d>>) = 1 BY <2>1
    <3> HIDE DEF s, b
    <3> QED BY <2>1, <3>1, AppendProperties, ConcatProperties, LenProperties
  <2>3. b = <<>> => Len(b) = 0 OBVIOUS
  <2> HIDE DEF s, b, back, front
  <2>4. s # SendStage BY <1>3 DEF s
  <2>5. BucketOK(s, back) /\ BucketOK(s, front)
    BY <2>1, <2>2, <2>3, <2>4 DEF BucketOK
  <2>6. BucketsOK([bs EXCEPT ![s] = back]) /\ BucketsOK([bs EXCEPT ![s] = front])
    BY <2>1, <2>5, OneBucket
  <2>7. /\ AppendStep(bs, d) = [bs EXCEPT ![s] = back]
        /\ PrependStep(bs, d) = [bs EXCEPT ![s] = front]
    BY <1>3 DEF AppendStep, PrependStep, s, b, back, front
  <2> QED BY <2>6, <2>7
<1> QED BY <1>1, <1>2, <1>3

\* An anchor is a step of its bucket.
LEMMA AnchorIs ==
  ASSUME NEW bs, BucketsOK(bs), NEW type, Anchor(bs, type) # <<>>
  PROVE  /\ Anchor(bs, type)[1] \in Stages
         /\ Anchor(bs, type)[2] \in 1 .. Len(bs[Anchor(bs, type)[1]])
<1> DEFINE holding(i) == \E j \in DOMAIN bs[StageOrder[i]] : bs[StageOrder[i]][j].type = type
           first == {i \in DOMAIN StageOrder : holding(i) /\ \A k \in 1 .. i - 1 : ~holding(k)}
           i0 == CHOOSE i \in first : TRUE
           s == StageOrder[i0]
           I == {i \in 1 .. Len(bs[s]) : bs[s][i].type = type}
<1>1. /\ first # {}
      /\ Anchor(bs, type) = <<s, IF I # {} THEN Min(I) ELSE 0>>
  BY DEF Anchor, SelectInSeq
<1>2. i0 \in first BY <1>1
<1>3. s \in Stages BY <1>2, StagesAre
<1>4. bs[s] \in Seq(Of(s)) BY <1>3 DEF BucketsOK, BucketOK
<1>5. DOMAIN bs[s] = 1 .. Len(bs[s]) /\ Len(bs[s]) \in Nat BY <1>4, LenProperties
<1>6. \E j \in DOMAIN bs[s] : bs[s][j].type = type
  <2> HIDE DEF i0, holding
  <2>1. holding(i0) BY <1>2
  <2> QED BY <2>1 DEF holding
<1> HIDE DEF s
<1>7. I # {} /\ I \in SUBSET Nat BY <1>5, <1>6
<1> HIDE DEF I
<1>8. Min(I) \in I BY <1>7, LeastOfNaturals
<1>9. Min(I) \in 1 .. Len(bs[s]) BY <1>8 DEF I
<1> QED BY <1>1, <1>3, <1>7, <1>9

\* A step more before or after an anchor keeps its bucket.
LEMMA InsertingKeeps ==
  ASSUME NEW bs, BucketsOK(bs), NEW d \in Descriptors, NEW type, NEW offset \in {0, 1},
         InsertAtAnchor(bs, type, d, offset) # Throws
  PROVE  BucketsOK(InsertAtAnchor(bs, type, d, offset))
<1>1. AnchorFits(bs, type, d) /\ PillarSlot(bs, d) # "collides"
  BY DEF InsertAtAnchor
<1>2. CASE PillarSlot(bs, d) = "occupied"
  BY <1>1, <1>2 DEF InsertAtAnchor
<1>3. CASE PillarSlot(bs, d) # "occupied"
  <2> DEFINE s == d.stage
             b == bs[s]
             k == Anchor(bs, type)[2] + offset
             new == InsertAt(b, k, d)
  <2>1. d.stage # SendStage /\ Anchor(bs, type) # <<>> /\ Anchor(bs, type)[1] = s
    BY <1>1 DEF AnchorFits
  <2>2. Anchor(bs, type)[2] \in 1 .. Len(b) BY <2>1, AnchorIs
  <2>3. /\ s \in Stages /\ d \in Of(s) /\ b \in Seq(Of(s))
        /\ s \in PillarStages => b = <<>>
    BY <1>1, <1>3, <2>1, SlotTells
  <2>4. s \notin PillarStages
    <3>1. Len(<<>>) = 0 OBVIOUS
    <3>2. b # <<>> BY <2>2, <3>1
    <3> QED BY <2>3, <3>2
  <2>5. new \in Seq(Of(s))
    <3> DEFINE j == k - 1
    <3>1. Len(b) \in Nat BY <2>3, LenProperties
    <3>2. k \in 1 .. Len(b) + 1 /\ j \in 0 .. Len(b) BY <2>2, <3>1
    <3> HIDE DEF s, b, k
    <3>3. SubSeq(b, 1, j) \in Seq(Of(s))
      <4>1. \A i \in 1 .. j : b[i] \in Of(s)
        <5>1. \A i \in 1 .. j : i \in 1 .. Len(b) BY <3>1, <3>2
        <5> QED BY <2>3, <5>1, ElementOfSeq
      <4> QED BY <2>3, <3>1, <3>2, <4>1, SubSeqProperties
    <3>4. SubSeq(b, k, Len(b)) \in Seq(Of(s))
      <4>1. \A i \in k .. Len(b) : b[i] \in Of(s)
        <5>1. \A i \in k .. Len(b) : i \in 1 .. Len(b) BY <3>1, <3>2
        <5> QED BY <2>3, <5>1, ElementOfSeq
      <4> QED BY <2>3, <3>1, <3>2, <4>1, SubSeqProperties
    <3>5. <<d>> \in Seq(Of(s)) BY <2>3
    <3>6. SubSeq(b, 1, j) \o <<d>> \in Seq(Of(s)) BY <3>3, <3>5, ConcatProperties
    <3>7. (SubSeq(b, 1, j) \o <<d>>) \o SubSeq(b, k, Len(b)) \in Seq(Of(s))
      BY <3>4, <3>6, ConcatProperties
    <3> QED BY <3>7 DEF InsertAt
  <2> HIDE DEF new
  <2>6. BucketOK(s, new) BY <2>1, <2>4, <2>5 DEF BucketOK
  <2>7. InsertAtAnchor(bs, type, d, offset) = [bs EXCEPT ![s] = new]
    BY <1>1, <1>3 DEF InsertAtAnchor, new
  <2>8. s \in Stages BY <2>3
  <2> HIDE DEF s
  <2>9. BucketsOK([bs EXCEPT ![s] = new]) BY <2>6, <2>8, OneBucket
  <2> QED BY <2>7, <2>9
<1> QED BY <1>2, <1>3

\* A step in the place of one keeps its bucket.
LEMMA ReplacingKeeps ==
  ASSUME NEW bs, BucketsOK(bs), NEW d \in Descriptors, NEW type,
         ReplaceStep(bs, type, d) # Throws
  PROVE  BucketsOK(ReplaceStep(bs, type, d))
<1> DEFINE s == d.stage
           b == bs[s]
           k == Anchor(bs, type)[2]
           new == ReplaceAt(b, k, d)
<1>1. AnchorFits(bs, type, d) BY DEF ReplaceStep
<1>2. s # SendStage /\ Anchor(bs, type) # <<>> /\ Anchor(bs, type)[1] = s
  BY <1>1 DEF AnchorFits
<1>3. k \in 1 .. Len(b) BY <1>2, AnchorIs
<1>4. s \in Stages /\ d \in Of(s) BY DEF Descriptors, Of
<1>5. b \in Seq(Of(s)) /\ (s \in PillarStages => Len(b) <= 1)
  BY <1>4 DEF BucketsOK, BucketOK
<1>6. ReplaceStep(bs, type, d) = [bs EXCEPT ![s] = new]
  BY <1>1 DEF ReplaceStep
<1> HIDE DEF s, b, k
<1>7. new \in Seq(Of(s)) /\ Len(new) = Len(b)
  BY <1>3, <1>4, <1>5, ExceptSeq DEF ReplaceAt
<1> HIDE DEF new
<1>8. BucketOK(s, new) BY <1>2, <1>5, <1>7 DEF BucketOK
<1>9. BucketsOK([bs EXCEPT ![s] = new]) BY <1>4, <1>8, OneBucket
<1> QED BY <1>6, <1>9

-----------------------------------------------------------------------------
(* The steps at some positions: of the positions' steps, and one at most   *)
(* when there is one position at most.                                     *)

\* Pieces of one step at most, one of them at most not empty.
Sparse(ss) ==
  /\ \A i \in 1 .. Len(ss) : ss[i] # <<>> => Len(ss[i]) = 1
  /\ \A i, j \in 1 .. Len(ss) : ss[i] # <<>> /\ ss[j] # <<>> => i = j
Barren(ss) == \A i \in 1 .. Len(ss) : ss[i] = <<>>

\* Sparse pieces make one step at most, barren ones none.
LEMMA SparseFlatten ==
  ASSUME NEW E
  PROVE  \A ss \in Seq(Seq(E)) :
           /\ Barren(ss) => FlattenSeq(ss) = <<>>
           /\ Sparse(ss) => Len(FlattenSeq(ss)) <= 1
<1> DEFINE S == {ss \in Seq(Seq(E)) : /\ Barren(ss) => FlattenSeq(ss) = <<>>
                                      /\ Sparse(ss) => Len(FlattenSeq(ss)) <= 1}
<1>1. <<>> \in S
  <2>1. <<>> \in Seq(Seq(E)) /\ Len(<<>>) = 0 BY EmptySeq
  <2> QED BY <2>1, FlattenEmpty
<1>2. \A ss \in Seq(Seq(E)), t \in Seq(E) : ss \in S => Append(ss, t) \in S
  <2> SUFFICES ASSUME NEW ss \in Seq(Seq(E)), NEW t \in Seq(E), ss \in S
               PROVE  Append(ss, t) \in S
    OBVIOUS
  <2> DEFINE tt == Append(ss, t)
             n == Len(ss)
  <2>1. /\ tt \in Seq(Seq(E)) /\ Len(tt) = n + 1 /\ n \in Nat
        /\ \A i \in 1 .. n : tt[i] = ss[i]
        /\ tt[n + 1] = t
    BY AppendProperties, LenProperties
  <2>2. FlattenSeq(tt) = FlattenSeq(ss) \o t /\ FlattenSeq(ss) \in Seq(E)
    BY FlattenAppend, FlattenType
  <2>3. FlattenSeq(ss) \o <<>> = FlattenSeq(ss) /\ <<>> \o t = t
    BY <2>2, ConcatEmptySeq
  <2>0. /\ Barren(ss) => FlattenSeq(ss) = <<>>
        /\ Sparse(ss) => Len(FlattenSeq(ss)) <= 1
    OBVIOUS
  <2> HIDE DEF tt, n, S
  <2>4. \A i \in 1 .. n : i \in 1 .. n + 1 /\ i # n + 1 /\ ss[i] = tt[i] BY <2>1
  <2>5. n + 1 \in 1 .. n + 1 /\ tt[n + 1] = t BY <2>1
  <2>6. ASSUME Barren(tt) PROVE FlattenSeq(tt) = <<>>
    <3>1. \A i \in 1 .. n + 1 : tt[i] = <<>> BY <2>1, <2>6 DEF Barren
    <3>2. t = <<>> BY <2>5, <3>1
    <3>3. \A i \in 1 .. n : ss[i] = <<>> BY <2>4, <3>1
    <3>4. Barren(ss) BY <3>3 DEF Barren, n
    <3> QED BY <2>0, <2>2, <2>3, <3>2, <3>4
  <2>7. ASSUME Sparse(tt) PROVE Len(FlattenSeq(tt)) <= 1
    <3>0. /\ \A i \in 1 .. n + 1 : tt[i] # <<>> => Len(tt[i]) = 1
          /\ \A i, j \in 1 .. n + 1 : tt[i] # <<>> /\ tt[j] # <<>> => i = j
      BY <2>1, <2>7 DEF Sparse
    <3>1. CASE t = <<>>
      <4>1. \A i \in 1 .. n : ss[i] # <<>> => Len(ss[i]) = 1
        BY <2>4, <3>0
      <4>2. \A i, j \in 1 .. n : ss[i] # <<>> /\ ss[j] # <<>> => i = j
        BY <2>4, <3>0
      <4>3. Sparse(ss) BY <4>1, <4>2 DEF Sparse, n
      <4> QED BY <2>0, <2>2, <2>3, <3>1, <4>3
    <3>2. CASE t # <<>>
      <4>1. Len(t) = 1 BY <2>5, <3>0, <3>2
      <4>2. \A i \in 1 .. n : ss[i] = <<>> BY <2>4, <2>5, <3>0, <3>2
      <4>3. Barren(ss) BY <4>2 DEF Barren, n
      <4>4. FlattenSeq(ss) = <<>> BY <2>0, <4>3
      <4>5. FlattenSeq(tt) = t BY <2>2, <2>3, <4>4
      <4>6. Len(FlattenSeq(tt)) = 1 BY <4>1, <4>5, Zenon
      <4> QED BY <4>6
    <3> QED BY <3>1, <3>2
  <2> QED BY <2>1, <2>6, <2>7 DEF S, tt
<1>3. Seq(Seq(E)) \subseteq S
  <2> HIDE DEF S
  <2> QED BY <1>1, <1>2, SequenceInduction
<1> QED BY <1>3

LEMMA ThoseAre ==
  ASSUME NEW E, NEW ds, Len(ds) \in Nat, NEW positions,
         \A i \in 1 .. Len(ds) : i \in positions => ds[i] \in E
  PROVE  /\ Those(ds, positions) \in Seq(E)
         /\ (\A i, j \in 1 .. Len(ds) : i \in positions /\ j \in positions => i = j) =>
              Len(Those(ds, positions)) <= 1
         /\ (\A i \in 1 .. Len(ds) : i \notin positions) => Those(ds, positions) = <<>>
<1> DEFINE n == Len(ds)
           piece(i) == IF i \in positions THEN <<ds[i]>> ELSE <<>>
           ss == [i \in 1 .. n |-> piece(i)]
<1>1. \A i \in 1 .. n : piece(i) \in Seq(E) /\ (i \notin positions <=> piece(i) = <<>>)
                        /\ (i \in positions => Len(piece(i)) = 1)
  <2> TAKE i \in 1 .. n
  <2>1. CASE i \in positions
    <3>1. ds[i] \in E BY <2>1
    <3>2. <<ds[i]>> \in Seq(E) /\ <<ds[i]>> # <<>> /\ Len(<<ds[i]>>) = 1 BY <3>1
    <3> QED BY <2>1, <3>2
  <2>2. CASE i \notin positions BY <2>2, EmptySeq
  <2> QED BY <2>1, <2>2
<1> HIDE DEF piece
<1>2. n \in Nat OBVIOUS
<1> HIDE DEF n
<1>3. /\ ss \in Seq(Seq(E)) /\ Len(ss) = n /\ \A i \in 1 .. n : ss[i] = piece(i)
  BY <1>1, <1>2
<1>4. Those(ds, positions) = FlattenSeq(ss) BY DEF Those, n, piece
<1> HIDE DEF ss
<1>5. (\A i, j \in 1 .. n : i \in positions /\ j \in positions => i = j) => Sparse(ss)
  BY <1>1, <1>3 DEF Sparse
<1>6. (\A i \in 1 .. n : i \notin positions) => Barren(ss)
  BY <1>1, <1>3 DEF Barren
<1>7. FlattenSeq(ss) \in Seq(E) BY <1>3, FlattenType
<1>8. /\ Barren(ss) => FlattenSeq(ss) = <<>>
      /\ Sparse(ss) => Len(FlattenSeq(ss)) <= 1
  BY <1>3, SparseFlatten
<1> QED BY <1>4, <1>5, <1>6, <1>7, <1>8 DEF n

\* Fewer steps of a type, and a whole list in the place of all buckets.
LEMMA RemovingKeeps ==
  ASSUME NEW bs, BucketsOK(bs), NEW type
  PROVE  BucketsOK(RemoveType(bs, type))
<1> DEFINE new(s) == Those(bs[s], {i \in DOMAIN bs[s] : bs[s][i].type # type})
<1>1. RemoveType(bs, type) = [s \in Stages |-> new(s)] BY DEF RemoveType
<1>2. ASSUME NEW s \in Stages PROVE BucketOK(s, new(s))
  <2> DEFINE b == bs[s]
             P == {i \in DOMAIN b : b[i].type # type}
  <2>1. /\ b \in Seq(Of(s))
        /\ s \in PillarStages => Len(b) <= 1
        /\ s = SendStage => b = <<>>
    BY DEF BucketsOK, BucketOK
  <2>2. Len(b) \in Nat /\ \A i \in 1 .. Len(b) : b[i] \in Of(s)
    BY <2>1, LenProperties, ElementOfSeq
  <2>3. new(s) = Those(b, P) OBVIOUS
  <2> HIDE DEF b, P, new
  <2>4. /\ Those(b, P) \in Seq(Of(s))
        /\ (\A i, j \in 1 .. Len(b) : i \in P /\ j \in P => i = j) => Len(Those(b, P)) <= 1
        /\ (\A i \in 1 .. Len(b) : i \notin P) => Those(b, P) = <<>>
    BY <2>2, ThoseAre
  <2>5. Len(b) <= 1 => \A i, j \in 1 .. Len(b) : i = j BY <2>2
  <2>6. b = <<>> => \A i \in 1 .. Len(b) : i \notin P
    <3>1. Len(<<>>) = 0 OBVIOUS
    <3> QED BY <3>1
  <2> QED BY <2>1, <2>3, <2>4, <2>5, <2>6 DEF BucketOK
<1> HIDE DEF new
<1> QED BY <1>1, <1>2 DEF BucketsOK

LEMMA ReloadingKeeps ==
  ASSUME NEW ds \in Seq(Descriptors), Reload(ds) # Throws
  PROVE  BucketsOK(Reload(ds))
<1> DEFINE pillar(i) == ds[i].stage \in PillarStages
           sameSlot(i, j) == pillar(i) /\ ds[i].stage = ds[j].stage
           admitted(i) == \A j \in 1 .. i - 1 : ~sameSlot(i, j)
           P(s) == {i \in DOMAIN ds : ds[i].stage = s /\ admitted(i)}
<1>1. /\ \A i \in DOMAIN ds : ds[i].stage # SendStage
      /\ Reload(ds) = [s \in Stages |-> Those(ds, P(s))]
  BY DEF Reload
<1>2. Len(ds) \in Nat /\ DOMAIN ds = 1 .. Len(ds) /\ \A i \in 1 .. Len(ds) : ds[i] \in Descriptors
  BY LenProperties, ElementOfSeq
<1>3. ASSUME NEW s \in Stages PROVE BucketOK(s, Those(ds, P(s)))
  <2>1. \A i \in 1 .. Len(ds) : i \in P(s) => ds[i] \in Of(s)
    BY <1>2 DEF Of
  <2>2. s \in PillarStages => \A i, j \in 1 .. Len(ds) : i \in P(s) /\ j \in P(s) => i = j
    <3> SUFFICES ASSUME s \in PillarStages, NEW i \in 1 .. Len(ds), NEW j \in 1 .. Len(ds),
                        i \in P(s), j \in P(s), i < j
                 PROVE  FALSE
      BY <1>2
    <3>1. i \in 1 .. j - 1 BY <1>2
    <3>2. sameSlot(j, i) OBVIOUS
    <3> QED BY <3>1, <3>2
  <2>3. s = SendStage => \A i \in 1 .. Len(ds) : i \notin P(s) BY <1>1, <1>2
  <2> HIDE DEF P
  <2>4. /\ Those(ds, P(s)) \in Seq(Of(s))
        /\ (\A i, j \in 1 .. Len(ds) : i \in P(s) /\ j \in P(s) => i = j) =>
             Len(Those(ds, P(s))) <= 1
        /\ (\A i \in 1 .. Len(ds) : i \notin P(s)) => Those(ds, P(s)) = <<>>
    BY <1>2, <2>1, ThoseAre
  <2> QED BY <2>2, <2>3, <2>4 DEF BucketOK
<1> HIDE DEF P
<1> QED BY <1>1, <1>3 DEF BucketsOK

-----------------------------------------------------------------------------
(* Seeding.  SeedFrom appends step after step, stage after stage.          *)

Fresh == [s \in Stages |-> <<>>]

\* The fold that SeedFrom is, over the sets of indices up to n.
Seeds(iter, steps, n) ==
  iter = [S \in SUBSET (1 .. n) |->
            IF S = {} THEN Fresh ELSE AppendStep(iter[S \ {Max(S)}], steps[Max(S)])]

\* The fold over the first k steps adds the last of them.
LEMMA SeedsAt ==
  ASSUME NEW iter, NEW steps, NEW n \in Nat, Seeds(iter, steps, n), NEW k \in 1 .. n
  PROVE  iter[1 .. k] = AppendStep(iter[1 .. (k - 1)], steps[k]) /\ iter[{}] = Fresh
<1> DEFINE h == [S \in SUBSET (1 .. n) |->
                   IF S = {} THEN Fresh ELSE AppendStep(iter[S \ {Max(S)}], steps[Max(S)])]
<1>1. iter = h
  BY DEF Seeds
<1>2. /\ 1 .. k \in SUBSET (1 .. n) /\ 1 .. k # {} /\ Max(1 .. k) = k
      /\ (1 .. k) \ {k} = 1 .. (k - 1)
  <2>1. k \in Nat /\ k # 0 /\ k \in 1 .. k OBVIOUS
  <2>2. Max(1 .. k) = k BY <2>1, MaxOfInterval
  <2>3. (1 .. k) \ {k} = 1 .. (k - 1) OBVIOUS
  <2> QED BY <2>1, <2>2, <2>3
<1>3. h[1 .. k] = AppendStep(iter[(1 .. k) \ {Max(1 .. k)}], steps[Max(1 .. k)])
  BY <1>2
<1>4. h[{}] = Fresh OBVIOUS
<1> HIDE DEF h
<1> QED BY <1>1, <1>2, <1>3, <1>4

\* There is such a fold for every number of steps.
LEMMA SeedsExist ==
  ASSUME NEW steps
  PROVE  \A n \in Nat : \E iter : Seeds(iter, steps, n)
<1> DEFINE N == {n \in Nat : \E iter : Seeds(iter, steps, n)}
<1>1. 0 \in N
  <2>1. \A S \in SUBSET (1 .. 0) : S = {} OBVIOUS
  <2>2. Seeds([S \in SUBSET (1 .. 0) |-> Fresh], steps, 0)
    BY <2>1 DEF Seeds
  <2> QED BY <2>2
<1>2. ASSUME NEW n \in Nat, n \in N PROVE n + 1 \in N
  <2>1. PICK iter : Seeds(iter, steps, n) BY <1>2
  <2> DEFINE g == [S \in SUBSET (1 .. n + 1) |->
                     IF n + 1 \in S THEN AppendStep(iter[S \ {n + 1}], steps[n + 1]) ELSE iter[S]]
             h == [S \in SUBSET (1 .. n + 1) |->
                     IF S = {} THEN Fresh ELSE AppendStep(g[S \ {Max(S)}], steps[Max(S)])]
             i == [S \in SUBSET (1 .. n) |->
                     IF S = {} THEN Fresh ELSE AppendStep(iter[S \ {Max(S)}], steps[Max(S)])]
  <2>2. iter = i BY <2>1 DEF Seeds
  <2>3. ASSUME NEW S \in SUBSET (1 .. n + 1) PROVE g[S] = h[S]
    <3>1. CASE n + 1 \in S
      <4>1. Max(S) = n + 1
        <5> DEFINE m == n + 1
        <5>2. m \in Nat /\ S \in SUBSET (1 .. m) /\ S # {} /\ m \in S BY <3>1
        <5> HIDE DEF m
        <5>3. Max(S) \in S /\ m <= Max(S) BY <5>2, MaxOf
        <5>1. Max(S) \in 1 .. n + 1 /\ n + 1 <= Max(S) BY <5>2, <5>3 DEF m
        <5> QED BY <5>1
      <4>2. S \ {n + 1} \in SUBSET (1 .. n + 1) /\ n + 1 \notin S \ {n + 1} OBVIOUS
      <4>3. g[S \ {n + 1}] = iter[S \ {n + 1}] BY <4>2
      <4>4. g[S] = AppendStep(iter[S \ {n + 1}], steps[n + 1]) BY <3>1
      <4>5. h[S] = AppendStep(g[S \ {n + 1}], steps[n + 1])
        <5> HIDE DEF g
        <5> QED BY <3>1, <4>1
      <4> QED BY <4>3, <4>4, <4>5
    <3>2. CASE n + 1 \notin S
      <4>1. S \in SUBSET (1 .. n)
        <5>1. \A x \in S : x \in 1 .. n + 1 /\ x # n + 1 BY <3>2
        <5>2. \A x \in S : x \in 1 .. n BY <5>1
        <5> QED BY <5>2
      <4>2. CASE S = {}
        <5>1. g[S] = iter[S] BY <3>2
        <5>2. i[S] = Fresh BY <4>1, <4>2
        <5>3. h[S] = Fresh BY <4>2
        <5> HIDE DEF g, h, i
        <5> QED BY <2>2, <5>1, <5>2, <5>3
      <4>3. CASE S # {}
        <5>1. g[S] = iter[S] BY <3>2
        <5>2. i[S] = AppendStep(iter[S \ {Max(S)}], steps[Max(S)]) BY <4>1, <4>3
        <5>3. S \ {Max(S)} \in SUBSET (1 .. n + 1) /\ n + 1 \notin S \ {Max(S)} BY <3>2
        <5>4. g[S \ {Max(S)}] = iter[S \ {Max(S)}] BY <5>3
        <5>5. h[S] = AppendStep(g[S \ {Max(S)}], steps[Max(S)])
          <6> HIDE DEF g
          <6> QED BY <4>3
        <5> HIDE DEF g, h, i
        <5> QED BY <2>2, <5>1, <5>2, <5>4, <5>5
      <4> QED BY <4>2, <4>3
    <3> QED BY <3>1, <3>2
  <2>4. g = h
    <3>1. DOMAIN g = DOMAIN h /\ g = [S \in DOMAIN g |-> g[S]] /\ h = [S \in DOMAIN h |-> h[S]]
          /\ DOMAIN g = SUBSET (1 .. n + 1)
      OBVIOUS
    <3> HIDE DEF g, h
    <3> QED BY <2>3, <3>1
  <2>5. Seeds(g, steps, n + 1)
    <3> HIDE DEF g
    <3> QED BY <2>4 DEF Seeds
  <2> QED BY <2>5
<1>3. Nat \subseteq N
  <2> HIDE DEF N
  <2> QED BY <1>1, <1>2, SetInduction
<1> QED BY <1>3

\* Folds of lists that agree on their first steps agree there.
LEMMA SeedsAgree ==
  ASSUME NEW s, NEW t, NEW m \in Nat, NEW n \in Nat, m <= n, SameUpTo(s, t, m),
         NEW f, NEW g, Seeds(f, s, m), Seeds(g, t, n)
  PROVE  f[1 .. m] = g[1 .. m]
<1> DEFINE S == {k \in Nat : k <= m => f[1 .. k] = g[1 .. k]}
<1>1. 0 \in S
  <2>1. f[{}] = Fresh /\ g[{}] = Fresh
    BY DEF Seeds
  <2>2. 1 .. 0 = {} OBVIOUS
  <2> QED BY <2>1, <2>2
<1>2. ASSUME NEW k \in Nat, k \in S PROVE k + 1 \in S
  <2> SUFFICES ASSUME k + 1 <= m PROVE f[1 .. k + 1] = g[1 .. k + 1] OBVIOUS
  <2>1. f[1 .. k] = g[1 .. k] BY <1>2
  <2>2. k + 1 \in 1 .. m /\ k + 1 \in 1 .. n /\ k + 1 - 1 = k
    OBVIOUS
  <2>3. f[1 .. k + 1] = AppendStep(f[1 .. (k + 1 - 1)], s[k + 1]) BY <2>2, SeedsAt
  <2>4. g[1 .. k + 1] = AppendStep(g[1 .. (k + 1 - 1)], t[k + 1]) BY <2>2, SeedsAt
  <2>5. s[k + 1] = t[k + 1] BY <2>2 DEF SameUpTo
  <2> QED BY <2>1, <2>2, <2>3, <2>4, <2>5
<1>3. Nat \subseteq S
  <2> HIDE DEF S
  <2> QED BY <1>1, <1>2, SetInduction
<1> QED BY <1>3

\* SeedFrom is the last value of its fold.
LEMMA SeedUnrolls ==
  ASSUME NEW s, NEW n \in Nat, DOMAIN s = 1 .. n
  PROVE  \E iter : Seeds(iter, s, n) /\ SeedFrom(s) = iter[1 .. n]
<1>1. \E iter : Seeds(iter, s, n) BY SeedsExist
<1> QED BY <1>1 DEF SeedFrom, Fresh, Seeds, FoldLeft, MapThenFoldSet

\* From no steps comes an empty builder.
LEMMA SeedEmpty ==
  ASSUME NEW s, DOMAIN s = {}
  PROVE  SeedFrom(s) = Fresh
<1>1. DOMAIN s = 1 .. 0 OBVIOUS
<1>2. PICK f : Seeds(f, s, 0) /\ SeedFrom(s) = f[1 .. 0] BY <1>1, SeedUnrolls
<1>3. 1 .. 0 = {} OBVIOUS
<1>4. f[{}] = Fresh BY <1>2 DEF Seeds
<1> QED BY <1>2, <1>3, <1>4

\* One step more is one append more.
LEMMA SeedStep ==
  ASSUME NEW s, NEW t, NEW n \in Nat, DOMAIN s = 1 .. n, DOMAIN t = 1 .. n + 1,
         \A i \in 1 .. n : s[i] = t[i]
  PROVE  SeedFrom(t) = AppendStep(SeedFrom(s), t[n + 1])
<1>1. PICK f : Seeds(f, s, n) /\ SeedFrom(s) = f[1 .. n] BY SeedUnrolls
<1>2. n + 1 \in Nat /\ n <= n + 1 /\ n + 1 \in 1 .. n + 1 /\ n + 1 - 1 = n OBVIOUS
<1>3. PICK g : Seeds(g, t, n + 1) /\ SeedFrom(t) = g[1 .. n + 1] BY <1>2, SeedUnrolls
<1>4. f[1 .. n] = g[1 .. n]
  <2> DEFINE k == n + 1
  <2>1. k \in Nat /\ n <= k /\ Seeds(g, t, k) BY <1>3
  <2>2. SameUpTo(s, t, n) BY DEF SameUpTo
  <2> HIDE DEF k
  <2> QED BY ONLY n \in Nat, <1>1, <2>1, <2>2, SeedsAgree
<1>5. g[1 .. n + 1] = AppendStep(g[1 .. (n + 1 - 1)], t[n + 1]) BY <1>2, <1>3, SeedsAt
<1> QED BY <1>1, <1>2, <1>3, <1>4, <1>5

\* The same for Append.
LEMMA SeedAppend ==
  ASSUME NEW ds \in Seq(Descriptors), NEW d \in Descriptors
  PROVE  SeedFrom(Append(ds, d)) = AppendStep(SeedFrom(ds), d)
<1> DEFINE n == Len(ds)
           t == Append(ds, d)
           m == n + 1
<1>1. /\ n \in Nat /\ DOMAIN ds = 1 .. n /\ t \in Seq(Descriptors) /\ Len(t) = m
      /\ \A i \in 1 .. n : t[i] = ds[i]
      /\ t[m] = d
  BY AppendProperties, LenProperties
<1>2. DOMAIN t = 1 .. n + 1 BY <1>1, LenProperties
<1>3. \A i \in 1 .. n : ds[i] = t[i] BY <1>1
<1> HIDE DEF n, t
<1>4. SeedFrom(t) = AppendStep(SeedFrom(ds), t[n + 1]) BY <1>1, <1>2, <1>3, SeedStep
<1> QED BY <1>1, <1>4 DEF t

\* A bucket appended to an empty one of its stage fills it.
LEMMA SeedBucket ==
  ASSUME NEW ds \in Seq(Descriptors), NEW c, SeedFrom(ds) = c, DOMAIN c = Stages,
         c = [t \in Stages |-> c[t]],
         NEW s \in Stages, s # SendStage, c[s] = <<>>
  PROVE  \A b \in Seq(Of(s)) : (s \in PillarStages => Len(b) <= 1) =>
           SeedFrom(ds \o b) = [c EXCEPT ![s] = b]
<1> DEFINE Fills(b) == SeedFrom(ds \o b) = [c EXCEPT ![s] = b]
           S == {b \in Seq(Of(s)) : (s \in PillarStages => Len(b) <= 1) => Fills(b)}
<1>1. <<>> \in S
  <2>1. ds \o <<>> = ds BY ConcatEmptySeq
  <2>2. [c EXCEPT ![s] = <<>>] = c OBVIOUS
  <2>3. <<>> \in Seq(Of(s)) BY EmptySeq
  <2> QED BY <2>1, <2>2, <2>3
<1>2. \A b \in Seq(Of(s)), d \in Of(s) : b \in S => Append(b, d) \in S
  <2> SUFFICES ASSUME NEW b \in Seq(Of(s)), NEW d \in Of(s), b \in S,
                      s \in PillarStages => Len(Append(b, d)) <= 1
               PROVE  Append(b, d) \in Seq(Of(s)) /\ Fills(Append(b, d))
    OBVIOUS
  <2>1. Append(b, d) \in Seq(Of(s)) /\ Len(Append(b, d)) = Len(b) + 1 /\ Len(b) \in Nat
    BY AppendProperties, LenProperties
  <2>2. s \in PillarStages => b = <<>>
    <3>1. s \in PillarStages => Len(b) = 0 BY <2>1
    <3> QED BY <3>1, EmptySeq
  <2>3. SeedFrom(ds \o b) = [c EXCEPT ![s] = b]
    <3>1. s \in PillarStages => Len(b) <= 1 BY <2>1
    <3> QED BY <3>1
  <2>4. d \in Descriptors /\ d.stage = s BY DEF Of
  <2>5. b \in Seq(Descriptors)
    <3>1. Of(s) \subseteq Descriptors BY DEF Of
    <3> QED BY <3>1
  <2>6. ds \o b \in Seq(Descriptors) BY <2>5, ConcatProperties
  <2>7. ds \o Append(b, d) = Append(ds \o b, d)
    <3>1. <<d>> \in Seq(Descriptors) BY <2>4
    <3>2. Append(b, d) = b \o <<d>> BY <2>4, <2>5, AppendIsConcat
    <3>3. Append(ds \o b, d) = (ds \o b) \o <<d>> BY <2>4, <2>6, AppendIsConcat
    <3> QED BY <2>5, <3>1, <3>2, <3>3, ConcatAssociative
  <2>8. SeedFrom(ds \o Append(b, d)) = AppendStep([c EXCEPT ![s] = b], d)
    BY <2>3, <2>4, <2>6, <2>7, SeedAppend
  <2>9. AppendStep([c EXCEPT ![s] = b], d) = [c EXCEPT ![s] = Append(b, d)]
    <3> DEFINE e == [c EXCEPT ![s] = b]
    <3>1. e[s] = b OBVIOUS
    <3>2. PillarSlot(e, d) = "ok"
      <4> HIDE DEF e
      <4> QED BY <2>2, <2>4, <3>1 DEF PillarSlot
    <3>3. AppendStep(e, d) = [e EXCEPT ![s] = Append(e[s], d)]
      <4> HIDE DEF e
      <4> QED BY <2>4, <3>2 DEF AppendStep
    <3>4. [e EXCEPT ![s] = Append(b, d)] = [c EXCEPT ![s] = Append(b, d)] OBVIOUS
    <3> HIDE DEF e
    <3> QED BY <3>1, <3>3, <3>4 DEF e
  <2> QED BY <2>1, <2>8, <2>9
<1>3. Seq(Of(s)) \subseteq S
  <2> HIDE DEF S
  <2> QED BY <1>1, <1>2, SequenceInduction
<1> QED BY <1>3

\* The steps of the first n stages, and the buckets that hold them.
FirstSteps(bs, n) == FlattenSeq([i \in 1 .. n |-> bs[StageOrder[i]]])
FirstBuckets(bs, n) ==
  [s \in Stages |-> IF \E i \in 1 .. n : StageOrder[i] = s THEN bs[s] ELSE <<>>]

\* One stage more adds its steps.
LEMMA FirstStepsGrow ==
  ASSUME NEW bs, BucketsOK(bs), NEW n \in Nat, n + 1 <= Len(StageOrder)
  PROVE  /\ FirstSteps(bs, 0) = <<>>
         /\ FirstSteps(bs, n + 1) = FirstSteps(bs, n) \o bs[StageOrder[n + 1]]
         /\ bs[StageOrder[n + 1]] \in Seq(Descriptors)
<1> DEFINE ss == [i \in 1 .. n |-> bs[StageOrder[i]]]
           tt == [i \in 1 .. n + 1 |-> bs[StageOrder[i]]]
           m == n + 1
           b == bs[StageOrder[m]]
<1>1. m \in 1 .. Len(StageOrder) BY StagesAre
<1>2. b \in Seq(Descriptors)
  <2>1. StageOrder[m] \in Stages BY <1>1, StagesAre
  <2>2. b \in Seq(Of(StageOrder[m])) BY <2>1 DEF BucketsOK, BucketOK
  <2>3. Of(StageOrder[m]) \subseteq Descriptors BY DEF Of
  <2> HIDE DEF b, m
  <2> QED BY <2>2, <2>3
<1>3. FirstSteps(bs, 0) = <<>>
  <2>1. [i \in 1 .. 0 |-> bs[StageOrder[i]]] = <<>> OBVIOUS
  <2> QED BY <2>1, FlattenEmpty DEF FirstSteps
<1>4. /\ Len(ss) = n /\ Len(tt) = n + 1 /\ \A i \in 1 .. n : ss[i] = tt[i]
      /\ tt[n + 1] = b
  OBVIOUS
<1>5. FlattenSeq(tt) = FlattenSeq(ss) \o b
  <2>1. CASE n = 0
    <3>1. ss = <<>> BY <2>1
    <3>2. Len(tt) = 1 /\ tt[1] = b BY <1>4, <2>1
    <3> HIDE DEF ss, tt, b
    <3>3. FlattenSeq(tt) = b BY <3>2, FlattenSingle
    <3> QED BY <1>2, <3>1, <3>3, FlattenEmpty, ConcatEmptySeq
  <2>2. CASE n # 0
    <3> HIDE DEF ss, tt, b
    <3> QED BY <1>4, <2>2, FlattenStep
  <2> QED BY <2>1, <2>2
<1> QED BY <1>2, <1>3, <1>5 DEF FirstSteps

\* Seeding restores the buckets of the first n stages.
LEMMA SeedStages ==
  ASSUME NEW bs, BucketsOK(bs)
  PROVE  \A n \in Nat : n + 1 <= Len(StageOrder) =>
           /\ FirstSteps(bs, n) \in Seq(Descriptors)
           /\ SeedFrom(FirstSteps(bs, n)) = FirstBuckets(bs, n)
<1> DEFINE Good(n) == /\ FirstSteps(bs, n) \in Seq(Descriptors)
                      /\ SeedFrom(FirstSteps(bs, n)) = FirstBuckets(bs, n)
           S == {n \in Nat : n + 1 <= Len(StageOrder) => Good(n)}
<1>1. 0 \in S
  <2>1. 1 <= Len(StageOrder) BY StagesAre
  <2>2. FirstSteps(bs, 0) = <<>>
    <3>1. 0 \in Nat /\ 0 + 1 <= Len(StageOrder) BY <2>1
    <3> QED BY <3>1, FirstStepsGrow
  <2>3. SeedFrom(<<>>) = Fresh
    <3>1. DOMAIN <<>> = {} OBVIOUS
    <3> QED BY <3>1, SeedEmpty
  <2>4. FirstBuckets(bs, 0) = Fresh BY DEF FirstBuckets, Fresh
  <2>5. <<>> \in Seq(Descriptors) BY EmptySeq
  <2> QED BY <2>2, <2>3, <2>4, <2>5
<1>2. ASSUME NEW n \in Nat, n \in S PROVE n + 1 \in S
  <2> SUFFICES ASSUME n + 1 + 1 <= Len(StageOrder) PROVE Good(n + 1)
    OBVIOUS
  <2> DEFINE m == n + 1
             s == StageOrder[m]
             c == FirstBuckets(bs, n)
             d == FirstBuckets(bs, m)
  <2>1. /\ n + 1 <= Len(StageOrder) /\ m \in 1 .. Len(StageOrder) /\ m # Len(StageOrder)
        /\ \A i \in 1 .. n : i \in 1 .. Len(StageOrder) /\ i # m
        /\ \A i \in 1 .. m : i \in 1 .. n \/ i = m
        /\ \A i \in 1 .. n : i \in 1 .. m
        /\ m \in 1 .. m
    <3>1. Len(StageOrder) \in Nat BY StagesAre
    <3> QED BY <3>1
  <2>2. Good(n) BY <1>2, <2>1
  <2>3. s \in Stages /\ s # SendStage /\ \A i \in 1 .. n : StageOrder[i] # s
    <3>1. Len(StageOrder) \in 1 .. Len(StageOrder) BY StagesAre
    <3> QED BY <2>1, <3>1, StagesAre
  <2>4. /\ FirstSteps(bs, m) = FirstSteps(bs, n) \o bs[s] /\ bs[s] \in Seq(Descriptors)
    BY <2>1, FirstStepsGrow
  <2>5. /\ DOMAIN c = Stages /\ c = [t \in Stages |-> c[t]] /\ c[s] = <<>>
        /\ d = [c EXCEPT ![s] = bs[s]]
    <3>1. \A t \in Stages : (\E i \in 1 .. m : StageOrder[i] = t) <=>
                              (\E i \in 1 .. n : StageOrder[i] = t) \/ t = s
      BY <2>1
    <3> HIDE DEF m, s
    <3> QED BY <2>3, <3>1 DEF FirstBuckets
  <2>6. bs[s] \in Seq(Of(s)) /\ (s \in PillarStages => Len(bs[s]) <= 1)
    BY <2>3 DEF BucketsOK, BucketOK
  <2> HIDE DEF c, d, s, m
  <2>7. SeedFrom(FirstSteps(bs, n) \o bs[s]) = [c EXCEPT ![s] = bs[s]]
    <3>1. SeedFrom(FirstSteps(bs, n)) = c /\ FirstSteps(bs, n) \in Seq(Descriptors)
      BY <2>2 DEF c
    <3> QED BY <2>3, <2>5, <2>6, <3>1, SeedBucket
  <2>8. FirstSteps(bs, n) \o bs[s] \in Seq(Descriptors) BY <2>2, <2>4, ConcatProperties
  <2>9. Good(m) BY <2>4, <2>5, <2>7, <2>8 DEF d
  <2> QED BY <2>9 DEF m
<1>3. Nat \subseteq S
  <2> HIDE DEF S
  <2> QED BY <1>1, <1>2, SetInduction
<1> QED BY <1>3

\* Building and seeding gives the same buckets, and nothing throws.
LEMMA SeedingRestores ==
  ASSUME NEW bs, BucketsOK(bs)
  PROVE  SeedFrom(Flatten(bs)) = bs /\ Flatten(bs) \in Seq(Descriptors)
<1> DEFINE n == Len(StageOrder) - 1
<1>1. n \in Nat /\ n + 1 = Len(StageOrder) BY StagesAre
<1>2. Flatten(bs) = FirstSteps(bs, n) BY DEF Flatten, FirstSteps
<1> HIDE DEF n
<1>3. SeedFrom(FirstSteps(bs, n)) = FirstBuckets(bs, n) /\ FirstSteps(bs, n) \in Seq(Descriptors)
  BY <1>1, SeedStages
<1>4. FirstBuckets(bs, n) = bs
  <2>1. \A s \in Stages : (\E i \in 1 .. n : StageOrder[i] = s) \/ s = SendStage
    <3> TAKE s \in Stages
    <3>1. PICK i \in 1 .. Len(StageOrder) : StageOrder[i] = s BY StagesAre
    <3>2. i \in 1 .. n \/ i = Len(StageOrder) BY <1>1
    <3> QED BY <3>1, <3>2, StagesAre
  <2>2. bs[SendStage] = <<>> BY StagesAre DEF BucketsOK, BucketOK
  <2>3. \A s \in Stages :
          (IF \E i \in 1 .. n : StageOrder[i] = s THEN bs[s] ELSE <<>>) = bs[s]
    BY <2>1, <2>2
  <2>4. bs = [s \in Stages |-> bs[s]] BY DEF BucketsOK
  <2>5. FirstBuckets(bs, n) = [s \in Stages |-> bs[s]] BY <2>3 DEF FirstBuckets
  <2> QED BY <2>4, <2>5
<1> QED BY <1>2, <1>3, <1>4

-----------------------------------------------------------------------------
(* The order of what is built.                                             *)

\* The place of a stage is where it stands.
LEMMA PositionIs ==
  ASSUME NEW i \in 1 .. Len(StageOrder)
  PROVE  PositionOf(StageOrder[i]) = i
<1>1. \E j \in DOMAIN StageOrder : StageOrder[j] = StageOrder[i] BY StagesAre
<1> QED BY <1>1, StagesAre DEF PositionOf

\* Steps in stage order, one at most of each pillar, of the first n stages.
Ordered(ds, n) ==
  /\ \A i \in 1 .. Len(ds) : PositionOf(ds[i].stage) \in 1 .. n
  /\ \A i, j \in 1 .. Len(ds) : i < j =>
       /\ PositionOf(ds[i].stage) <= PositionOf(ds[j].stage)
       /\ ds[i].stage \in PillarStages => ds[i].stage # ds[j].stage

\* A bucket of the next stage keeps the order.
LEMMA OrderedGrows ==
  ASSUME NEW n \in Nat, n + 1 <= Len(StageOrder), NEW ds \in Seq(Descriptors), Ordered(ds, n),
         NEW b, BucketOK(StageOrder[n + 1], b)
  PROVE  Ordered(ds \o b, n + 1)
<1> DEFINE m == n + 1
           s == StageOrder[m]
           e == ds \o b
           k == Len(ds)
           l == Len(b)
<1>1. m \in 1 .. Len(StageOrder) /\ n < m /\ m \in Nat BY StagesAre
<1>2. PositionOf(s) = m BY <1>1, PositionIs
<1>3. b \in Seq(Of(s)) /\ b \in Seq(Descriptors) /\ (s \in PillarStages => l <= 1)
  <2>1. b \in Seq(Of(s)) /\ (s \in PillarStages => l <= 1) BY DEF BucketOK
  <2>2. Of(s) \subseteq Descriptors BY DEF Of
  <2> HIDE DEF s, l
  <2> QED BY <2>1, <2>2
<1>4. /\ k \in Nat /\ l \in Nat /\ Len(e) = k + l
      /\ \A i \in 1 .. k : e[i] = ds[i]
      /\ \A i \in k + 1 .. k + l : e[i] = b[i - k]
  <2> HIDE DEF s
  <2> QED BY <1>3, LenProperties, ConcatProperties
<1>5. \A i \in k + 1 .. k + l : e[i].stage = s
  <2> SUFFICES ASSUME NEW i \in k + 1 .. k + l PROVE e[i].stage = s OBVIOUS
  <2>1. i - k \in 1 .. l BY <1>4
  <2>2. b[i - k] \in Of(s)
    <3> HIDE DEF s
    <3> QED BY <1>3, <2>1, ElementOfSeq
  <2>3. e[i] = b[i - k] BY <1>4
  <2> QED BY <2>2, <2>3 DEF Of
<1> HIDE DEF m, s, e, k, l
<1>6. /\ \A i \in 1 .. k : PositionOf(e[i].stage) \in 1 .. n
      /\ \A i, j \in 1 .. k : i < j =>
           /\ PositionOf(e[i].stage) <= PositionOf(e[j].stage)
           /\ e[i].stage \in PillarStages => e[i].stage # e[j].stage
  BY <1>4 DEF Ordered, k
<1>7. \A i \in 1 .. k + l : i \in 1 .. k \/ i \in k + 1 .. k + l BY <1>4
<1>8. \A i \in 1 .. k + l : PositionOf(e[i].stage) \in 1 .. m
  <2> TAKE i \in 1 .. k + l
  <2>1. CASE i \in 1 .. k
    <3>1. PositionOf(e[i].stage) \in 1 .. n BY <1>6, <2>1
    <3> QED BY <1>1, <3>1
  <2>2. CASE i \in k + 1 .. k + l
    <3>1. PositionOf(e[i].stage) = m BY <1>2, <1>5, <2>2
    <3> QED BY <1>1, <3>1
  <2> QED BY <1>7, <2>1, <2>2
<1>9. ASSUME NEW i \in 1 .. k + l, NEW j \in 1 .. k + l, i < j
      PROVE  /\ PositionOf(e[i].stage) <= PositionOf(e[j].stage)
             /\ e[i].stage \in PillarStages => e[i].stage # e[j].stage
  <2>1. CASE j \in 1 .. k
    <3>1. i \in 1 .. k BY <1>4, <1>9, <2>1
    <3> QED BY <1>6, <1>9, <2>1, <3>1
  <2>2. CASE i \in 1 .. k /\ j \in k + 1 .. k + l
    <3>1. PositionOf(e[i].stage) \in 1 .. n /\ PositionOf(e[j].stage) = m
      BY <1>2, <1>5, <1>6, <2>2
    <3>2. PositionOf(e[i].stage) < m BY <1>1, <3>1
    <3> QED BY <1>1, <3>1, <3>2
  <2>3. CASE i \in k + 1 .. k + l /\ j \in k + 1 .. k + l
    <3>1. e[i].stage = s /\ e[j].stage = s BY <1>5, <2>3
    <3>2. l > 1 BY <1>4, <1>9, <2>3
    <3>3. s \notin PillarStages BY <1>3, <1>4, <3>2
    <3> QED BY <1>1, <1>2, <3>1, <3>3
  <2> QED BY <1>4, <1>7, <1>9, <2>1, <2>2, <2>3
<1>10. Ordered(e, m) BY <1>4, <1>8, <1>9 DEF Ordered
<1> QED BY <1>10 DEF e, m

\* What is built is in order.
LEMMA BuiltInOrder ==
  ASSUME NEW bs, BucketsOK(bs)
  PROVE  Ordered(Flatten(bs), Len(StageOrder) - 1)
<1> DEFINE S == {n \in Nat : n + 1 <= Len(StageOrder) => Ordered(FirstSteps(bs, n), n)}
<1>1. 0 \in S
  <2>1. 0 \in Nat /\ 0 + 1 <= Len(StageOrder) BY StagesAre
  <2>2. FirstSteps(bs, 0) = <<>> BY <2>1, FirstStepsGrow
  <2>3. Len(<<>>) = 0 OBVIOUS
  <2> QED BY <2>2, <2>3 DEF Ordered
<1>2. ASSUME NEW n \in Nat, n \in S PROVE n + 1 \in S
  <2> SUFFICES ASSUME n + 1 + 1 <= Len(StageOrder) PROVE Ordered(FirstSteps(bs, n + 1), n + 1)
    OBVIOUS
  <2> DEFINE m == n + 1
             s == StageOrder[m]
  <2>1. n + 1 <= Len(StageOrder) /\ m \in 1 .. Len(StageOrder) BY StagesAre
  <2>2. Ordered(FirstSteps(bs, n), n) BY <1>2, <2>1
  <2>3. FirstSteps(bs, n + 1) = FirstSteps(bs, n) \o bs[s] BY <2>1, FirstStepsGrow
  <2>4. FirstSteps(bs, n) \in Seq(Descriptors) BY <2>1, SeedStages
  <2>5. BucketOK(StageOrder[n + 1], bs[s]) BY <2>1, StagesAre DEF BucketsOK
  <2> HIDE DEF s, m
  <2>6. Ordered(FirstSteps(bs, n) \o bs[s], n + 1)
    BY <2>1, <2>2, <2>4, <2>5, OrderedGrows
  <2> QED BY <2>3, <2>6
<1>3. Nat \subseteq S
  <2> HIDE DEF S
  <2> QED BY <1>1, <1>2, SetInduction
<1> DEFINE n == Len(StageOrder) - 1
<1>4. n \in Nat /\ n + 1 <= Len(StageOrder) BY StagesAre
<1>5. Flatten(bs) = FirstSteps(bs, n) BY DEF Flatten, FirstSteps
<1>6. n \in S BY <1>3, <1>4
<1> QED BY <1>4, <1>5, <1>6

-----------------------------------------------------------------------------

\* An edit that throws leaves the builder as it was.
LEMMA EditKeeps ==
  ASSUME BuilderInv, NEW result, Edit(result), result # Throws => BucketsOK(result)
  PROVE  BuilderInv'
<1>1. BucketsOK(buckets) /\ \E bs : BucketsOK(bs) /\ built = Flatten(bs) BY DEF BuilderInv
<1>2. /\ built' = built
      /\ result = Throws => buckets' = buckets
      /\ result # Throws => buckets' = result
  BY DEF Edit
<1>3. BucketsOK(buckets') BY <1>1, <1>2
<1>4. \E bs : BucketsOK(bs) /\ built' = Flatten(bs) BY <1>1, <1>2
<1> QED BY <1>3, <1>4 DEF BuilderInv

\* So do the bulk edits, up to the step that throws.
LEMMA AddAllKeeps ==
  ASSUME BuilderInv, NEW front, AddAll(front)
  PROVE  BuilderInv'
<1> DEFINE Add(bs, d) == IF front THEN PrependStep(bs, d) ELSE AppendStep(bs, d)
<1>1. PICK d1 \in Descriptors, d2 \in Descriptors :
        LET first == Add(buckets, d1)
            second == IF first = Throws THEN Throws ELSE Add(first, d2)
        IN /\ buckets' = IF second # Throws THEN second
                         ELSE IF first # Throws THEN first ELSE buckets
           /\ UNCHANGED built
  BY DEF AddAll
<1> DEFINE first == Add(buckets, d1)
           second == Add(first, d2)
<1>2. /\ built' = built
      /\ \/ buckets' = buckets
         \/ first # Throws /\ buckets' = first
         \/ first # Throws /\ second # Throws /\ buckets' = second
  BY <1>1
<1>3. BucketsOK(buckets) /\ \E bs : BucketsOK(bs) /\ built = Flatten(bs) BY DEF BuilderInv
<1>4. first # Throws => BucketsOK(first) BY <1>3, AddingKeeps
<1> HIDE DEF first
<1>5. first # Throws /\ second # Throws => BucketsOK(second) BY <1>4, AddingKeeps
<1> HIDE DEF second
<1>6. BucketsOK(buckets') BY <1>2, <1>3, <1>4, <1>5
<1>7. \E bs : BucketsOK(bs) /\ built' = Flatten(bs) BY <1>2, <1>3
<1> QED BY <1>6, <1>7 DEF BuilderInv

\* The builder starts empty, as does what was built.
LEMMA BuilderStarts == BuilderInit => BuilderInv
<1> SUFFICES ASSUME BuilderInit PROVE BuilderInv OBVIOUS
<1> DEFINE none == [s \in Stages |-> <<>>]
<1>1. none = [s \in Stages |-> none[s]] /\ \A s \in Stages : none[s] = <<>> OBVIOUS
<1>2. \A s \in Stages : BucketOK(s, <<>>) BY EmptySeq DEF BucketOK
<1>3. BucketsOK(none)
  <2> HIDE DEF none
  <2> QED BY <1>1, <1>2 DEF BucketsOK
<1>4. Flatten(none) = <<>>
  <2> DEFINE n == Len(StageOrder) - 1
             ss == [i \in 1 .. n |-> none[StageOrder[i]]]
  <2>1. n \in Nat /\ \A i \in 1 .. n : none[StageOrder[i]] = <<>> BY StagesAre
  <2>2. Flatten(none) = FlattenSeq(ss) BY DEF Flatten
  <2> HIDE DEF n, none
  <2>3. ss \in Seq(Seq({})) /\ Len(ss) = n /\ \A i \in 1 .. n : ss[i] = <<>>
    <3>1. <<>> \in Seq({}) BY EmptySeq
    <3>2. \A i \in 1 .. n : none[StageOrder[i]] \in Seq({}) BY <2>1, <3>1
    <3>3. ss \in [1 .. n -> Seq({})] BY <3>2
    <3>4. ss \in Seq(Seq({})) /\ Len(ss) = n BY <2>1, <3>3
    <3> QED BY <2>1, <3>4
  <2> HIDE DEF ss
  <2>4. Barren(ss) BY <2>3 DEF Barren
  <2> QED BY <2>2, <2>3, <2>4, SparseFlatten
<1>5. buckets = none /\ built = <<>> BY DEF BuilderInit
<1> HIDE DEF none
<1> QED BY <1>3, <1>4, <1>5 DEF BuilderInv

\* Every edit, build and seeding keeps them so.
LEMMA BuilderKeeps == BuilderInv /\ [BuilderNext]_builderVars => BuilderInv'
<1> SUFFICES ASSUME BuilderInv, [BuilderNext]_builderVars PROVE BuilderInv' OBVIOUS
<1>0. BucketsOK(buckets) /\ \E bs : BucketsOK(bs) /\ built = Flatten(bs) BY DEF BuilderInv
<1>1. CASE AppendOne BY <1>0, <1>1, AddingKeeps, EditKeeps DEF AppendOne
<1>2. CASE PrependOne BY <1>0, <1>2, AddingKeeps, EditKeeps DEF PrependOne
<1>3. CASE InsertOne BY <1>0, <1>3, InsertingKeeps, EditKeeps DEF InsertOne
<1>4. CASE ReplaceOne BY <1>0, <1>4, ReplacingKeeps, EditKeeps DEF ReplaceOne
<1>5. CASE RemoveSteps BY <1>0, <1>5, RemovingKeeps, EditKeeps DEF RemoveSteps
<1>6. CASE ReloadAll
  <2>1. PICK d1 \in Descriptors, d2 \in Descriptors : Edit(Reload(<<d1, d2>>))
    BY <1>6 DEF ReloadAll
  <2>2. <<d1, d2>> \in Seq(Descriptors) OBVIOUS
  <2> QED BY <2>1, <2>2, ReloadingKeeps, EditKeeps
<1>7. CASE AppendAll BY <1>7, AddAllKeeps DEF AppendAll
<1>8. CASE PrependAll BY <1>8, AddAllKeeps DEF PrependAll
<1>9. CASE Build
  <2>1. built' = Flatten(buckets) /\ buckets' = buckets BY <1>9 DEF Build
  <2>2. BucketsOK(buckets') /\ built' = Flatten(buckets) BY <1>0, <2>1
  <2> QED BY <1>0, <2>2 DEF BuilderInv
<1>10. CASE Seed
  <2>1. PICK bs : BucketsOK(bs) /\ built = Flatten(bs) BY <1>0
  <2>2. buckets' = bs /\ built' = built BY <1>10, <2>1, SeedingRestores DEF Seed
  <2>3. BucketsOK(buckets') /\ built' = Flatten(bs) BY <2>1, <2>2
  <2> QED BY <2>1, <2>3 DEF BuilderInv
<1>11. CASE UNCHANGED builderVars
  <2>1. buckets' = buckets /\ built' = built BY <1>11 DEF builderVars
  <2>2. BucketsOK(buckets') BY <1>0, <2>1
  <2>3. \E bs : BucketsOK(bs) /\ built' = Flatten(bs) BY <1>0, <2>1
  <2> QED BY <2>2, <2>3 DEF BuilderInv
<1> QED BY <1>1, <1>2, <1>3, <1>4, <1>5, <1>6, <1>7, <1>8, <1>9, <1>10, <1>11 DEF BuilderNext

\* Such buckets make a drivable build.
LEMMA BuilderImplies == BuilderInv => BuildsAreDrivable
<1> SUFFICES ASSUME BucketsOK(buckets) PROVE BuildsAreDrivable BY DEF BuilderInv
<1> DEFINE steps == Flatten(buckets)
<1>1. SeedFrom(steps) = buckets /\ steps \in Seq(Descriptors) BY SeedingRestores
<1>2. buckets = [s \in Stages |-> buckets[s]] BY DEF BucketsOK
<1>3. SeedFrom(steps) # Throws BY <1>1, <1>2, NoThrow
<1>4. Flatten(SeedFrom(steps)) = steps BY <1>1
<1>5. buckets[SendStage] = <<>> BY StagesAre DEF BucketsOK, BucketOK
<1>6. Ordered(steps, Len(StageOrder) - 1) BY BuiltInOrder
<1> HIDE DEF steps
<1>7. DOMAIN steps = 1 .. Len(steps) BY <1>1, LenProperties
<1> QED BY <1>3, <1>4, <1>5, <1>6, <1>7 DEF BuildsAreDrivable, Ordered, steps

\* Whatever edits led here, some failing half way, a build is in stage order
\* with one step at most per pillar and none in SEND, and seeding a builder from
\* it restores it: for any stages, pillars and types (PipelineBuilder).
THEOREM BuildsStayDrivable == BuilderSpec => []BuildsAreDrivable
  BY BuilderStarts, BuilderKeeps, BuilderImplies, PTL DEF BuilderSpec

-----------------------------------------------------------------------------
(* The globs of the hosts that bypass a proxy.  RestFits says of a place in *)
(* the pattern and one in the text that the rest of the one fits the rest  *)
(* of the other; the walk keeps it for the pair it is at, or for a later   *)
(* resumption of its last star.                                            *)

CutAt(pattern, text, cut, k) ==
  IF pattern[k] = "*" THEN cut[k] <= cut[k + 1]
  ELSE cut[k + 1] = cut[k] + 1 /\ pattern[k] \in {"?", text[cut[k]]}

Cuts(pattern, text, cut, i) ==
  /\ cut \in [i .. Len(pattern) + 1 -> 1 .. Len(text) + 1]
  /\ cut[Len(pattern) + 1] = Len(text) + 1
  /\ \A k \in i .. Len(pattern) : CutAt(pattern, text, cut, k)

RestFits(pattern, text, i, j) == \E cut : Cuts(pattern, text, cut, i) /\ cut[i] = j

\* Both at their ends, or neither.
LEMMA FitsEnd ==
  ASSUME NEW pattern, NEW text, Len(pattern) \in Nat, Len(text) \in Nat, NEW j
  PROVE  RestFits(pattern, text, Len(pattern) + 1, j) <=> j = Len(text) + 1
<1> DEFINE p == Len(pattern)
           l == Len(text)
<1> HIDE DEF p, l
<1>0. p \in Nat /\ l \in Nat BY DEF p, l
<1>1. ASSUME RestFits(pattern, text, p + 1, j) PROVE j = l + 1
  BY <1>1 DEF RestFits, Cuts, p, l
<1>2. RestFits(pattern, text, p + 1, l + 1)
  <2> DEFINE cut == [k \in p + 1 .. p + 1 |-> l + 1]
  <2>1. cut \in [p + 1 .. p + 1 -> 1 .. l + 1] /\ cut[p + 1] = l + 1 BY <1>0
  <2>2. p + 1 .. p = {} BY <1>0
  <2> HIDE DEF cut
  <2>3. Cuts(pattern, text, cut, p + 1) BY <2>1, <2>2 DEF Cuts, p, l
  <2> QED BY <2>1, <2>3 DEF RestFits
<1> QED BY <1>1, <1>2 DEF p, l

\* A place of the pattern more.
LEMMA FitsStep ==
  ASSUME NEW pattern, NEW text, Len(pattern) \in Nat, Len(text) \in Nat,
         NEW i \in 1 .. Len(pattern), NEW j \in 1 .. Len(text) + 1
  PROVE  RestFits(pattern, text, i, j) <=>
           IF pattern[i] = "*" THEN \E k \in j .. Len(text) + 1 : RestFits(pattern, text, i + 1, k)
           ELSE /\ j <= Len(text) /\ pattern[i] \in {"?", text[j]}
                /\ RestFits(pattern, text, i + 1, j + 1)
<1> DEFINE p == Len(pattern)
           l == Len(text)
<1> HIDE DEF p, l
<1>0. p \in Nat /\ l \in Nat /\ i \in 1 .. p /\ j \in 1 .. l + 1 BY DEF p, l
<1>1. ASSUME RestFits(pattern, text, i, j)
      PROVE  \E k \in 1 .. l + 1 :
               /\ RestFits(pattern, text, i + 1, k)
               /\ IF pattern[i] = "*" THEN j <= k ELSE k = j + 1 /\ pattern[i] \in {"?", text[j]}
  <2>1. PICK cut : Cuts(pattern, text, cut, i) /\ cut[i] = j BY <1>1 DEF RestFits
  <2>2. /\ cut \in [i .. p + 1 -> 1 .. l + 1] /\ cut[p + 1] = l + 1
        /\ \A k \in i .. p : CutAt(pattern, text, cut, k)
    BY <2>1 DEF Cuts, p, l
  <2> DEFINE rest == [k \in i + 1 .. p + 1 |-> cut[k]]
  <2>3. \A k \in i + 1 .. p + 1 : k \in i .. p + 1 /\ rest[k] = cut[k] BY <1>0
  <2>4. rest \in [i + 1 .. p + 1 -> 1 .. l + 1] BY <2>2, <2>3
  <2> HIDE DEF rest
  <2>5. p + 1 \in i + 1 .. p + 1 /\ i + 1 \in i + 1 .. p + 1 BY <1>0
  <2>6. \A k \in i + 1 .. p : CutAt(pattern, text, rest, k)
    <3> SUFFICES ASSUME NEW k \in i + 1 .. p PROVE CutAt(pattern, text, rest, k) OBVIOUS
    <3>1. k \in i .. p /\ k \in i + 1 .. p + 1 /\ k + 1 \in i + 1 .. p + 1 BY <1>0
    <3>2. CutAt(pattern, text, cut, k) /\ rest[k] = cut[k] /\ rest[k + 1] = cut[k + 1] BY <2>2, <2>3, <3>1
    <3> QED BY <3>2 DEF CutAt
  <2>7. RestFits(pattern, text, i + 1, cut[i + 1])
    BY <2>2, <2>3, <2>4, <2>5, <2>6 DEF RestFits, Cuts, p, l
  <2>8. i \in i .. p /\ CutAt(pattern, text, cut, i) /\ cut[i + 1] \in 1 .. l + 1
    BY <1>0, <2>2, <2>5
  <2> QED BY <2>1, <2>7, <2>8 DEF CutAt
<1>2. ASSUME NEW k \in 1 .. l + 1, RestFits(pattern, text, i + 1, k),
             IF pattern[i] = "*" THEN j <= k ELSE k = j + 1 /\ pattern[i] \in {"?", text[j]}
      PROVE  RestFits(pattern, text, i, j)
  <2>1. PICK rest : Cuts(pattern, text, rest, i + 1) /\ rest[i + 1] = k BY <1>2 DEF RestFits
  <2>2. /\ rest \in [i + 1 .. p + 1 -> 1 .. l + 1] /\ rest[p + 1] = l + 1
        /\ \A m \in i + 1 .. p : CutAt(pattern, text, rest, m)
    BY <2>1 DEF Cuts, p, l
  <2> DEFINE cut == [m \in i .. p + 1 |-> IF m = i THEN j ELSE rest[m]]
  <2>3. /\ cut[i] = j
        /\ \A m \in i + 1 .. p + 1 : cut[m] = rest[m]
        /\ cut \in [i .. p + 1 -> 1 .. l + 1]
    <3>1. \A m \in i .. p + 1 : m = i \/ m \in i + 1 .. p + 1 BY <1>0
    <3>2. \A m \in i + 1 .. p + 1 : m # i /\ m \in i .. p + 1 BY <1>0
    <3>3. i \in i .. p + 1 BY <1>0
    <3> QED BY <1>0, <2>2, <3>1, <3>2, <3>3
  <2> HIDE DEF cut
  <2>5. \A m \in i .. p : CutAt(pattern, text, cut, m)
    <3> SUFFICES ASSUME NEW m \in i .. p PROVE CutAt(pattern, text, cut, m) OBVIOUS
    <3>0. m + 1 \in i + 1 .. p + 1 /\ cut[m + 1] = rest[m + 1] BY <1>0, <2>3
    <3>1. CASE m = i BY <1>2, <2>1, <2>3, <3>0, <3>1 DEF CutAt
    <3>2. CASE m # i
      <4>1. m \in i + 1 .. p /\ m \in i + 1 .. p + 1 BY <1>0, <3>2
      <4>2. cut[m] = rest[m] /\ CutAt(pattern, text, rest, m) BY <2>2, <2>3, <4>1
      <4> QED BY <3>0, <4>2 DEF CutAt
    <3> QED BY <3>1, <3>2
  <2>6. p + 1 \in i + 1 .. p + 1 BY <1>0
  <2> QED BY <2>2, <2>3, <2>5, <2>6 DEF RestFits, Cuts, p, l
<1>3. \A k \in 1 .. l + 1 : k = j + 1 => j <= l BY <1>0
<1>4. j <= l => j + 1 \in 1 .. l + 1 BY <1>0
<1>5. \A k : k \in j .. l + 1 <=> k \in 1 .. l + 1 /\ j <= k BY <1>0
<1>6. CASE pattern[i] = "*"
  <2>1. RestFits(pattern, text, i, j) <=> \E k \in j .. l + 1 : RestFits(pattern, text, i + 1, k)
    BY <1>1, <1>2, <1>5, <1>6
  <2> QED BY <1>6, <2>1 DEF l
<1>7. CASE pattern[i] # "*"
  <2>1. RestFits(pattern, text, i, j) <=>
          /\ j <= l /\ pattern[i] \in {"?", text[j]} /\ RestFits(pattern, text, i + 1, j + 1)
    BY <1>1, <1>2, <1>3, <1>4, <1>7
  <2> QED BY <1>7, <2>1 DEF l
<1> QED BY <1>6, <1>7

\* A star that fits at a place fits at an earlier one.
LEMMA FitsEarlier ==
  ASSUME NEW pattern, NEW text, Len(pattern) \in Nat, Len(text) \in Nat,
         NEW i \in 1 .. Len(pattern), pattern[i] = "*",
         NEW j \in 1 .. Len(text) + 1, NEW k \in j .. Len(text) + 1, RestFits(pattern, text, i, k)
  PROVE  RestFits(pattern, text, i, j)
<1>1. k \in 1 .. Len(text) + 1 OBVIOUS
<1>2. PICK m \in k .. Len(text) + 1 : RestFits(pattern, text, i + 1, m) BY <1>1, FitsStep
<1>3. m \in j .. Len(text) + 1 OBVIOUS
<1> QED BY <1>2, <1>3, FitsStep

\* Places without a star take one character each.
LEMMA FitsAlong ==
  ASSUME NEW pattern, NEW text, Len(pattern) \in Nat, Len(text) \in Nat,
         NEW i \in 1 .. Len(pattern) + 1, NEW j \in 1 .. Len(text) + 1, RestFits(pattern, text, i, j),
         NEW m \in Nat, i + m <= Len(pattern) + 1, \A k \in i .. i + m - 1 : pattern[k] # "*"
  PROVE  j + m <= Len(text) + 1 /\ RestFits(pattern, text, i + m, j + m)
<1> DEFINE p == Len(pattern)
           l == Len(text)
           S == {n \in Nat : n <= m => j + n <= l + 1 /\ RestFits(pattern, text, i + n, j + n)}
<1>0. p \in Nat /\ l \in Nat /\ i \in 1 .. p + 1 /\ j \in 1 .. l + 1 /\ i + m <= p + 1 OBVIOUS
<1>1. 0 \in S
  <2>1. i + 0 = i /\ j + 0 = j OBVIOUS
  <2> QED BY <2>1
<1>2. ASSUME NEW n \in Nat, n \in S PROVE n + 1 \in S
  <2> SUFFICES ASSUME n + 1 <= m PROVE j + (n + 1) <= l + 1 /\ RestFits(pattern, text, i + (n + 1), j + (n + 1))
    OBVIOUS
  <2> DEFINE a == i + n
             b == j + n
  <2>1. b <= l + 1 /\ RestFits(pattern, text, a, b) BY <1>2
  <2>2. a \in 1 .. p /\ b \in 1 .. l + 1 /\ a \in i .. i + m - 1 BY <1>0, <2>1
  <2>3. pattern[a] # "*" BY <2>2
  <2>5. i + (n + 1) = a + 1 /\ j + (n + 1) = b + 1 /\ (b <= l => b + 1 <= l + 1) BY <1>0
  <2> HIDE DEF a, b
  <2>4. b <= l /\ RestFits(pattern, text, a + 1, b + 1) BY <2>1, <2>2, <2>3, FitsStep
  <2> QED BY <2>4, <2>5
<1>3. Nat \subseteq S
  <2> HIDE DEF S
  <2> QED BY <1>1, <1>2, SetInduction
<1> QED BY <1>3

\* At the end of the text only stars are left.
LEMMA FitsNothing ==
  ASSUME NEW pattern, NEW text, Len(pattern) \in Nat, Len(text) \in Nat,
         NEW i \in 1 .. Len(pattern) + 1
  PROVE  RestFits(pattern, text, i, Len(text) + 1) <=> \A k \in i .. Len(pattern) : pattern[k] = "*"
<1> DEFINE p == Len(pattern)
           e == Len(text) + 1
           F(n) == RestFits(pattern, text, n, e)
           All(n) == \A k \in n .. p : pattern[k] = "*"
           S == {n \in Nat : n <= p => (F(p + 1 - n) <=> All(p + 1 - n))}
<1>0. p \in Nat /\ e \in Nat /\ e \in 1 .. e /\ Len(text) + 1 = e /\ ~ e <= Len(text) OBVIOUS
<1>1. 0 \in S
  <2>1. p + 1 - 0 = p + 1 /\ p + 1 .. p = {} BY <1>0
  <2>2. F(p + 1) BY FitsEnd
  <2> QED BY <2>1, <2>2
<1>2. ASSUME NEW n \in Nat, n \in S PROVE n + 1 \in S
  <2> SUFFICES ASSUME n + 1 <= p PROVE F(p + 1 - (n + 1)) <=> All(p + 1 - (n + 1)) OBVIOUS
  <2> DEFINE a == p - n
  <2>1. p + 1 - (n + 1) = a /\ p + 1 - n = a + 1 /\ n <= p /\ a \in 1 .. p BY <1>0
  <2>2. F(a + 1) <=> All(a + 1) BY <1>2, <2>1
  <2>3. \A k : k \in a .. p <=> k = a \/ k \in a + 1 .. p BY <1>0, <2>1
  <2>4. All(a) <=> pattern[a] = "*" /\ All(a + 1) BY <2>3
  <2> HIDE DEF a
  <2>5. F(a) <=> pattern[a] = "*" /\ F(a + 1)
    <3>1. \A k : k \in e .. e <=> k = e BY <1>0
    <3> QED BY <1>0, <2>1, <3>1, FitsStep
  <2> QED BY <2>1, <2>2, <2>4, <2>5
<1>3. Nat \subseteq S
  <2> HIDE DEF S
  <2> QED BY <1>1, <1>2, SetInduction
<1>4. i = p + 1 - (p + 1 - i) /\ p + 1 - i \in Nat /\ p + 1 - i <= p BY <1>0
<1>5. p + 1 - i \in S BY <1>3, <1>4
<1> QED BY <1>0, <1>4, <1>5


\* The walk.
WalkTypes(pattern, text, walk) ==
  walk \in [at : 0 .. Len(pattern), text : 0 .. Len(text), star : 0 .. Len(pattern), resume : 0 .. Len(text)]

\* Its last star stands before it, with no star since, and both have gone on alike.
SinceStar(pattern, walk) ==
  /\ walk.resume <= walk.text
  /\ walk.star # 0 =>
       /\ pattern[walk.star] = "*" /\ walk.star <= walk.at
       /\ walk.text - walk.resume = walk.at - walk.star
       /\ \A k \in walk.star + 1 .. walk.at : pattern[k] # "*"

Later(pattern, text, walk) ==
  walk.star # 0 /\ \E k \in walk.resume + 1 .. Len(text) : RestFits(pattern, text, walk.star + 1, k + 1)

WalkInv(pattern, text, walk) ==
  /\ WalkTypes(pattern, text, walk) /\ SinceStar(pattern, walk)
  /\ RestFits(pattern, text, 1, 1) <=>
       RestFits(pattern, text, walk.at + 1, walk.text + 1) \/ Later(pattern, text, walk)

\* How far a walk may still go.
WalkRoom(pattern, text, walk) ==
  (Len(text) - walk.resume) * (Len(pattern) + 1) + (Len(pattern) - walk.at)

\* A room of as many rows.
LEMMA RoomGrows ==
  ASSUME NEW n \in Nat, NEW m \in Nat, NEW w \in Nat
  PROVE  /\ n * w \in Nat /\ n * w <= (n + m) * w
         /\ (n + 1) * w = n * w + w
<1>1. (n + m) * w = n * w + m * w /\ m * w \in Nat /\ n * w \in Nat OBVIOUS
<1> QED BY <1>1

\* Another star on the way makes the ones before it needless.
LEMMA LaterIsNow ==
  ASSUME NEW pattern, NEW text, Len(pattern) \in Nat, Len(text) \in Nat,
         NEW walk, WalkTypes(pattern, text, walk), SinceStar(pattern, walk), Later(pattern, text, walk)
  PROVE  /\ walk.text < Len(text)
         /\ walk.at < Len(pattern) /\ pattern[walk.at + 1] = "*" =>
              RestFits(pattern, text, walk.at + 1, walk.text + 1)
<1> DEFINE p == Len(pattern)
           l == Len(text)
           a == walk.at
           t == walk.text
           s == walk.star
           r == walk.resume
<1>0. p \in Nat /\ l \in Nat /\ a \in 0 .. p /\ t \in 0 .. l /\ s \in 0 .. p /\ r \in 0 .. l
  BY DEF WalkTypes
<1>1. /\ s # 0 /\ s <= a /\ r <= t /\ t - r = a - s
      /\ \A k \in s + 1 .. a : pattern[k] # "*"
  BY DEF SinceStar, Later
<1>2. PICK k \in r + 1 .. l : RestFits(pattern, text, s + 1, k + 1) BY DEF Later
<1> DEFINE i == s + 1
           j == k + 1
           m == a - s
<1>3. /\ i \in 1 .. p + 1 /\ j \in 1 .. l + 1 /\ m \in Nat /\ i + m = a + 1 /\ i + m - 1 = a
      /\ i + m <= p + 1 /\ j + m > t + 1
  <2>1. k \in r + 1 .. l BY <1>2
  <2>2. s # 0 /\ s <= a /\ r <= t /\ t - r = a - s BY <1>1
  <2>3. a - s \in Nat /\ s + 1 + (a - s) = a + 1 /\ k + 1 + (a - s) > t + 1 /\ k + 1 \in 1 .. l + 1
    <3> HIDE DEF a, t, s, r, p, l
    <3> QED BY <1>0, <2>1, <2>2
  <2> HIDE DEF a, t, s, r, p, l
  <2> QED BY <1>0, <2>2, <2>3
<1>4. \A n \in i .. i + m - 1 : pattern[n] # "*" BY <1>1, <1>3
<1>5. RestFits(pattern, text, i, j) BY <1>2
<1> HIDE DEF i, j, m, a, t, s, r
<1>6. j + m <= l + 1 /\ RestFits(pattern, text, i + m, j + m) BY <1>3, <1>4, <1>5, FitsAlong
<1>7. t < l BY <1>0, <1>3, <1>6
<1>8. ASSUME a < p, pattern[a + 1] = "*" PROVE RestFits(pattern, text, a + 1, t + 1)
  <2> DEFINE c == j + m
             d == t + 1
             b == a + 1
  <2>1. b \in 1 .. p /\ d \in 1 .. l + 1 /\ c \in d .. l + 1 BY <1>0, <1>3, <1>6, <1>8
  <2>2. RestFits(pattern, text, b, c) /\ pattern[b] = "*" BY <1>3, <1>6, <1>8
  <2> HIDE DEF b, c, d
  <2>3. RestFits(pattern, text, b, d) BY <2>1, <2>2, FitsEarlier
  <2> QED BY <2>3 DEF b, d
<1> QED BY <1>7, <1>8 DEF a, t

\* One step of the walk keeps the answer, and goes on or stays for good.
LEMMA GlobWalkKeeps ==
  ASSUME NEW pattern, NEW text, Len(pattern) \in Nat, Len(text) \in Nat,
         \A i \in 1 .. Len(text) : text[i] # "*",
         NEW walk, WalkInv(pattern, text, walk)
  PROVE  LET next == GlobStep(pattern, text, walk) IN
         /\ WalkInv(pattern, text, next)
         /\ next = walk \/ WalkRoom(pattern, text, next) + 1 <= WalkRoom(pattern, text, walk)
<1> DEFINE p == Len(pattern)
           l == Len(text)
           a == walk.at
           t == walk.text
           s == walk.star
           r == walk.resume
           next == GlobStep(pattern, text, walk)
           expects(characters) == a < p /\ pattern[a + 1] \in characters
           matches == t < l /\ expects({"?", text[t + 1]})
           now == RestFits(pattern, text, a + 1, t + 1)
           room == (l - r) * (p + 1)
<1>0. /\ p \in Nat /\ l \in Nat /\ a \in 0 .. p /\ t \in 0 .. l /\ s \in 0 .. p /\ r \in 0 .. l
      /\ walk = [at |-> a, text |-> t, star |-> s, resume |-> r]
  BY DEF WalkInv, WalkTypes
<1>1. SinceStar(pattern, walk) /\ (RestFits(pattern, text, 1, 1) <=> now \/ Later(pattern, text, walk))
      /\ WalkTypes(pattern, text, walk)
  BY DEF WalkInv
<1>2. t + 1 \in 1 .. l + 1 /\ (a < p => a + 1 \in 1 .. p) /\ (t < l => t + 1 \in 1 .. l) BY <1>0
<1>3. room \in Int /\ WalkRoom(pattern, text, walk) = room + (p - a)
  BY <1>0 DEF WalkRoom
<1>4. CASE matches
  <2> DEFINE w == [at |-> a + 1, text |-> t + 1, star |-> s, resume |-> r]
  <2>1. next = w BY <1>0, <1>4 DEF GlobStep
  <2>2. pattern[a + 1] # "*" BY <1>2, <1>4
  <2>3. now <=> RestFits(pattern, text, a + 2, t + 2)
    <3> DEFINE i == a + 1
               j == t + 1
    <3>1. i \in 1 .. p /\ j \in 1 .. l + 1 /\ j <= l /\ pattern[i] \in {"?", text[j]} BY <1>2, <1>4
    <3>2. i + 1 = a + 2 /\ j + 1 = t + 2 BY <1>0
    <3>3. RestFits(pattern, text, i, j) <=> now OBVIOUS
    <3> HIDE DEF i, j, now
    <3> QED BY <2>2, <3>1, <3>2, <3>3, FitsStep DEF i
  <2>4. WalkTypes(pattern, text, w) BY <1>0, <1>4 DEF WalkTypes
  <2>5. SinceStar(pattern, w)
    <3>0. r <= t + 1 BY <1>0, <1>1 DEF SinceStar
    <3> SUFFICES ASSUME s # 0
                 PROVE  /\ pattern[s] = "*" /\ s <= a + 1 /\ (t + 1) - r = (a + 1) - s
                        /\ \A k \in s + 1 .. a + 1 : pattern[k] # "*"
      BY <3>0 DEF SinceStar
    <3>1. /\ pattern[s] = "*" /\ s <= a /\ r <= t /\ t - r = a - s
          /\ \A k \in s + 1 .. a : pattern[k] # "*"
      BY <1>1 DEF SinceStar
    <3>2. \A k \in s + 1 .. a + 1 : k \in s + 1 .. a \/ k = a + 1 BY <1>0
    <3> QED BY <1>0, <2>2, <3>1, <3>2
  <2>6. Later(pattern, text, w) <=> Later(pattern, text, walk) BY DEF Later
  <2>7. w.at + 1 = a + 2 /\ w.text + 1 = t + 2 BY <1>0
  <2>8. RestFits(pattern, text, 1, 1) <=> RestFits(pattern, text, w.at + 1, w.text + 1) \/ Later(pattern, text, w)
    <3> HIDE DEF w, now
    <3> QED BY <1>1, <2>3, <2>6, <2>7
  <2>9. WalkRoom(pattern, text, w) = room + (p - (a + 1)) BY DEF WalkRoom
  <2>10. WalkRoom(pattern, text, w) + 1 <= WalkRoom(pattern, text, walk)
    <3> HIDE DEF room, w
    <3> QED BY <1>0, <1>3, <2>9 DEF room
  <2> QED BY <2>1, <2>4, <2>5, <2>8, <2>10 DEF WalkInv
<1>5. CASE t < l /\ ~ matches /\ expects({"*"})
  <2> DEFINE w == [at |-> a + 1, text |-> t, star |-> a + 1, resume |-> t]
  <2>1. next = w BY <1>0, <1>5 DEF GlobStep
  <2>2. a + 1 \in 1 .. p /\ pattern[a + 1] = "*" BY <1>2, <1>5
  <2>3. WalkTypes(pattern, text, w) BY <1>0, <2>2 DEF WalkTypes
  <2>4. SinceStar(pattern, w) BY <1>0, <2>2 DEF SinceStar
  <2>5. Later(pattern, text, walk) => now BY <1>0, <1>1, <1>5, <2>2, LaterIsNow
  <2>6. now <=> RestFits(pattern, text, a + 2, t + 1) \/ Later(pattern, text, w)
    <3> DEFINE i == a + 1
               j == t + 1
    <3>1. now <=> \E k \in j .. l + 1 : RestFits(pattern, text, i + 1, k)
      <4>1. i \in 1 .. p /\ j \in 1 .. l + 1 /\ pattern[i] = "*" BY <1>2, <2>2
      <4>2. RestFits(pattern, text, i, j) <=> now OBVIOUS
      <4> HIDE DEF i, j, now
      <4> QED BY <4>1, <4>2, FitsStep
    <3>2. i + 1 = a + 2 /\ w.star # 0 /\ w.star + 1 = a + 2 /\ w.resume + 1 = t + 1 BY <1>0
    <3>3. \A k : k \in j .. l + 1 <=> k = t + 1 \/ (k - 1 \in t + 1 .. l /\ k = (k - 1) + 1 /\ k \in Int)
      BY <1>0
    <3>4. \A k \in t + 1 .. l : k + 1 \in j .. l + 1 BY <1>0
    <3>5. Later(pattern, text, w) <=> \E k \in t + 1 .. l : RestFits(pattern, text, a + 2, k + 1)
      BY <3>2 DEF Later
    <3> HIDE DEF w, j, now
    <3>6. ASSUME now PROVE RestFits(pattern, text, a + 2, t + 1) \/ Later(pattern, text, w)
      <4>1. PICK k \in j .. l + 1 : RestFits(pattern, text, a + 2, k) BY <3>1, <3>2, <3>6
      <4>2. CASE k = t + 1 BY <4>1, <4>2
      <4>3. CASE k - 1 \in t + 1 .. l /\ k = (k - 1) + 1 BY <3>5, <4>1, <4>3
      <4> QED BY <3>3, <4>1, <4>2, <4>3
    <3>7. ASSUME RestFits(pattern, text, a + 2, t + 1) PROVE now
      <4>1. t + 1 \in j .. l + 1 BY <3>3
      <4> QED BY <3>1, <3>2, <3>7, <4>1
    <3>8. ASSUME Later(pattern, text, w) PROVE now
      BY <3>1, <3>2, <3>4, <3>5, <3>8
    <3> QED BY <3>6, <3>7, <3>8
  <2>7. w.at + 1 = a + 2 /\ w.text + 1 = t + 1 BY <1>0
  <2>8. RestFits(pattern, text, 1, 1) <=> RestFits(pattern, text, w.at + 1, w.text + 1) \/ Later(pattern, text, w)
    <3> HIDE DEF w, now
    <3> QED BY <1>1, <2>5, <2>6, <2>7
  <2>9. WalkRoom(pattern, text, w) = (l - t) * (p + 1) + (p - (a + 1)) BY DEF WalkRoom
  <2>10. (l - t) * (p + 1) <= room
    <3>1. t - r \in Nat /\ l - r = (l - t) + (t - r) BY <1>0, <1>1 DEF SinceStar
    <3> DEFINE n == l - t
               m == t - r
               w1 == p + 1
    <3>2. n \in Nat /\ m \in Nat /\ w1 \in Nat /\ l - r = n + m BY <1>0, <3>1
    <3> HIDE DEF n, m, w1
    <3>3. n * w1 <= (n + m) * w1 BY <3>2, RoomGrows
    <3> QED BY <3>2, <3>3 DEF n, w1
  <2>11. WalkRoom(pattern, text, w) + 1 <= WalkRoom(pattern, text, walk)
    <3> DEFINE less == (l - t) * (p + 1)
    <3>1. less \in Int BY <1>0
    <3>2. WalkRoom(pattern, text, w) = less + (p - (a + 1)) /\ less <= room BY <2>9, <2>10
    <3> HIDE DEF room, w, less
    <3> QED BY <1>0, <1>3, <3>1, <3>2
  <2> QED BY <2>1, <2>3, <2>4, <2>8, <2>11 DEF WalkInv
<1>6. CASE t < l /\ ~ matches /\ ~ expects({"*"}) /\ s # 0
  <2> DEFINE w == [at |-> s, text |-> r + 1, star |-> s, resume |-> r + 1]
  <2>1. next = w BY <1>0, <1>6 DEF GlobStep
  <2>2. /\ pattern[s] = "*" /\ s <= a /\ r <= t /\ t - r = a - s
        /\ \A k \in s + 1 .. a : pattern[k] # "*"
    BY <1>1, <1>6 DEF SinceStar
  <2>3. WalkTypes(pattern, text, w) BY <1>0, <1>6, <2>2 DEF WalkTypes
  <2>4. SinceStar(pattern, w)
    <3>1. s + 1 .. s = {} /\ (r + 1) - (r + 1) = s - s BY <1>0
    <3> QED BY <1>0, <2>2, <3>1 DEF SinceStar
  <2>5. ~ now
    <3> DEFINE i == a + 1
               j == t + 1
    <3>1. i \in 1 .. p + 1 /\ j \in 1 .. l + 1 /\ j <= l /\ j # l + 1 BY <1>0, <1>6
    <3>2. now <=> RestFits(pattern, text, i, j) OBVIOUS
    <3>3. a < p => i \in 1 .. p /\ pattern[i] # "*" /\ pattern[i] \notin {"?", text[j]} BY <1>2, <1>6
    <3>4. ~ a < p => i = p + 1 BY <1>0
    <3> HIDE DEF i, j, now
    <3> QED BY <3>1, <3>2, <3>3, <3>4, FitsEnd, FitsStep
  <2>6. Later(pattern, text, walk) <=> RestFits(pattern, text, s + 1, r + 2) \/ Later(pattern, text, w)
    <3>1. Later(pattern, text, walk) <=> \E k \in r + 1 .. l : RestFits(pattern, text, s + 1, k + 1)
      BY <1>6 DEF Later
    <3>2. Later(pattern, text, w) <=> \E k \in r + 2 .. l : RestFits(pattern, text, s + 1, k + 1)
      <4>1. w.star = s /\ w.resume + 1 = r + 2 BY <1>0
      <4> QED BY <1>6, <4>1 DEF Later
    <3>3. \A k : k \in r + 1 .. l <=> k = r + 1 \/ k \in r + 2 .. l BY <1>0, <1>6, <2>2
    <3>4. (r + 1) + 1 = r + 2 BY <1>0
    <3> HIDE DEF w
    <3> QED BY <3>1, <3>2, <3>3, <3>4
  <2>7. w.at + 1 = s + 1 /\ w.text + 1 = r + 2 BY <1>0
  <2>8. RestFits(pattern, text, 1, 1) <=> RestFits(pattern, text, w.at + 1, w.text + 1) \/ Later(pattern, text, w)
    <3> HIDE DEF w, now
    <3> QED BY <1>1, <2>5, <2>6, <2>7
  <2>9. WalkRoom(pattern, text, w) = (l - (r + 1)) * (p + 1) + (p - s) BY DEF WalkRoom
  <2>10. (l - (r + 1)) * (p + 1) + (p + 1) = room /\ (l - (r + 1)) * (p + 1) \in Int
    <3>1. (l - (r + 1)) + 1 = l - r /\ l - (r + 1) \in Nat BY <1>0, <1>6, <2>2
    <3> QED BY <1>0, <3>1, RoomGrows
  <2>11. WalkRoom(pattern, text, w) + 1 <= WalkRoom(pattern, text, walk)
    <3> DEFINE less == (l - (r + 1)) * (p + 1)
    <3>1. less \in Int /\ less + (p + 1) = room /\ WalkRoom(pattern, text, w) = less + (p - s)
      BY <2>9, <2>10
    <3> HIDE DEF room, w, less
    <3> QED BY <1>0, <1>3, <3>1
  <2> QED BY <2>1, <2>3, <2>4, <2>8, <2>11 DEF WalkInv
<1>7. CASE ~ t < l \/ (~ matches /\ ~ expects({"*"}) /\ s = 0)
  <2>1. next = walk BY <1>7 DEF GlobStep
  <2> QED BY <2>1
<1> QED BY <1>4, <1>5, <1>6, <1>7

\* A walk that cannot go on has its answer.
LEMMA WalkStuck ==
  ASSUME NEW pattern, NEW text, Len(pattern) \in Nat, Len(text) \in Nat,
         \A i \in 1 .. Len(text) : text[i] # "*",
         NEW walk, WalkInv(pattern, text, walk), GlobStep(pattern, text, walk) = walk
  PROVE  RestFits(pattern, text, 1, 1) <=>
           walk.text = Len(text) /\ \A i \in walk.at + 1 .. Len(pattern) : pattern[i] = "*"
<1> DEFINE p == Len(pattern)
           l == Len(text)
           a == walk.at
           t == walk.text
           s == walk.star
           r == walk.resume
           expects(characters) == a < p /\ pattern[a + 1] \in characters
           matches == t < l /\ expects({"?", text[t + 1]})
           now == RestFits(pattern, text, a + 1, t + 1)
<1>0. p \in Nat /\ l \in Nat /\ a \in 0 .. p /\ t \in 0 .. l /\ s \in 0 .. p /\ r \in 0 .. l
  BY DEF WalkInv, WalkTypes
<1>1. SinceStar(pattern, walk) /\ (RestFits(pattern, text, 1, 1) <=> now \/ Later(pattern, text, walk))
      /\ WalkTypes(pattern, text, walk)
  BY DEF WalkInv
<1>2. t + 1 \in 1 .. l + 1 /\ a + 1 \in 1 .. p + 1 /\ (a < p => a + 1 \in 1 .. p) /\ (t < l => t + 1 \in 1 .. l)
  BY <1>0
<1>3. CASE t = l
  <2>1. ~ Later(pattern, text, walk) BY <1>0, <1>1, <1>3, LaterIsNow
  <2>2. now <=> \A k \in a + 1 .. p : pattern[k] = "*" BY <1>2, <1>3, FitsNothing
  <2> QED BY <1>1, <1>3, <2>1, <2>2
<1>4. CASE t < l
  <2> DEFINE w == GlobStep(pattern, text, walk)
  <2>1. w.at = a /\ w.text = t BY DEF w
  <2>2. ~ matches
    <3>1. matches => w.at = a + 1 BY <1>1 DEF GlobStep, WalkTypes
    <3> QED BY <1>0, <2>1, <3>1
  <2>3. ~ expects({"*"})
    <3>1. expects({"*"}) => w.at = a + 1 BY <1>4, <2>2 DEF GlobStep
    <3> QED BY <1>0, <2>1, <3>1
  <2>4. s = 0
    <3> SUFFICES ASSUME s # 0 PROVE FALSE OBVIOUS
    <3>1. w.resume = r + 1 BY <1>4, <2>2, <2>3 DEF GlobStep
    <3>2. w.resume = r BY DEF w
    <3> QED BY <1>0, <3>1, <3>2
  <2>5. ~ Later(pattern, text, walk) BY <2>4 DEF Later
  <2>6. ~ now
    <3> DEFINE i == a + 1
               j == t + 1
    <3>1. i \in 1 .. p + 1 /\ j \in 1 .. l + 1 /\ j <= l /\ j # l + 1 BY <1>0, <1>4
    <3>2. now <=> RestFits(pattern, text, i, j) OBVIOUS
    <3>3. a < p => i \in 1 .. p /\ pattern[i] # "*" /\ pattern[i] \notin {"?", text[j]}
      BY <1>2, <1>4, <2>2, <2>3
    <3>4. ~ a < p => i = p + 1 BY <1>0
    <3> HIDE DEF i, j, now
    <3> QED BY <3>1, <3>2, <3>3, <3>4, FitsEnd, FitsStep
  <2> QED BY <1>0, <1>1, <1>4, <2>5, <2>6
<1> QED BY <1>0, <1>3, <1>4

\* The walk along a pattern and a text, n steps.
IsWalk(pattern, text, walk) ==
  /\ walk = [n \in 0 .. LongestWalk(pattern, text) |->
               IF n = 0 THEN GlobStart ELSE GlobStep(pattern, text, walk[n - 1])]

\* The steps from the start on, as one function of their number.
LEMMA WalkExists ==
  ASSUME NEW pattern, NEW text, LongestWalk(pattern, text) \in Nat
  PROVE  \E walk : IsWalk(pattern, text, walk)
<1> DEFINE N == LongestWalk(pattern, text)
           Upto(m, w) == w = [n \in 0 .. m |-> IF n = 0 THEN GlobStart ELSE GlobStep(pattern, text, w[n - 1])]
           S == {m \in Nat : \E w : Upto(m, w)}
<1>1. 0 \in S
  <2> DEFINE w == [n \in 0 .. 0 |-> GlobStart]
  <2>1. \A n \in 0 .. 0 : n = 0 OBVIOUS
  <2>2. Upto(0, w) BY <2>1
  <2> QED BY <2>2
<1>2. ASSUME NEW m \in Nat, m \in S PROVE m + 1 \in S
  <2>1. PICK w : Upto(m, w) BY <1>2
  <2> DEFINE v == [n \in 0 .. m + 1 |-> IF n = m + 1 THEN GlobStep(pattern, text, w[m]) ELSE w[n]]
  <2>2. \A n \in 0 .. m : w[n] = IF n = 0 THEN GlobStart ELSE GlobStep(pattern, text, w[n - 1])
    <3> DEFINE body(n) == IF n = 0 THEN GlobStart ELSE GlobStep(pattern, text, w[n - 1])
    <3>1. w = [n \in 0 .. m |-> body(n)] BY <2>1
    <3> HIDE DEF body
    <3>2. \A n \in 0 .. m : w[n] = body(n) BY <3>1
    <3> QED BY <3>2 DEF body
  <2>3. \A n \in 0 .. m : n \in 0 .. m + 1 /\ n # m + 1 /\ v[n] = w[n] OBVIOUS
  <2>4. v[m + 1] = GlobStep(pattern, text, w[m]) OBVIOUS
  <2>5. m \in 0 .. m /\ m + 1 # 0 /\ (m + 1) - 1 = m OBVIOUS
  <2> DEFINE next(n) == IF n = 0 THEN GlobStart ELSE GlobStep(pattern, text, v[n - 1])
  <2>6. \A n \in 0 .. m + 1 : v[n] = next(n)
    <3> HIDE DEF v
    <3> SUFFICES ASSUME NEW n \in 0 .. m + 1 PROVE v[n] = next(n) OBVIOUS
    <3>1. CASE n = m + 1 BY <2>3, <2>4, <2>5, <3>1
    <3>2. CASE n # m + 1
      <4>1. n \in 0 .. m /\ (n # 0 => n - 1 \in 0 .. m) BY <3>2
      <4> QED BY <2>2, <2>3, <4>1
    <3> QED BY <3>1, <3>2
  <2>7. v = [n \in 0 .. m + 1 |-> next(n)]
    <3>1. v = [n \in 0 .. m + 1 |-> v[n]] OBVIOUS
    <3> HIDE DEF v, next
    <3> QED BY <2>6, <3>1
  <2>8. Upto(m + 1, v) BY <2>7
  <2> HIDE DEF v
  <2> QED BY <2>8
<1>3. Nat \subseteq S
  <2> HIDE DEF S
  <2> QED BY <1>1, <1>2, SetInduction
<1>4. PICK w : Upto(N, w) BY <1>3
<1> QED BY <1>4 DEF IsWalk

\* What such a function is at each number.
LEMMA WalkAt ==
  ASSUME NEW pattern, NEW text, LongestWalk(pattern, text) \in Nat, NEW walk, IsWalk(pattern, text, walk)
  PROVE  /\ walk[0] = GlobStart
         /\ \A n \in 1 .. LongestWalk(pattern, text) : walk[n] = GlobStep(pattern, text, walk[n - 1])
<1> DEFINE body(n) == IF n = 0 THEN GlobStart ELSE GlobStep(pattern, text, walk[n - 1])
           N == LongestWalk(pattern, text)
<1>1. walk = [n \in 0 .. N |-> body(n)] BY DEF IsWalk
<1> HIDE DEF body, N
<1>2. \A n \in 0 .. N : walk[n] = body(n) BY <1>1
<1>3. N \in Nat BY DEF N
<1>4. 0 \in 0 .. N /\ \A n \in 1 .. N : n \in 0 .. N /\ n # 0 BY <1>3
<1> QED BY <1>2, <1>4 DEF body, N

\* A walk comes to an end.
LEMMA WalkEnds ==
  ASSUME NEW pattern, NEW text, Len(pattern) \in Nat, Len(text) \in Nat,
         \A i \in 1 .. Len(text) : text[i] # "*",
         NEW walk, IsWalk(pattern, text, walk)
  PROVE  LET last == walk[LongestWalk(pattern, text)] IN
         WalkInv(pattern, text, last) /\ GlobStep(pattern, text, last) = last
<1> DEFINE p == Len(pattern)
           l == Len(text)
           N == LongestWalk(pattern, text)
           StillToGo(w) == WalkRoom(pattern, text, w)
           Stays(w) == GlobStep(pattern, text, w) = w
           S == {n \in Nat : n <= N => /\ WalkInv(pattern, text, walk[n])
                                       /\ Stays(walk[n]) \/ StillToGo(walk[n]) + n <= StillToGo(GlobStart)}
<1>0. N \in Nat /\ StillToGo(GlobStart) + 1 <= N
  <2> HIDE DEF p, l
  <2>1. p \in Nat /\ l \in Nat BY DEF p, l
  <2>2. N = (l + 1) * (p + 1) BY DEF N, LongestWalk, p, l
  <2>3. StillToGo(GlobStart) = (l - 0) * (p + 1) + (p - 0) BY DEF WalkRoom, GlobStart, p, l
  <2>4. (l + 1) * (p + 1) = l * (p + 1) + (p + 1) /\ l * (p + 1) \in Nat BY <2>1, RoomGrows
  <2>5. l - 0 = l BY <2>1
  <2> QED BY <2>1, <2>2, <2>3, <2>4, <2>5
<1>1. walk[0] = GlobStart /\ \A n \in 1 .. N : walk[n] = GlobStep(pattern, text, walk[n - 1])
  BY <1>0, WalkAt
<1>2. WalkInv(pattern, text, GlobStart)
  <2>1. WalkTypes(pattern, text, GlobStart) BY DEF WalkTypes, GlobStart
  <2>2. SinceStar(pattern, GlobStart) BY DEF SinceStar, GlobStart
  <2>3. ~ Later(pattern, text, GlobStart) BY DEF Later, GlobStart
  <2>4. GlobStart.at + 1 = 1 /\ GlobStart.text + 1 = 1 BY DEF GlobStart
  <2> QED BY <2>1, <2>2, <2>3, <2>4 DEF WalkInv
<1>3. \A w : WalkInv(pattern, text, w) => StillToGo(w) \in Nat
  <2> SUFFICES ASSUME NEW w, WalkInv(pattern, text, w) PROVE StillToGo(w) \in Nat OBVIOUS
  <2>1. w.at \in 0 .. p /\ w.resume \in 0 .. l BY DEF WalkInv, WalkTypes
  <2>2. l - w.resume \in Nat /\ p - w.at \in Nat /\ p + 1 \in Nat BY <2>1
  <2>3. (l - w.resume) * (p + 1) \in Nat BY <2>2
  <2> QED BY <2>2, <2>3 DEF WalkRoom
<1>4. \A w : WalkInv(pattern, text, w) =>
        /\ WalkInv(pattern, text, GlobStep(pattern, text, w))
        /\ Stays(w) \/ StillToGo(GlobStep(pattern, text, w)) + 1 <= StillToGo(w)
  BY GlobWalkKeeps
<1> HIDE DEF N, StillToGo
<1>5. 0 \in S BY <1>0, <1>1, <1>2, <1>3
<1>6. ASSUME NEW n \in Nat, n \in S PROVE n + 1 \in S
  <2> SUFFICES ASSUME n + 1 <= N
               PROVE  /\ WalkInv(pattern, text, walk[n + 1])
                      /\ Stays(walk[n + 1]) \/ StillToGo(walk[n + 1]) + (n + 1) <= StillToGo(GlobStart)
    OBVIOUS
  <2>1. n <= N /\ n + 1 \in 1 .. N /\ (n + 1) - 1 = n BY <1>0
  <2>2. walk[n + 1] = GlobStep(pattern, text, walk[n]) BY <1>1, <2>1
  <2> DEFINE v == walk[n]
             w == walk[n + 1]
  <2>3. WalkInv(pattern, text, v) /\ (Stays(v) \/ StillToGo(v) + n <= StillToGo(GlobStart)) BY <1>6, <2>1
  <2> HIDE DEF v, w
  <2>4. w = GlobStep(pattern, text, v) BY <2>2 DEF v, w
  <2>5. WalkInv(pattern, text, w) BY <1>4, <2>3, <2>4
  <2>6. CASE Stays(v) BY <2>4, <2>5, <2>6 DEF v, w
  <2>7. CASE ~ Stays(v)
    <3>1. StillToGo(v) + n <= StillToGo(GlobStart) /\ StillToGo(w) + 1 <= StillToGo(v) BY <1>4, <2>3, <2>4, <2>7
    <3>2. StillToGo(v) \in Nat /\ StillToGo(w) \in Nat /\ StillToGo(GlobStart) \in Nat BY <1>2, <1>3, <2>3, <2>5
    <3>3. StillToGo(w) + (n + 1) <= StillToGo(GlobStart) BY <3>1, <3>2
    <3> QED BY <2>5, <3>3 DEF v, w
  <2> QED BY <2>6, <2>7
<1>7. Nat \subseteq S
  <2> HIDE DEF S
  <2> QED BY <1>5, <1>6, SetInduction
<1>8. N \in S /\ N <= N BY <1>0, <1>7
<1>9. WalkInv(pattern, text, walk[N]) /\ (Stays(walk[N]) \/ StillToGo(walk[N]) + N <= StillToGo(GlobStart))
  BY <1>8
<1>10. Stays(walk[N]) BY <1>0, <1>2, <1>3, <1>9
<1> QED BY <1>9, <1>10 DEF N

\* A host goes around a proxy exactly when one of its globs fits it, whatever the
\* globs and the host: the walk of globMatches, which keeps no more than its last
\* star to come back to, finds every way there is to fill the stars of a pattern,
\* and has done so after as many steps as its comment says.  A host has no star.
THEOREM GlobsAreMatched ==
  ASSUME NEW Characters, NEW pattern \in Seq(Characters), NEW text \in Seq(Characters \ {"*"})
  PROVE  GlobsHold(pattern, text)
<1>1. /\ Len(pattern) \in Nat /\ Len(text) \in Nat
      /\ \A i \in 1 .. Len(text) : text[i] # "*"
      /\ DOMAIN pattern = 1 .. Len(pattern)
  OBVIOUS
<1>2. LongestWalk(pattern, text) \in Nat BY <1>1 DEF LongestWalk
<1> DEFINE walk == CHOOSE w : IsWalk(pattern, text, w)
           last == walk[LongestWalk(pattern, text)]
<1>3. IsWalk(pattern, text, walk) BY <1>2, WalkExists
<1>4. GlobMatches(pattern, text) <=>
        last.text = Len(text) /\ \A i \in last.at + 1 .. Len(pattern) : pattern[i] = "*"
  BY DEF GlobMatches, IsWalk
<1> HIDE DEF walk
<1>5. WalkInv(pattern, text, last) /\ GlobStep(pattern, text, last) = last BY <1>1, <1>3, WalkEnds
<1> HIDE DEF last
<1>6. GlobMatches(pattern, text) <=> RestFits(pattern, text, 1, 1) BY <1>1, <1>4, <1>5, WalkStuck
<1>7. GlobFits(pattern, text) <=> RestFits(pattern, text, 1, 1)
  BY <1>1 DEF GlobFits, RestFits, Cuts, CutAt
<1> QED BY <1>6, <1>7 DEF GlobsHold
=============================================================================
