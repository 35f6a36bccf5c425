-------------------------- MODULE MessageBusProofs --------------------------
(***************************************************************************)
(* What every step on the bus does to the log: it grows at its end.  The   *)
(* proofs about the services on the bus rest on these facts.               *)
(***************************************************************************)
EXTENDS MessageBus, SequenceTheorems, TLAPS

(* A sequence, whatever its elements are. *)
IsSequence(s) == Len(s) \in Nat /\ s = [i \in 1 .. Len(s) |-> s[i]]

(* A step keeps what is published, and the places of what it publishes. *)
LogGrown ==
    /\ IsSequence(log) /\ IsSequence(log')
    /\ Len(log) <= Len(log')
    /\ \A i \in 1 .. Len(log) : log'[i] = log[i]
News == Len(log) + 1 .. Len(log')

(* A sequence of anything is one of the elements of any set that has them. *)
LEMMA SequenceOf ==
    ASSUME NEW s, NEW S, IsSequence(s), \A i \in 1 .. Len(s) : s[i] \in S
    PROVE  s \in Seq(S)
<1>1. s \in [1 .. Len(s) -> S] /\ Len(s) \in Nat
    BY DEF IsSequence
<1> QED BY <1>1

LEMMA SequenceIs ==
    ASSUME NEW S, NEW s \in Seq(S)
    PROVE  IsSequence(s) /\ DOMAIN s = 1 .. Len(s)
BY LenProperties DEF IsSequence

(* What is listed by a function on 1 .. n is a sequence. *)
LEMMA Listed ==
    ASSUME NEW n \in Nat, NEW s, DOMAIN s = 1 .. n, s = [i \in 1 .. n |-> s[i]]
    PROVE  IsSequence(s) /\ Len(s) = n
<1>1. s \in [1 .. n -> {s[i] : i \in 1 .. n}]
    <2>1. \A i \in 1 .. n : s[i] \in {s[j] : j \in 1 .. n}
        OBVIOUS
    <2> QED BY <2>1
<1>2. s \in Seq({s[i] : i \in 1 .. n}) /\ Len(s) = n
    BY <1>1
<1> QED BY <1>2, SequenceIs

(* One sequence after the other. *)
IsJoined(new, old, out) ==
    /\ IsSequence(new)
    /\ Len(new) = Len(old) + Len(out)
    /\ \A i \in 1 .. Len(old) : new[i] = old[i]
    /\ \A n \in 1 .. Len(out) : new[Len(old) + n] = out[n]
LEMMA Joined ==
    ASSUME NEW old, NEW out, IsSequence(old), IsSequence(out)
    PROVE  IsJoined(old \o out, old, out)
<1> DEFINE new == old \o out
           S == {old[i] : i \in 1 .. Len(old)} \cup {out[i] : i \in 1 .. Len(out)}
<1>1. old \in Seq(S) /\ out \in Seq(S)
    <2>1. (\A i \in 1 .. Len(old) : old[i] \in S) /\ \A i \in 1 .. Len(out) : out[i] \in S
        OBVIOUS
    <2> HIDE DEF S
    <2> QED BY <2>1, SequenceOf
<1> HIDE DEF S
<1>2. Len(old) \in Nat /\ Len(out) \in Nat
    BY DEF IsSequence
<1>3. /\ new \in Seq(S)
      /\ Len(new) = Len(old) + Len(out)
      /\ \A i \in 1 .. Len(old) + Len(out) :
             new[i] = IF i <= Len(old) THEN old[i] ELSE out[i - Len(old)]
    BY <1>1, ConcatProperties, Zenon
<1> HIDE DEF new
<1>4. IsSequence(new)
    BY <1>3, SequenceIs
<1>5. \A i \in 1 .. Len(old) : new[i] = old[i]
    BY <1>2, <1>3
<1>6. ASSUME NEW n \in 1 .. Len(out)
      PROVE  new[Len(old) + n] = out[n]
    <2>1. /\ Len(old) + n \in 1 .. Len(old) + Len(out)
          /\ ~(Len(old) + n <= Len(old)) /\ (Len(old) + n) - Len(old) = n
        BY <1>2
    <2> QED BY <1>3, <2>1
<1> QED BY <1>3, <1>4, <1>5, <1>6 DEF IsJoined, new

LEMMA SequenceDomain ==
    ASSUME NEW s, IsSequence(s)
    PROVE  DOMAIN s = 1 .. Len(s)
BY DEF IsSequence

LEMMA NoneOrOne ==
    ASSUME NEW m
    PROVE  /\ IsSequence(<<>>) /\ Len(<<>>) = 0 /\ DOMAIN <<>> = {}
           /\ IsSequence(<<m>>) /\ Len(<<m>>) = 1
           /\ \A n \in DOMAIN <<m>> : <<m>>[n] = m
<1>1. <<m>> \in Seq({m})
    OBVIOUS
<1>2. <<>> \in Seq({m})
    OBVIOUS
<1>3. \A n \in DOMAIN <<m>> : <<m>>[n] = m
    OBVIOUS
<1>4. DOMAIN <<>> = {}
    OBVIOUS
<1> QED BY <1>1, <1>2, <1>3, <1>4, SequenceIs

(***************************************************************************)
(* A step that sends the messages of out, and one that sends m.            *)
(***************************************************************************)
LEMMA Sending ==
    ASSUME NEW out, IsSequence(log), IsSequence(out), log' = log \o out
    PROVE  /\ LogGrown
           /\ Len(log') = Len(log) + Len(out)
           /\ \A i \in News : \E n \in DOMAIN out : i = Len(log) + n /\ log'[i] = out[n]
<1> DEFINE new == log'
<1>1. IsJoined(log \o out, log, out)
    BY Joined
<1>2. IsJoined(new, log, out)
    BY <1>1
<1> HIDE DEF new
<1>3. Len(log) \in Nat /\ Len(out) \in Nat
    BY DEF IsSequence
<1>4. ASSUME NEW i \in Len(log) + 1 .. Len(new)
      PROVE  \E n \in DOMAIN out : i = Len(log) + n /\ new[i] = out[n]
    <2>1. i - Len(log) \in 1 .. Len(out) /\ i = Len(log) + (i - Len(log))
        BY <1>2, <1>3 DEF IsJoined
    <2>2. new[i] = out[i - Len(log)]
        BY <1>2, <2>1 DEF IsJoined
    <2> QED BY <2>1, <2>2, SequenceDomain
<1>5. IsSequence(log) /\ IsSequence(new) /\ Len(log) <= Len(new)
    BY <1>2, <1>3 DEF IsJoined
<1> QED BY <1>2, <1>4, <1>5 DEF LogGrown, News, new, IsJoined

LEMMA SendingOne ==
    ASSUME NEW m, IsSequence(log), log' = Append(log, m)
    PROVE  LogGrown /\ News = {Len(log) + 1} /\ log'[Len(log) + 1] = m
<1> DEFINE S == {log[i] : i \in 1 .. Len(log)} \cup {m}
           new == log'
<1>1. log \in Seq(S) /\ m \in S
    <2>1. \A i \in 1 .. Len(log) : log[i] \in S
        OBVIOUS
    <2>2. m \in S
        OBVIOUS
    <2> HIDE DEF S
    <2> QED BY <2>1, <2>2, SequenceOf
<1>2. new = Append(log, m)
    OBVIOUS
<1> HIDE DEF S, new
<1>3. /\ new \in Seq(S) /\ Len(new) = Len(log) + 1
      /\ \A i \in 1 .. Len(log) : new[i] = log[i]
      /\ new[Len(log) + 1] = m
    BY <1>1, <1>2, AppendProperties
<1>4. Len(log) \in Nat
    BY DEF IsSequence
<1>5. IsSequence(new)
    BY <1>3, SequenceIs
<1>6. Len(log) + 1 .. Len(new) = {Len(log) + 1}
    BY <1>3, <1>4
<1>7. Len(log) <= Len(new)
    BY <1>3, <1>4
<1> QED BY <1>3, <1>5, <1>6, <1>7 DEF LogGrown, News, new

LEMMA SendingNone ==
    ASSUME IsSequence(log), UNCHANGED log
    PROVE  LogGrown /\ News = {}
<1>1. Len(log) \in Nat
    BY DEF IsSequence
<1> QED BY <1>1 DEF LogGrown, News

(***************************************************************************)
(* What has been published, after the step.                                *)
(***************************************************************************)
LEMMA Growing ==
    ASSUME LogGrown
    PROVE  /\ Len(log) \in Nat /\ Len(log') \in Nat /\ Len(log) <= Len(log')
           /\ DOMAIN log = 1 .. Len(log) /\ DOMAIN log' = 1 .. Len(log')
           /\ DOMAIN log' = DOMAIN log \cup News
           /\ \A i \in DOMAIN log : i \in Nat /\ i <= Len(log) /\ log'[i] = log[i]
           /\ \A i \in News : i \in Nat /\ i > Len(log) /\ i \notin DOMAIN log
<1> DEFINE n == Len(log) new == log'
<1>1. IsSequence(log) /\ IsSequence(new) /\ n <= Len(new) /\ \A i \in 1 .. n : new[i] = log[i]
    BY DEF LogGrown
<1> HIDE DEF new
<1>2. n \in Nat /\ Len(new) \in Nat /\ DOMAIN log = 1 .. n /\ DOMAIN new = 1 .. Len(new)
    BY <1>1, SequenceDomain DEF IsSequence
<1>3. 1 .. Len(new) = 1 .. n \cup (n + 1 .. Len(new))
    BY <1>1, <1>2
<1>4. \A i \in n + 1 .. Len(new) : i \in Nat /\ i > n /\ i \notin 1 .. n
    BY <1>2
<1>5. \A i \in 1 .. n : i \in Nat /\ i <= n
    BY <1>2
<1> QED BY <1>1, <1>2, <1>3, <1>4, <1>5 DEF News, new

LEMMA PublishedThen ==
    ASSUME LogGrown, NEW type
    PROVE  /\ Published(type)' = Published(type) \cup {i \in News : log'[i].type = type}
           /\ \A i \in Published(type) : log'[i] = log[i] /\ i \in DOMAIN log
<1>1. DOMAIN log' = DOMAIN log \cup News /\ \A i \in DOMAIN log : log'[i] = log[i]
    BY Growing
<1> QED BY <1>1 DEF Published

-----------------------------------------------------------------------------
(***************************************************************************)
(* The bus and a step on it: the log grows at its end, and no service goes *)
(* back.                                                                   *)
(***************************************************************************)
BusTyped ==
    /\ IsSequence(log)
    /\ read \in [Service -> Nat]
    /\ \A s \in Service : read[s] <= Len(log)
AnyStep ==
    /\ LogGrown
    /\ read' \in [Service -> Nat]
    /\ \A s \in Service : read[s] <= read'[s] /\ read'[s] <= Len(log')

(* One message is sent; none is of the type; service s has read message i. *)
Sent(m) == News = {Len(log) + 1} /\ log'[Len(log) + 1] = m
Silent(type) == \A i \in News : log'[i].type # type
HasRead(s, i) ==
    /\ i \in DOMAIN log /\ read[s] < i /\ Wants(s, i)
    /\ \A j \in read[s] + 1 .. i - 1 : ~Wants(s, j)
    /\ read'[s] = i
    /\ \A x \in Service \ {s} : read'[x] = read[x]

(* What service s has read, or gone by, of a type. *)
ReadBy(s, type) == {i \in Published(type) : i <= read[s]}

LEMMA Appended ==
    ASSUME BusTyped, NEW m, log' = Append(log, m), UNCHANGED read
    PROVE  AnyStep /\ Sent(m)
<1>1. LogGrown /\ News = {Len(log) + 1} /\ log'[Len(log) + 1] = m
    BY SendingOne DEF BusTyped
<1>2. Len(log) \in Nat /\ Len(log') \in Nat /\ Len(log) <= Len(log')
    BY <1>1, Growing
<1>3. read' \in [Service -> Nat] /\ \A s \in Service : read[s] <= read'[s] /\ read'[s] <= Len(log')
    BY <1>2 DEF BusTyped
<1> QED BY <1>1, <1>3 DEF AnyStep, Sent

LEMMA HandledSends ==
    ASSUME BusTyped, NEW s \in Service, NEW i \in DOMAIN log, NEW out,
           IsNext(s, i), Handled(s, i, out), IsSequence(out)
    PROVE  /\ AnyStep /\ HasRead(s, i)
           /\ Len(log') = Len(log) + Len(out)
           /\ \A j \in News : \E n \in DOMAIN out : j = Len(log) + n /\ log'[j] = out[n]
<1>1. /\ LogGrown /\ Len(log') = Len(log) + Len(out)
      /\ \A j \in News : \E n \in DOMAIN out : j = Len(log) + n /\ log'[j] = out[n]
    BY Sending DEF Handled, BusTyped
<1>2. read' = [read EXCEPT ![s] = i] /\ read \in [Service -> Nat]
    BY DEF Handled, BusTyped
<1>3. /\ Len(log) \in Nat /\ Len(log') \in Nat /\ Len(log) <= Len(log')
      /\ i \in Nat /\ i <= Len(log) /\ read[s] < i
    BY <1>1, Growing DEF IsNext
<1>4. \A x \in Service : read[x] <= Len(log)
    BY DEF BusTyped
<1>5. /\ read' \in [Service -> Nat]
      /\ \A x \in Service : read[x] <= read'[x] /\ read'[x] <= Len(log')
      /\ read'[s] = i /\ \A x \in Service \ {s} : read'[x] = read[x]
    BY <1>2, <1>3, <1>4
<1> QED BY <1>1, <1>5 DEF AnyStep, HasRead, IsNext

LEMMA HandledOne ==
    ASSUME BusTyped, NEW s \in Service, NEW i \in DOMAIN log, NEW m,
           IsNext(s, i), Handled(s, i, <<m>>)
    PROVE  AnyStep /\ HasRead(s, i) /\ Sent(m)
<1>1. PICK out : out = <<m>>
    OBVIOUS
<1>2. IsSequence(out) /\ Len(out) = 1 /\ \A n \in DOMAIN out : out[n] = m
    BY <1>1, NoneOrOne
<1>3. /\ AnyStep /\ HasRead(s, i) /\ Len(log') = Len(log) + 1
      /\ \A j \in News : \E n \in DOMAIN out : j = Len(log) + n /\ log'[j] = out[n]
    BY <1>1, <1>2, HandledSends
<1>4. Len(log) \in Nat
    BY <1>3, Growing DEF AnyStep
<1>5. News = {Len(log) + 1}
    BY <1>3, <1>4 DEF News
<1> QED BY <1>2, <1>3, <1>5 DEF Sent

LEMMA HandledNone ==
    ASSUME BusTyped, NEW s \in Service, NEW i \in DOMAIN log, IsNext(s, i), Handled(s, i, <<>>)
    PROVE  AnyStep /\ HasRead(s, i) /\ News = {}
<1>1. PICK out : out = <<>>
    OBVIOUS
<1>2. IsSequence(out) /\ DOMAIN out = {}
    BY <1>1, NoneOrOne
<1>3. /\ AnyStep /\ HasRead(s, i)
      /\ \A j \in News : \E n \in DOMAIN out : j = Len(log) + n /\ log'[j] = out[n]
    BY <1>1, <1>2, HandledSends
<1> QED BY <1>2, <1>3

LEMMA StillPublished ==
    ASSUME AnyStep, NEW type, Silent(type)
    PROVE  Published(type)' = Published(type)
<1>1. Published(type)' = Published(type) \cup {i \in News : log'[i].type = type}
    BY PublishedThen DEF AnyStep
<1>2. {i \in News : log'[i].type = type} = {}
    BY DEF Silent
<1> QED BY <1>1, <1>2

LEMMA OldMessages ==
    ASSUME AnyStep
    PROVE  /\ \A type : Published(type)' = Published(type) \cup {i \in News : log'[i].type = type}
           /\ \A type : \A i \in Published(type) : i \in DOMAIN log /\ i \in Nat /\ i <= Len(log)
           /\ \A i \in DOMAIN log : log'[i] = log[i] /\ i \in Nat /\ i <= Len(log)
           /\ \A i \in News : i \in Nat /\ i > Len(log) /\ i \notin DOMAIN log
           /\ Len(log) \in Nat /\ DOMAIN log = 1 .. Len(log)
<1>1. \A type : Published(type)' = Published(type) \cup {i \in News : log'[i].type = type}
    BY PublishedThen DEF AnyStep
<1>2. /\ \A i \in DOMAIN log : log'[i] = log[i] /\ i \in Nat /\ i <= Len(log)
      /\ \A i \in News : i \in Nat /\ i > Len(log) /\ i \notin DOMAIN log
      /\ Len(log) \in Nat /\ DOMAIN log = 1 .. Len(log)
    BY Growing DEF AnyStep
<1>3. \A type : \A i \in Published(type) : i \in DOMAIN log
    BY DEF Published
<1> QED BY <1>1, <1>2, <1>3

(***************************************************************************)
(* What was read stays read; without its reading, a service has read the   *)
(* same; with it, message i and what it went by.                           *)
(***************************************************************************)
LEMMA KeptRead ==
    ASSUME BusTyped, AnyStep, NEW s \in Service, NEW type
    PROVE  ReadBy(s, type) \subseteq ReadBy(s, type)'
<1> SUFFICES ASSUME NEW i \in ReadBy(s, type)
             PROVE  i \in ReadBy(s, type)'
    OBVIOUS
<1>1. i \in Published(type)' /\ i \in Nat
    BY OldMessages DEF ReadBy
<1>2. i <= read[s] /\ read[s] <= read'[s] /\ read[s] \in Nat /\ read'[s] \in Nat
    BY DEF AnyStep, ReadBy, BusTyped
<1> QED BY <1>1, <1>2 DEF ReadBy

LEMMA ReadByNone ==
    ASSUME AnyStep, NEW s, read'[s] = read[s], read'[s] <= Len(log), read[s] \in Nat, NEW type
    PROVE  ReadBy(s, type)' = ReadBy(s, type)
<1>1. \A j \in News : ~(j <= read[s])
    BY Growing DEF AnyStep
<1>2. Published(type)' = Published(type) \cup {j \in News : log'[j].type = type}
    BY PublishedThen DEF AnyStep
<1> QED BY <1>1, <1>2 DEF ReadBy

LEMMA ReadByOne ==
    ASSUME BusTyped, AnyStep, NEW s \in Service, NEW i, HasRead(s, i), NEW type,
           \A j \in Published(type) : Wants(s, j)
    PROVE  /\ ReadBy(s, type)' = ReadBy(s, type) \cup {j \in {i} : log[j].type = type}
           /\ \A j \in Published(type) : j < i => j \in ReadBy(s, type)
<1>2. /\ i \in DOMAIN log /\ i \in Nat /\ read[s] \in Nat /\ read[s] < i /\ read'[s] = i
      /\ \A j \in read[s] + 1 .. i - 1 : ~Wants(s, j)
    BY Growing DEF HasRead, AnyStep, BusTyped
<1>3. \A j \in Published(type) : Wants(s, j) /\ j \in DOMAIN log /\ j \in Nat
    BY OldMessages
<1>4. \A j \in Published(type) : j < i => j <= read[s]
    BY <1>2, <1>3
<1>5. Published(type)' = Published(type) \cup {j \in News : log'[j].type = type}
    BY OldMessages
<1>6. \A j \in News : ~(j <= i)
    BY <1>2, Growing DEF AnyStep
<1>7. ReadBy(s, type)' = {j \in Published(type) : j <= i}
    BY <1>2, <1>5, <1>6 DEF ReadBy
<1>8. {j \in Published(type) : j <= i} = ReadBy(s, type) \cup {j \in {i} : log[j].type = type}
    <2>1. \A j \in Published(type) : j <= i <=> j < i \/ j = i
        BY <1>2, <1>3
    <2>2. \A j \in Published(type) : j <= read[s] => j < i
        BY <1>2, <1>3
    <2>3. log[i].type = type <=> i \in Published(type)
        BY <1>2 DEF Published
    <2> QED BY <1>4, <2>1, <2>2, <2>3 DEF ReadBy
<1> QED BY <1>4, <1>7, <1>8 DEF ReadBy
=============================================================================
