-------------------------- MODULE EventIngestProofs --------------------------
(***************************************************************************)
(* Proofs about the event gateway and the push consumer, for any events,   *)
(* handlers, hours and limits: landed objects are accounted for, and the   *)
(* answers of both services can be trusted.                                *)
(***************************************************************************)
EXTENDS EventIngest, FiniteSetTheorems, SequenceTheorems, TLAPS

Orphaned(e) == {o \in orphaned : o.event = e}

\* The sets that LandingAccounted counts, which are finite.
Fits(L, M, H, O) ==
    /\ IsFiniteSet(L) /\ IsFiniteSet(M) /\ IsFiniteSet(H) /\ IsFiniteSet(O)
    /\ Cardinality(L) = Cardinality(M) + Cardinality(H) + Cardinality(O)

LandingFits ==
    \A e \in Events : Fits(Landed(e), MessagesOf(e), InHand(e), Orphaned(e))

HasLanded(g) == request[g].phase = "landed"

\* A landed object belongs to one request, which has not failed.
RequestsOwn ==
    /\ \A g \in Handlers : HasLanded(g) => request[g].object \in landing \ orphaned
    /\ \A g, h \in Handlers :
            HasLanded(g) /\ HasLanded(h) /\ request[g].object = request[h].object => g = h

\* A message that may be pushed has an attempt left, and an event was landed first.
MessagesInv ==
    /\ \A i \in DOMAIN topic : topic[i].state = "ready" => topic[i].attempts < MaxAttempts
    /\ \A i \in DOMAIN topic : topic[i].event \in Events => Landed(topic[i].event) # {}

\* A push names the object of its message.
PushesMatch ==
    \A c \in Consumers : push[c] # Idle => push[c].object.event = topic[push[c].message].event

IInv == TypeOK /\ LandingFits /\ RequestsOwn /\ MessagesInv /\ PushesMatch /\ AnswersHold

-------------------------------------------------------------------------------
\* Counting

\* A request lands an object.
LEMMA FitsLanded ==
    ASSUME NEW L, NEW M, NEW H, NEW O, Fits(L, M, H, O), NEW x, x \notin L, NEW g, g \notin H
    PROVE  Fits(L \union {x}, M, H \union {g}, O)
<1>1. /\ IsFiniteSet(L \union {x}) /\ Cardinality(L \union {x}) = Cardinality(L) + 1
      /\ IsFiniteSet(H \union {g}) /\ Cardinality(H \union {g}) = Cardinality(H) + 1
    BY FS_AddElement DEF Fits
<1>2. /\ Cardinality(L) \in Nat /\ Cardinality(M) \in Nat
      /\ Cardinality(H) \in Nat /\ Cardinality(O) \in Nat
    BY FS_CardinalityType DEF Fits
<1> QED BY <1>1, <1>2 DEF Fits

\* It lands an object and fails.
LEMMA FitsOrphaned ==
    ASSUME NEW L, NEW M, NEW H, NEW O, Fits(L, M, H, O), NEW x, x \notin L, x \notin O
    PROVE  Fits(L \union {x}, M, H, O \union {x})
<1>1. /\ IsFiniteSet(L \union {x}) /\ Cardinality(L \union {x}) = Cardinality(L) + 1
      /\ IsFiniteSet(O \union {x}) /\ Cardinality(O \union {x}) = Cardinality(O) + 1
    BY FS_AddElement DEF Fits
<1>2. /\ Cardinality(L) \in Nat /\ Cardinality(M) \in Nat
      /\ Cardinality(H) \in Nat /\ Cardinality(O) \in Nat
    BY FS_CardinalityType DEF Fits
<1> QED BY <1>1, <1>2 DEF Fits

\* It publishes what it has landed.
LEMMA FitsPublished ==
    ASSUME NEW L, NEW M, NEW H, NEW O, Fits(L, M, H, O), NEW i, i \notin M, NEW g \in H
    PROVE  Fits(L, M \union {i}, H \ {g}, O)
<1>1. /\ IsFiniteSet(M \union {i}) /\ Cardinality(M \union {i}) = Cardinality(M) + 1
      /\ IsFiniteSet(H \ {g}) /\ Cardinality(H \ {g}) = Cardinality(H) - 1
    BY FS_AddElement, FS_RemoveElement DEF Fits
<1>2. /\ Cardinality(L) \in Nat /\ Cardinality(M) \in Nat
      /\ Cardinality(H) \in Nat /\ Cardinality(O) \in Nat
    BY FS_CardinalityType DEF Fits
<1> QED BY <1>1, <1>2 DEF Fits

\* It fails to publish.
LEMMA FitsAbandoned ==
    ASSUME NEW L, NEW M, NEW H, NEW O, Fits(L, M, H, O), NEW x, x \notin O, NEW g \in H
    PROVE  Fits(L, M, H \ {g}, O \union {x})
<1>1. /\ IsFiniteSet(O \union {x}) /\ Cardinality(O \union {x}) = Cardinality(O) + 1
      /\ IsFiniteSet(H \ {g}) /\ Cardinality(H \ {g}) = Cardinality(H) - 1
    BY FS_AddElement, FS_RemoveElement DEF Fits
<1>2. /\ Cardinality(L) \in Nat /\ Cardinality(M) \in Nat
      /\ Cardinality(H) \in Nat /\ Cardinality(O) \in Nat
    BY FS_CardinalityType DEF Fits
<1> QED BY <1>1, <1>2 DEF Fits

-------------------------------------------------------------------------------
\* Requests, pushes and messages

LEMMA HandlingKinds ==
    ASSUME NEW h \in Handling \union {Idle}
    PROVE  /\ h.phase \in {"idle", "named", "landed"}
           /\ h = Idle <=> h.phase = "idle"
           /\ h # Idle => h.object \in ObjectName /\ h.object.event \in Events
  BY DEF Handling, Idle, ObjectName

LEMMA PushingKinds ==
    ASSUME NEW p \in Pushing \union {Idle}
    PROVE  p # Idle => /\ p.object \in ObjectName
                       /\ p.message \in Nat
  BY DEF Pushing, Idle

\* How request changes when a handler goes on; what it had in hand is seen from its phase.
LEMMA RequestEffect ==
    ASSUME TypeOK, NEW g \in Handlers, NEW h \in Handling \union {Idle},
           request' = [request EXCEPT ![g] = h]
    PROVE  /\ request' \in [Handlers -> Handling \union {Idle}]
           /\ request'[g] = h
           /\ \A f \in Handlers \ {g} : request'[f] = request[f]
           /\ HasLanded(g)' <=> h.phase = "landed"
           /\ \A f \in Handlers \ {g} : HasLanded(f)' <=> HasLanded(f)
  BY DEF TypeOK, HasLanded

LEMMA InHandPhases ==
    ASSUME TypeOK, NEW e
    PROVE  InHand(e) = {g \in Handlers : HasLanded(g) /\ request[g].object.event = e}
<1>1. \A g \in Handlers : HasLanded(g) => request[g] # Idle
    BY DEF HasLanded, Idle
<1> QED BY <1>1 DEF InHand, HasLanded

LEMMA NewMessageType ==
    ASSUME NEW e \in Events \union Malformed
    PROVE  /\ NewMessage(e) \in Message
           /\ NewMessage(e).event = e
           /\ NewMessage(e).state = "ready"
           /\ NewMessage(e).attempts = 0
  BY IngestAssumption DEF NewMessage, Message

\* A message is published.
LEMMA AppendEffect ==
    ASSUME TypeOK, NEW e \in Events \union Malformed, topic' = Append(topic, NewMessage(e))
    PROVE  /\ topic' \in Seq(Message)
           /\ Len(topic) + 1 \notin DOMAIN topic
           /\ DOMAIN topic' = DOMAIN topic \union {Len(topic) + 1}
           /\ topic'[Len(topic) + 1] = NewMessage(e)
           /\ \A i \in DOMAIN topic : topic'[i] = topic[i]
           /\ MessagesOf(e)' = MessagesOf(e) \union {Len(topic) + 1}
           /\ Len(topic) + 1 \notin MessagesOf(e)
           /\ \A f : f # e => MessagesOf(f)' = MessagesOf(f)
<1>1. topic \in Seq(Message) /\ NewMessage(e) \in Message /\ NewMessage(e).event = e
    BY NewMessageType DEF TypeOK
<1>2. /\ topic' \in Seq(Message)
      /\ Len(topic') = Len(topic) + 1
      /\ \A i \in 1..Len(topic) : topic'[i] = topic[i]
      /\ topic'[Len(topic) + 1] = NewMessage(e)
    BY <1>1, AppendProperties
<1>3. /\ DOMAIN topic = 1..Len(topic) /\ DOMAIN topic' = 1..Len(topic') /\ Len(topic) \in Nat
    BY <1>1, <1>2, LenProperties
<1>4. Len(topic) + 1 \notin DOMAIN topic /\ DOMAIN topic' = DOMAIN topic \union {Len(topic) + 1}
    BY <1>2, <1>3
<1> QED BY <1>1, <1>2, <1>3, <1>4 DEF MessagesOf

\* A message m takes the place of message i.
LEMMA UpdateEffect ==
    ASSUME TypeOK, NEW i \in DOMAIN topic, NEW m \in Message, m.event = topic[i].event,
           topic' = [topic EXCEPT ![i] = m]
    PROVE  /\ topic' \in Seq(Message)
           /\ DOMAIN topic' = DOMAIN topic
           /\ topic'[i] = m
           /\ \A j \in DOMAIN topic : topic'[j].event = topic[j].event
           /\ \A j \in DOMAIN topic \ {i} : topic'[j] = topic[j]
           /\ \A f : MessagesOf(f)' = MessagesOf(f)
<1>1. topic \in Seq(Message) /\ i \in 1..Len(topic)
    BY LenProperties DEF TypeOK
<1>2. topic' \in Seq(Message)
    BY <1>1, ExceptSeq
<1>3. /\ DOMAIN topic' = DOMAIN topic /\ topic'[i] = m
      /\ \A j \in DOMAIN topic \ {i} : topic'[j] = topic[j]
    OBVIOUS
<1> QED BY <1>2, <1>3 DEF MessagesOf

LEMMA MessageFields ==
    ASSUME TypeOK, NEW i \in DOMAIN topic
    PROVE  /\ topic[i] \in Message
           /\ topic[i].event \in Events \union Malformed
           /\ topic[i].state \in {"ready", "out", "acked", "dead"}
           /\ topic[i].attempts \in 0..MaxAttempts
<1>1. topic[i] \in Message
    BY LenProperties, ElementOfSeq DEF TypeOK
<1> QED BY <1>1 DEF Message

-------------------------------------------------------------------------------
LEMMA InitIInv == Init => IInv
<1>1. SUFFICES ASSUME Init PROVE IInv
    OBVIOUS
<1>2. /\ topic = <<>> /\ landing = {} /\ bronze = {} /\ orphaned = {} /\ accepted = {}
      /\ \A g \in Handlers : request[g] = Idle
      /\ \A c \in Consumers : push[c] = Idle
    BY <1>1 DEF Init
<1>3. TypeOK
    BY <1>1, <1>2, IngestAssumption DEF Init, TypeOK
<1>4. LandingFits
    <2>1. SUFFICES ASSUME NEW e \in Events
                   PROVE  Fits(Landed(e), MessagesOf(e), InHand(e), Orphaned(e))
      BY DEF LandingFits
    <2>2. Landed(e) = {} /\ MessagesOf(e) = {} /\ InHand(e) = {} /\ Orphaned(e) = {}
      BY <1>2 DEF Landed, MessagesOf, InHand, Orphaned
    <2> QED BY <2>2, FS_EmptySet DEF Fits
<1>5. RequestsOwn /\ MessagesInv /\ PushesMatch /\ AnswersHold
    BY <1>2 DEF RequestsOwn, HasLanded, Idle, MessagesInv, PushesMatch, AnswersHold
<1> QED BY <1>3, <1>4, <1>5 DEF IInv

-------------------------------------------------------------------------------
\* What holds of objects and messages stays when both only grow.
LEMMA Growth ==
    ASSUME landing \subseteq landing', DOMAIN topic \subseteq DOMAIN topic',
           \A i \in DOMAIN topic : topic'[i].event = topic[i].event
    PROVE  \A e : /\ (Landed(e) # {} => Landed(e)' # {})
                  /\ (MessagesOf(e) # {} => MessagesOf(e)' # {})
  BY DEF Landed, MessagesOf

\* The steps of the gateway before it publishes leave the topic, the pushes and the
\* answers alone.
LEMMA BeforePublish ==
    ASSUME IInv, landing \subseteq landing', UNCHANGED <<bronze, topic, push, accepted>>
    PROVE  MessagesInv' /\ PushesMatch' /\ AnswersHold'
<1>1. \A e : /\ (Landed(e) # {} => Landed(e)' # {})
             /\ (MessagesOf(e) # {} => MessagesOf(e)' # {})
    BY Growth
<1>2. MessagesInv'
    BY <1>1 DEF IInv, MessagesInv
<1>3. PushesMatch'
    BY DEF IInv, PushesMatch
<1>4. AnswersHold'
    BY <1>1 DEF IInv, AnswersHold
<1> QED BY <1>2, <1>3, <1>4

\* The requests in hand change with the one handler that moves.
LEMMA InHandStep ==
    ASSUME TypeOK, TypeOK', NEW g \in Handlers,
           \A f \in Handlers \ {g} : request'[f] = request[f]
    PROVE  \A e : InHand(e)' = {f \in InHand(e) : f # g}
                \union {f \in {g} : HasLanded(g)' /\ request'[g].object.event = e}
<1>1. \A e : /\ InHand(e) = {f \in Handlers : HasLanded(f) /\ request[f].object.event = e}
             /\ InHand(e)' = {f \in Handlers : HasLanded(f)' /\ request'[f].object.event = e}
    <2>1. \A f \in Handlers : HasLanded(f) => request[f] # Idle
      BY DEF HasLanded, Idle
    <2>2. \A f \in Handlers : HasLanded(f)' => request'[f] # Idle
      BY DEF HasLanded, Idle
    <2> QED BY <2>1, <2>2 DEF InHand, HasLanded
<1>2. \A f \in Handlers \ {g} : HasLanded(f)' <=> HasLanded(f)
    BY DEF HasLanded
<1> QED BY <1>1, <1>2

LEMMA ReceiveKeeps ==
    ASSUME IInv, NEW g \in Handlers, NEW e \in Events, ReceiveRequest(g, e)
    PROVE  IInv'
<1> DEFINE h == [phase |-> "named", object |-> [event |-> e, hour |-> hour]]
<1>1. /\ request[g] = Idle /\ requests < MaxRequests
      /\ requests' = requests + 1
      /\ request' = [request EXCEPT ![g] = h]
      /\ UNCHANGED <<hour, landing, bronze, topic, push, accepted, orphaned>>
    BY DEF ReceiveRequest
<1>2. TypeOK
    BY DEF IInv
<1>3. h \in Handling \union {Idle} /\ h.phase = "named"
    BY <1>2 DEF TypeOK, Handling, ObjectName
<1> HIDE DEF h
<1>4. /\ request' \in [Handlers -> Handling \union {Idle}]
      /\ \A f \in Handlers \ {g} : request'[f] = request[f]
      /\ ~HasLanded(g)'
      /\ \A f \in Handlers \ {g} : HasLanded(f)' <=> HasLanded(f)
    BY <1>1, <1>2, <1>3, RequestEffect
<1>5. requests' \in 0..MaxRequests
    BY <1>1, <1>2, IngestAssumption DEF TypeOK
<1>6. TypeOK'
    BY <1>1, <1>2, <1>4, <1>5 DEF TypeOK
<1>7. \A f : InHand(f)' = InHand(f)
    <2>1. \A f : g \notin InHand(f)
      BY <1>1 DEF InHand
    <2> QED BY <1>2, <1>4, <1>6, <2>1, InHandStep
<1>8. LandingFits'
    BY <1>1, <1>7 DEF IInv, LandingFits, Landed, MessagesOf, Orphaned
<1>9. RequestsOwn'
    BY <1>1, <1>4 DEF IInv, RequestsOwn
<1>10. MessagesInv' /\ PushesMatch' /\ AnswersHold'
    BY <1>1, BeforePublish
<1> QED BY <1>6, <1>8, <1>9, <1>10 DEF IInv

LEMMA LandKeeps ==
    ASSUME IInv, NEW g \in Handlers, Land(g)
    PROVE  IInv'
<1> DEFINE o == request[g].object
           h == [request[g] EXCEPT !.phase = "landed"]
<1>1. /\ request[g] # Idle /\ request[g].phase = "named"
      /\ o \notin landing
      /\ landing' = landing \union {o}
      /\ request' = [request EXCEPT ![g] = h]
      /\ UNCHANGED <<hour, bronze, topic, push, accepted, orphaned, requests>>
    BY DEF Land
<1>2. TypeOK /\ request[g] \in Handling
    BY <1>1 DEF IInv, TypeOK
<1>3. /\ h \in Handling \union {Idle} /\ h.phase = "landed" /\ h.object = o
      /\ o \in ObjectName /\ o.event \in Events
    BY <1>2 DEF Handling, ObjectName
<1> HIDE DEF o, h
<1>4. /\ request' \in [Handlers -> Handling \union {Idle}]
      /\ request'[g] = h /\ HasLanded(g)'
      /\ \A f \in Handlers \ {g} : request'[f] = request[f]
      /\ \A f \in Handlers \ {g} : HasLanded(f)' <=> HasLanded(f)
    BY <1>1, <1>2, <1>3, RequestEffect
<1>5. TypeOK'
    BY <1>1, <1>2, <1>3, <1>4 DEF TypeOK
<1>6. \A f : InHand(f)' = IF f = o.event THEN InHand(f) \union {g} ELSE InHand(f)
    <2>1. \A f : g \notin InHand(f)
      BY <1>1 DEF InHand
    <2> QED BY <1>2, <1>3, <1>4, <1>5, <2>1, InHandStep
<1>7. LandingFits'
    <2>1. SUFFICES ASSUME NEW f \in Events
                   PROVE  Fits(Landed(f)', MessagesOf(f)', InHand(f)', Orphaned(f)')
      BY DEF LandingFits
    <2>2. /\ Fits(Landed(f), MessagesOf(f), InHand(f), Orphaned(f))
          /\ MessagesOf(f)' = MessagesOf(f) /\ Orphaned(f)' = Orphaned(f)
      BY <1>1 DEF IInv, LandingFits, MessagesOf, Orphaned
    <2>3. CASE f = o.event
      <3>1. Landed(f)' = Landed(f) \union {o} /\ o \notin Landed(f)
        BY <1>1, <2>3 DEF Landed
      <3>2. InHand(f)' = InHand(f) \union {g} /\ g \notin InHand(f)
        BY <1>1, <1>6, <2>3 DEF InHand
      <3> QED BY <2>2, <3>1, <3>2, FitsLanded
    <2>4. CASE f # o.event
      <3>1. Landed(f)' = Landed(f) /\ InHand(f)' = InHand(f)
        BY <1>1, <1>6, <2>4 DEF Landed
      <3> QED BY <2>2, <3>1
    <2> QED BY <2>3, <2>4
<1>8. RequestsOwn'
    <2>1. o \notin orphaned
      BY <1>1, <1>2 DEF TypeOK
    <2>2. \A f \in Handlers : HasLanded(f) => request[f].object # o
      BY <1>1 DEF IInv, RequestsOwn
    <2> QED BY <1>1, <1>3, <1>4, <2>1, <2>2 DEF IInv, RequestsOwn
<1>9. MessagesInv' /\ PushesMatch' /\ AnswersHold'
    BY <1>1, BeforePublish
<1> QED BY <1>5, <1>7, <1>8, <1>9 DEF IInv

\* A handler that ends without a publish has nothing in hand any more.
LEMMA LandFailsKeeps ==
    ASSUME IInv, NEW g \in Handlers, LandFails(g)
    PROVE  IInv'
<1> DEFINE o == request[g].object
<1>1. /\ request[g] # Idle /\ request[g].phase = "named"
      /\ \/ UNCHANGED <<landing, orphaned>>
         \/ /\ o \notin landing
            /\ landing' = landing \union {o}
            /\ orphaned' = orphaned \union {o}
      /\ request' = [request EXCEPT ![g] = Idle]
      /\ UNCHANGED <<hour, bronze, topic, push, accepted, requests>>
    BY DEF LandFails
<1>2. TypeOK /\ request[g] \in Handling
    BY <1>1 DEF IInv, TypeOK
<1>3. o \in ObjectName /\ o.event \in Events /\ Idle.phase = "idle"
    BY <1>2 DEF Handling, ObjectName, Idle
<1> HIDE DEF o
<1>4. /\ request' \in [Handlers -> Handling \union {Idle}]
      /\ ~HasLanded(g)'
      /\ \A f \in Handlers \ {g} : request'[f] = request[f]
      /\ \A f \in Handlers \ {g} : HasLanded(f)' <=> HasLanded(f)
    BY <1>1, <1>2, <1>3, RequestEffect
<1>5. TypeOK'
    BY <1>1, <1>2, <1>3, <1>4 DEF TypeOK
<1>6. \A f : InHand(f)' = InHand(f)
    <2>1. \A f : g \notin InHand(f)
      BY <1>1 DEF InHand
    <2> QED BY <1>2, <1>4, <1>5, <2>1, InHandStep
<1>7. LandingFits'
    <2>1. SUFFICES ASSUME NEW f \in Events
                   PROVE  Fits(Landed(f)', MessagesOf(f)', InHand(f)', Orphaned(f)')
      BY DEF LandingFits
    <2>2. /\ Fits(Landed(f), MessagesOf(f), InHand(f), Orphaned(f))
          /\ MessagesOf(f)' = MessagesOf(f) /\ InHand(f)' = InHand(f)
      BY <1>1, <1>6 DEF IInv, LandingFits, MessagesOf
    <2>3. CASE f = o.event /\ o \notin landing /\ landing' = landing \union {o}
               /\ orphaned' = orphaned \union {o}
      <3>1. /\ Landed(f)' = Landed(f) \union {o} /\ o \notin Landed(f)
            /\ Orphaned(f)' = Orphaned(f) \union {o} /\ o \notin Orphaned(f)
        BY <1>2, <2>3 DEF Landed, Orphaned, TypeOK
      <3> QED BY <2>2, <3>1, FitsOrphaned
    <2>4. CASE f # o.event \/ UNCHANGED <<landing, orphaned>>
      <3>1. Landed(f)' = Landed(f) /\ Orphaned(f)' = Orphaned(f)
        BY <1>1, <2>4 DEF Landed, Orphaned
      <3> QED BY <2>2, <3>1
    <2> QED BY <1>1, <2>3, <2>4
<1>8. RequestsOwn'
    <2>1. \A f \in Handlers : HasLanded(f) => request[f].object \in landing' \ orphaned'
      BY <1>1 DEF IInv, RequestsOwn
    <2> QED BY <1>4, <2>1 DEF IInv, RequestsOwn
<1>9. MessagesInv' /\ PushesMatch' /\ AnswersHold'
    BY <1>1, BeforePublish
<1> QED BY <1>5, <1>7, <1>8, <1>9 DEF IInv

\* What a publish does to messages and answers; o is an object that was landed.
LEMMA PublishedKeeps ==
    ASSUME IInv, TypeOK', NEW o \in landing,
           topic' = Append(topic, NewMessage(o.event)),
           accepted' \in {accepted, accepted \union {o.event}},
           UNCHANGED <<landing, bronze, push>>
    PROVE  MessagesInv' /\ PushesMatch' /\ AnswersHold'
<1>1. TypeOK /\ o.event \in Events
    BY DEF IInv, TypeOK, ObjectName
<1>2. /\ DOMAIN topic' = DOMAIN topic \union {Len(topic) + 1}
      /\ topic'[Len(topic) + 1] = NewMessage(o.event)
      /\ \A i \in DOMAIN topic : topic'[i] = topic[i]
      /\ MessagesOf(o.event)' = MessagesOf(o.event) \union {Len(topic) + 1}
    BY <1>1, AppendEffect
<1>3. /\ NewMessage(o.event).event = o.event
      /\ NewMessage(o.event).state = "ready"
      /\ NewMessage(o.event).attempts = 0
    BY <1>1, NewMessageType
<1>4. \A e : Landed(e)' = Landed(e) /\ (MessagesOf(e) # {} => MessagesOf(e)' # {})
    BY <1>2, Growth DEF Landed
<1>5. Landed(o.event)' # {}
    BY DEF Landed
<1>6. MessagesInv'
    BY <1>2, <1>3, <1>4, <1>5, IngestAssumption DEF IInv, MessagesInv
<1>7. PushesMatch'
    BY <1>1, <1>2 DEF IInv, PushesMatch, TypeOK
<1>8. AnswersHold'
    <2>1. \A e \in accepted' : Landed(e)' # {} /\ MessagesOf(e)' # {}
      BY <1>2, <1>4, <1>5 DEF IInv, AnswersHold
    <2>2. \A i \in DOMAIN topic' : topic'[i].state = "acked" =>
                \E b \in bronze' : b.event = topic'[i].event
      BY <1>2, <1>3 DEF IInv, AnswersHold
    <2>3. \A b \in bronze' : MessagesOf(b.event)' # {} /\ Landed(b.event)' # {}
      BY <1>4 DEF IInv, AnswersHold
    <2> QED BY <2>1, <2>2, <2>3 DEF AnswersHold
<1> QED BY <1>6, <1>7, <1>8

\* The request of a handler ends after it has landed its object.
LEMMA EndOfRequest ==
    ASSUME IInv, NEW g \in Handlers, HasLanded(g), request' = [request EXCEPT ![g] = Idle]
    PROVE  /\ request' \in [Handlers -> Handling \union {Idle}]
           /\ ~HasLanded(g)'
           /\ \A f \in Handlers \ {g} : request'[f] = request[f]
           /\ \A f \in Handlers \ {g} : HasLanded(f)' <=> HasLanded(f)
           /\ request[g].object \in landing \ orphaned
           /\ request[g].object.event \in Events
           /\ \A f \in Handlers \ {g} : HasLanded(f) => request[f].object # request[g].object
<1>1. TypeOK /\ Idle \in Handling \union {Idle} /\ Idle.phase = "idle"
    BY DEF IInv, Idle
<1>2. /\ request' \in [Handlers -> Handling \union {Idle}]
      /\ ~HasLanded(g)'
      /\ \A f \in Handlers \ {g} : request'[f] = request[f]
      /\ \A f \in Handlers \ {g} : HasLanded(f)' <=> HasLanded(f)
    BY <1>1, RequestEffect
<1>3. request[g].object \in landing \ orphaned
    BY DEF IInv, RequestsOwn
<1>4. request[g].object.event \in Events
    BY <1>1, <1>3 DEF TypeOK, ObjectName
<1>5. \A f \in Handlers \ {g} : HasLanded(f) => request[f].object # request[g].object
    BY DEF IInv, RequestsOwn
<1> QED BY <1>2, <1>3, <1>4, <1>5

\* A handler publishes what it has in hand, or leaves it behind.
LEMMA LeavesHand ==
    ASSUME IInv, TypeOK', NEW g \in Handlers, HasLanded(g),
           request' = [request EXCEPT ![g] = Idle],
           UNCHANGED landing,
           \/ /\ topic' = Append(topic, NewMessage(request[g].object.event))
              /\ UNCHANGED orphaned
           \/ /\ orphaned' = orphaned \union {request[g].object}
              /\ UNCHANGED topic
    PROVE  LandingFits' /\ RequestsOwn'
<1> DEFINE o == request[g].object
<1>1. /\ ~HasLanded(g)'
      /\ \A f \in Handlers \ {g} : request'[f] = request[f]
      /\ \A f \in Handlers \ {g} : HasLanded(f)' <=> HasLanded(f)
      /\ o \in landing \ orphaned
      /\ o.event \in Events
      /\ \A f \in Handlers \ {g} : HasLanded(f) => request[f].object # o
    BY EndOfRequest
<1>2. \A f : InHand(f)' = InHand(f) \ {g}
    BY <1>1, InHandStep DEF IInv
<1>3. \A f : g \in InHand(f) <=> f = o.event
    BY InHandPhases DEF IInv
<1>4. \/ topic' = Append(topic, NewMessage(o.event)) /\ UNCHANGED orphaned
      \/ orphaned' = orphaned \union {o} /\ UNCHANGED topic
    OBVIOUS
<1> HIDE DEF o
<1>5. LandingFits'
    <2>1. SUFFICES ASSUME NEW f \in Events
                   PROVE  Fits(Landed(f)', MessagesOf(f)', InHand(f)', Orphaned(f)')
      BY DEF LandingFits
    <2>2. Fits(Landed(f), MessagesOf(f), InHand(f), Orphaned(f)) /\ Landed(f)' = Landed(f)
      BY DEF IInv, LandingFits, Landed
    <2>3. CASE f # o.event
      <3>1. InHand(f)' = InHand(f)
        BY <1>2, <1>3, <2>3
      <3>2. MessagesOf(f)' = MessagesOf(f)
        BY <1>1, <1>4, <2>3, AppendEffect DEF IInv, MessagesOf
      <3>3. Orphaned(f)' = Orphaned(f)
        BY <1>4, <2>3 DEF Orphaned
      <3> QED BY <2>2, <3>1, <3>2, <3>3
    <2>4. CASE f = o.event /\ topic' = Append(topic, NewMessage(o.event)) /\ UNCHANGED orphaned
      <3>1. /\ MessagesOf(f)' = MessagesOf(f) \union {Len(topic) + 1}
            /\ Len(topic) + 1 \notin MessagesOf(f)
        BY <1>1, <2>4, AppendEffect DEF IInv
      <3>2. InHand(f)' = InHand(f) \ {g} /\ g \in InHand(f) /\ Orphaned(f)' = Orphaned(f)
        BY <1>2, <1>3, <2>4 DEF Orphaned
      <3> QED BY <2>2, <3>1, <3>2, FitsPublished
    <2>5. CASE f = o.event /\ orphaned' = orphaned \union {o} /\ UNCHANGED topic
      <3>1. /\ Orphaned(f)' = Orphaned(f) \union {o} /\ o \notin Orphaned(f)
            /\ MessagesOf(f)' = MessagesOf(f)
        BY <1>1, <2>5 DEF Orphaned, MessagesOf
      <3>2. InHand(f)' = InHand(f) \ {g} /\ g \in InHand(f)
        BY <1>2, <1>3, <2>5
      <3> QED BY <2>2, <3>1, <3>2, FitsAbandoned
    <2> QED BY <1>4, <2>3, <2>4, <2>5
<1>6. RequestsOwn'
    <2>1. \A f \in Handlers : HasLanded(f)' =>
                f # g /\ HasLanded(f) /\ request'[f] = request[f] /\ request[f].object # o
      BY <1>1
    <2>2. \A f \in Handlers : HasLanded(f)' => request'[f].object \in landing' \ orphaned'
      BY <1>4, <2>1 DEF IInv, RequestsOwn
    <2>3. \A f, h \in Handlers :
                HasLanded(f)' /\ HasLanded(h)' /\ request'[f].object = request'[h].object => f = h
      BY <2>1 DEF IInv, RequestsOwn
    <2> QED BY <2>2, <2>3 DEF RequestsOwn
<1> QED BY <1>5, <1>6

LEMMA PublishKeeps ==
    ASSUME IInv, NEW g \in Handlers, Publish(g)
    PROVE  IInv'
<1>1. /\ HasLanded(g)
      /\ topic' = Append(topic, NewMessage(request[g].object.event))
      /\ accepted' = accepted \union {request[g].object.event}
      /\ request' = [request EXCEPT ![g] = Idle]
      /\ UNCHANGED <<hour, landing, bronze, push, orphaned, requests>>
    BY DEF Publish, HasLanded
<1>2. /\ request' \in [Handlers -> Handling \union {Idle}]
      /\ request[g].object \in landing
      /\ request[g].object.event \in Events
    BY <1>1, EndOfRequest
<1>3. TypeOK'
    <2>1. topic' \in Seq(Message) /\ DOMAIN topic \subseteq DOMAIN topic'
      BY <1>1, <1>2, AppendEffect DEF IInv
    <2> QED BY <1>1, <1>2, <2>1 DEF IInv, TypeOK
<1>4. LandingFits' /\ RequestsOwn'
    BY <1>1, <1>3, LeavesHand
<1>5. MessagesInv' /\ PushesMatch' /\ AnswersHold'
    BY <1>1, <1>2, <1>3, PublishedKeeps
<1> QED BY <1>3, <1>4, <1>5 DEF IInv

LEMMA PublishFailsKeeps ==
    ASSUME IInv, NEW g \in Handlers, PublishFails(g)
    PROVE  IInv'
<1>1. /\ HasLanded(g)
      /\ \/ /\ orphaned' = orphaned \union {request[g].object}
            /\ UNCHANGED topic
         \/ /\ topic' = Append(topic, NewMessage(request[g].object.event))
            /\ UNCHANGED orphaned
      /\ request' = [request EXCEPT ![g] = Idle]
      /\ UNCHANGED <<hour, landing, bronze, push, accepted, requests>>
    BY DEF PublishFails, HasLanded
<1>2. /\ request' \in [Handlers -> Handling \union {Idle}]
      /\ request[g].object \in landing
      /\ request[g].object.event \in Events
    BY <1>1, EndOfRequest
<1>3. TypeOK'
    <2>1. topic' \in Seq(Message) /\ DOMAIN topic \subseteq DOMAIN topic'
      BY <1>1, <1>2, AppendEffect DEF IInv, TypeOK
    <2>2. orphaned' \subseteq landing'
      BY <1>1, <1>2 DEF IInv, TypeOK
    <2> QED BY <1>1, <1>2, <2>1, <2>2 DEF IInv, TypeOK
<1>4. LandingFits' /\ RequestsOwn'
    BY <1>1, <1>3, LeavesHand
<1>5. MessagesInv' /\ PushesMatch' /\ AnswersHold'
    <2>1. CASE UNCHANGED topic
      BY <1>1, <2>1, BeforePublish
    <2>2. CASE topic' = Append(topic, NewMessage(request[g].object.event))
      BY <1>1, <1>2, <1>3, <2>2, PublishedKeeps
    <2> QED BY <1>1, <2>1, <2>2
<1> QED BY <1>3, <1>4, <1>5 DEF IInv

-------------------------------------------------------------------------------
\* The subscription and the consumer

\* Steps that leave landing, the requests and the events of the messages alone keep the
\* account of the gateway.
LEMMA GatewayKept ==
    ASSUME IInv, UNCHANGED <<landing, request, orphaned>>,
           \A e \in Events : MessagesOf(e)' = MessagesOf(e)
    PROVE  LandingFits' /\ RequestsOwn'
<1>1. /\ \A e : Landed(e)' = Landed(e) /\ Orphaned(e)' = Orphaned(e)
      /\ \A e : InHand(e)' = InHand(e)
    BY DEF Landed, Orphaned, InHand
<1> QED BY <1>1 DEF IInv, LandingFits, RequestsOwn, HasLanded

LEMMA ForeignKeeps ==
    ASSUME IInv, NEW e \in Malformed, PublishForeign(e)
    PROVE  IInv'
<1>1. /\ topic' = Append(topic, NewMessage(e))
      /\ UNCHANGED <<hour, landing, bronze, request, push, accepted, orphaned, requests>>
    BY DEF PublishForeign
<1>2. TypeOK /\ e \notin Events
    BY IngestAssumption DEF IInv
<1>3. /\ topic' \in Seq(Message)
      /\ DOMAIN topic' = DOMAIN topic \union {Len(topic) + 1}
      /\ topic'[Len(topic) + 1] = NewMessage(e)
      /\ \A i \in DOMAIN topic : topic'[i] = topic[i]
      /\ \A f : f # e => MessagesOf(f)' = MessagesOf(f)
    BY <1>1, <1>2, AppendEffect
<1>4. NewMessage(e).event = e /\ NewMessage(e).state = "ready" /\ NewMessage(e).attempts = 0
    BY NewMessageType
<1>5. TypeOK'
    BY <1>1, <1>2, <1>3 DEF TypeOK
<1>6. LandingFits' /\ RequestsOwn'
    BY <1>1, <1>2, <1>3, GatewayKept
<1>7. \A f : Landed(f)' = Landed(f) /\ (MessagesOf(f) # {} => MessagesOf(f)' # {})
    BY <1>1, <1>3, Growth DEF Landed
<1>8. MessagesInv'
    BY <1>2, <1>3, <1>4, <1>7, IngestAssumption DEF IInv, MessagesInv
<1>9. PushesMatch'
    BY <1>1, <1>2, <1>3 DEF IInv, PushesMatch, TypeOK
<1>10. AnswersHold'
    BY <1>1, <1>3, <1>4, <1>7 DEF IInv, AnswersHold
<1> QED BY <1>5, <1>6, <1>8, <1>9, <1>10 DEF IInv

LEMMA UpdateKeeps ==
    ASSUME IInv, TypeOK', NEW i \in DOMAIN topic, NEW m \in Message, m.event = topic[i].event,
           topic' = [topic EXCEPT ![i] = m],
           m.state = "ready" => m.attempts < MaxAttempts,
           m.state = "acked" => \E o \in bronze' : o.event = topic[i].event,
           bronze \subseteq bronze',
           \A o \in bronze' \ bronze : MessagesOf(o.event) # {} /\ Landed(o.event) # {},
           UNCHANGED <<landing, request, orphaned, accepted>>
    PROVE  LandingFits' /\ RequestsOwn' /\ MessagesInv' /\ AnswersHold'
<1>1. /\ DOMAIN topic' = DOMAIN topic
      /\ topic'[i] = m
      /\ \A j \in DOMAIN topic : topic'[j].event = topic[j].event
      /\ \A j \in DOMAIN topic \ {i} : topic'[j] = topic[j]
      /\ \A f : MessagesOf(f)' = MessagesOf(f)
    BY UpdateEffect DEF IInv
<1>2. LandingFits' /\ RequestsOwn'
    BY <1>1, GatewayKept
<1>3. \A f : Landed(f)' = Landed(f)
    BY DEF Landed
<1>4. MessagesInv'
    BY <1>1, <1>3 DEF IInv, MessagesInv
<1>5. AnswersHold'
    <2>1. \A e \in accepted' : Landed(e)' # {} /\ MessagesOf(e)' # {}
      BY <1>1, <1>3 DEF IInv, AnswersHold
    <2>2. \A j \in DOMAIN topic' : topic'[j].state = "acked" =>
                \E o \in bronze' : o.event = topic'[j].event
      BY <1>1 DEF IInv, AnswersHold
    <2>3. \A o \in bronze' : MessagesOf(o.event)' # {} /\ Landed(o.event)' # {}
      BY <1>1, <1>3 DEF IInv, AnswersHold
    <2> QED BY <2>1, <2>2, <2>3 DEF AnswersHold
<1> QED BY <1>2, <1>4, <1>5

LEMMA DeliverKeeps ==
    ASSUME IInv, NEW c \in Consumers, NEW i \in DOMAIN topic, Deliver(c, i)
    PROVE  IInv'
<1> DEFINE p == [phase |-> "named", message |-> i,
                 object |-> [event |-> topic[i].event, hour |-> hour]]
           m == [topic[i] EXCEPT !.state = "out", !.attempts = topic[i].attempts + 1]
<1>1. /\ topic[i].state = "ready"
      /\ topic' = [topic EXCEPT ![i].state = "out", ![i].attempts = @ + 1]
      /\ push' = IF topic[i].event \in Malformed THEN push ELSE [push EXCEPT ![c] = p]
      /\ UNCHANGED <<hour, landing, bronze, request, accepted, orphaned, requests>>
    BY DEF Deliver
<1>2. /\ TypeOK
      /\ topic[i].event \in Events \union Malformed /\ topic[i].attempts \in 0..MaxAttempts
      /\ topic[i].attempts < MaxAttempts
    BY <1>1, MessageFields DEF IInv, MessagesInv
<1>3. topic[i].attempts + 1 \in 0..MaxAttempts
    BY <1>2, IngestAssumption
<1>4. /\ m \in Message /\ m.event = topic[i].event /\ m.state = "out"
      /\ topic' = [topic EXCEPT ![i] = m]
    <2>1. m \in Message /\ m.event = topic[i].event /\ m.state = "out"
      BY <1>2, <1>3, MessageFields DEF Message
    <2> QED BY <1>1, <2>1
<1>5. /\ topic' \in Seq(Message)
      /\ DOMAIN topic' = DOMAIN topic
      /\ \A j \in DOMAIN topic : topic'[j].event = topic[j].event
    BY <1>2, <1>4, UpdateEffect
<1>6. i \in Nat
    BY <1>2, LenProperties DEF TypeOK
<1>7. /\ topic[i].event \notin Malformed => p \in Pushing
      /\ p.message = i /\ p.object.event = topic[i].event
    BY <1>2, <1>6 DEF TypeOK, Pushing, ObjectName
<1> HIDE DEF p, m
<1>8. /\ push' \in [Consumers -> Pushing \union {Idle}]
      /\ \A d \in Consumers : push'[d] = push[d] \/ push'[d] = p
    BY <1>1, <1>2, <1>7 DEF TypeOK
<1>9. TypeOK'
    BY <1>1, <1>2, <1>5, <1>7, <1>8 DEF TypeOK
<1>10. LandingFits' /\ RequestsOwn' /\ MessagesInv' /\ AnswersHold'
    BY <1>1, <1>4, <1>9, UpdateKeeps
<1>11. PushesMatch'
    <2>1. SUFFICES ASSUME NEW d \in Consumers, push'[d] # Idle
                   PROVE  push'[d].object.event = topic'[push'[d].message].event
      BY DEF PushesMatch
    <2>2. CASE push'[d] = p
      BY <2>2, <1>5, <1>7
    <2>3. CASE push'[d] = push[d]
      BY <2>1, <2>3, <1>2, <1>5 DEF IInv, PushesMatch, TypeOK
    <2> QED BY <2>2, <2>3, <1>8
<1> QED BY <1>9, <1>10, <1>11 DEF IInv

LEMMA GiveUpKeeps ==
    ASSUME IInv, NEW i \in DOMAIN topic, GiveUp(i)
    PROVE  IInv'
<1> DEFINE m == [topic[i] EXCEPT !.state = IF topic[i].attempts < MaxAttempts
                                            THEN "ready" ELSE "dead"]
<1>1. /\ topic' = [topic EXCEPT ![i] = m]
      /\ UNCHANGED <<hour, landing, bronze, request, push, accepted, orphaned, requests>>
    BY DEF GiveUp
<1>2. TypeOK /\ topic[i].attempts \in 0..MaxAttempts
    BY MessageFields DEF IInv
<1>3. /\ m \in Message /\ m.event = topic[i].event /\ m.state # "acked"
      /\ m.state = "ready" => m.attempts < MaxAttempts
    BY <1>2, MessageFields DEF Message
<1> HIDE DEF m
<1>4. /\ topic' \in Seq(Message)
      /\ DOMAIN topic' = DOMAIN topic
      /\ \A j \in DOMAIN topic : topic'[j].event = topic[j].event
    BY <1>1, <1>2, <1>3, UpdateEffect
<1>5. TypeOK'
    BY <1>1, <1>2, <1>4 DEF TypeOK
<1>6. LandingFits' /\ RequestsOwn' /\ MessagesInv' /\ AnswersHold'
    BY <1>1, <1>3, <1>5, UpdateKeeps
<1>7. PushesMatch'
    BY <1>1, <1>2, <1>4 DEF IInv, PushesMatch, TypeOK
<1> QED BY <1>5, <1>6, <1>7 DEF IInv

\* A handler of the consumer ends, with its object in bronze or not, and acknowledges the
\* message only if the object is there.
LEMMA PushEnds ==
    ASSUME IInv, NEW c \in Consumers, push[c] # Idle,
           bronze \subseteq bronze', bronze' \subseteq bronze \union {push[c].object},
           push' = [push EXCEPT ![c] = Idle],
           \/ UNCHANGED topic
           \/ /\ push[c].object \in bronze'
              /\ topic' = [topic EXCEPT ![push[c].message].state = "acked"],
           UNCHANGED <<hour, landing, request, accepted, orphaned, requests>>
    PROVE  IInv'
<1> DEFINE i == push[c].message
           o == push[c].object
           m == IF topic' = topic THEN topic[i] ELSE [topic[i] EXCEPT !.state = "acked"]
<1>1. /\ TypeOK
      /\ i \in DOMAIN topic
      /\ o \in ObjectName /\ o.event \in Events
      /\ o.event = topic[i].event
    <2>1. push[c] \in Pushing \union {Idle} /\ TypeOK /\ i \in DOMAIN topic
      BY DEF IInv, TypeOK
    <2>2. o \in ObjectName /\ o.event \in Events
      BY <2>1, PushingKinds DEF ObjectName
    <2> QED BY <2>1, <2>2 DEF IInv, PushesMatch
<1>2. topic' = [topic EXCEPT ![i] = m]
    <2>1. topic = [topic EXCEPT ![i] = topic[i]]
      BY <1>1, LenProperties DEF TypeOK
    <2> QED BY <2>1
<1>3. /\ m \in Message /\ m.event = topic[i].event
      /\ m.state = "ready" => m.attempts < MaxAttempts
      /\ m.state = "acked" => \E b \in bronze' : b.event = topic[i].event
    <2>1. CASE topic' = topic
      <3>1. m = topic[i]
        BY <2>1
      <3>2. topic[i].state = "ready" => topic[i].attempts < MaxAttempts
        BY <1>1 DEF IInv, MessagesInv
      <3>3. topic[i].state = "acked" => \E b \in bronze' : b.event = topic[i].event
        BY <1>1 DEF IInv, AnswersHold
      <3>4. topic[i] \in Message
        BY <1>1, MessageFields
      <3> HIDE DEF m
      <3> QED BY <3>1, <3>2, <3>3, <3>4
    <2>2. CASE topic' # topic
      <3>1. m = [topic[i] EXCEPT !.state = "acked"]
        BY <2>2
      <3>2. m \in Message /\ m.event = topic[i].event /\ m.state = "acked"
        BY <1>1, <3>1, MessageFields DEF Message
      <3>3. o \in bronze'
        BY <2>2
      <3> HIDE DEF m, o
      <3> QED BY <1>1, <3>2, <3>3
    <2> QED BY <2>1, <2>2
<1> HIDE DEF m, i, o
<1>4. /\ topic' \in Seq(Message)
      /\ DOMAIN topic' = DOMAIN topic
      /\ \A j \in DOMAIN topic : topic'[j].event = topic[j].event
    BY <1>1, <1>2, <1>3, UpdateEffect
<1>5. bronze' \subseteq bronze \union {o}
    BY DEF o
<1>6. /\ push' \in [Consumers -> Pushing \union {Idle}]
      /\ \A d \in Consumers : push'[d] # Idle => push'[d] = push[d]
    BY <1>1 DEF TypeOK
<1>7. TypeOK'
    BY <1>1, <1>4, <1>5, <1>6 DEF TypeOK
<1>8. \A b \in bronze' \ bronze : MessagesOf(b.event) # {} /\ Landed(b.event) # {}
    <2>1. MessagesOf(o.event) # {}
      BY <1>1 DEF MessagesOf
    <2>2. Landed(o.event) # {}
      BY <1>1 DEF IInv, MessagesInv
    <2> QED BY <1>5, <2>1, <2>2
<1>9. LandingFits' /\ RequestsOwn' /\ MessagesInv' /\ AnswersHold'
    BY <1>1, <1>2, <1>3, <1>7, <1>8, UpdateKeeps
<1>10. PushesMatch'
    BY <1>1, <1>4, <1>6 DEF IInv, PushesMatch, TypeOK
<1> QED BY <1>7, <1>9, <1>10 DEF IInv

LEMMA StoreKeeps ==
    ASSUME IInv, NEW c \in Consumers, Store(c) \/ StoreFails(c)
    PROVE  IInv'
<1>1. CASE Store(c)
    <2>1. /\ push[c] # Idle
          /\ bronze' = bronze \union {push[c].object}
          /\ push' = [push EXCEPT ![c] = Idle]
          /\ \/ topic' = [topic EXCEPT ![push[c].message].state = "acked"]
             \/ UNCHANGED topic
          /\ UNCHANGED <<hour, landing, request, accepted, orphaned, requests>>
      BY <1>1 DEF Store
    <2> QED BY <2>1, PushEnds
<1>2. CASE StoreFails(c)
    <2>1. /\ push[c] # Idle
          /\ bronze' \in {bronze, bronze \union {push[c].object}}
          /\ push' = [push EXCEPT ![c] = Idle]
          /\ UNCHANGED <<hour, landing, topic, request, accepted, orphaned, requests>>
      BY <1>2 DEF StoreFails
    <2>2. bronze \subseteq bronze' /\ bronze' \subseteq bronze \union {push[c].object}
      BY <2>1
    <2> QED BY <2>1, <2>2, PushEnds
<1> QED BY <1>1, <1>2

LEMMA TickKeeps ==
    ASSUME IInv, Tick
    PROVE  IInv'
<1>1. /\ hour < MaxHour /\ hour' = hour + 1
      /\ UNCHANGED <<landing, bronze, topic, request, push, accepted, orphaned, requests>>
    BY DEF Tick
<1>2. TypeOK'
    BY <1>1, IngestAssumption DEF IInv, TypeOK
<1>3. LandingFits' /\ RequestsOwn'
    <2>1. \A e : MessagesOf(e)' = MessagesOf(e)
      BY <1>1 DEF MessagesOf
    <2> QED BY <1>1, <2>1, GatewayKept
<1>4. MessagesInv' /\ PushesMatch' /\ AnswersHold'
    BY <1>1, BeforePublish
<1> QED BY <1>2, <1>3, <1>4 DEF IInv

-------------------------------------------------------------------------------
LEMMA NextIInv == IInv /\ [Next]_vars => IInv'
<1>1. SUFFICES ASSUME IInv, [Next]_vars PROVE IInv'
    OBVIOUS
<1>2. CASE UNCHANGED vars
    <2>1. UNCHANGED <<hour, landing, bronze, topic, request, push, accepted, orphaned, requests>>
      BY <1>2 DEF vars
    <2>2. TypeOK'
      BY <1>1, <2>1 DEF IInv, TypeOK
    <2>3. \A e : MessagesOf(e)' = MessagesOf(e)
      BY <2>1 DEF MessagesOf
    <2>4. LandingFits' /\ RequestsOwn'
      BY <1>1, <2>1, <2>3, GatewayKept
    <2>5. MessagesInv' /\ PushesMatch' /\ AnswersHold'
      BY <1>1, <2>1, BeforePublish
    <2> QED BY <2>2, <2>4, <2>5 DEF IInv
<1>3. ASSUME NEW g \in Handlers, NEW e \in Events, ReceiveRequest(g, e) PROVE IInv'
    BY <1>1, <1>3, ReceiveKeeps
<1>4. ASSUME NEW g \in Handlers, Land(g) \/ LandFails(g) \/ Publish(g) \/ PublishFails(g)
      PROVE  IInv'
    BY <1>1, <1>4, LandKeeps, LandFailsKeeps, PublishKeeps, PublishFailsKeeps
<1>5. ASSUME NEW e \in Malformed, PublishForeign(e) PROVE IInv'
    BY <1>1, <1>5, ForeignKeeps
<1>6. ASSUME NEW i \in DOMAIN topic, GiveUp(i) \/ \E c \in Consumers : Deliver(c, i) PROVE IInv'
    BY <1>1, <1>6, GiveUpKeeps, DeliverKeeps
<1>7. ASSUME NEW c \in Consumers, Store(c) \/ StoreFails(c) PROVE IInv'
    BY <1>1, <1>7, StoreKeeps
<1>8. CASE Tick
    BY <1>1, <1>8, TickKeeps
<1> QED BY <1>1, <1>2, <1>3, <1>4, <1>5, <1>6, <1>7, <1>8 DEF Next

LEMMA SpecIInv == Spec => []IInv
  BY InitIInv, NextIInv, PTL DEF Spec

\* The state keeps its types; in particular no message is pushed more often than the
\* subscription allows.
THEOREM IngestTypeCorrect == Spec => []TypeOK
<1>1. IInv => TypeOK
    BY DEF IInv
<1> QED BY <1>1, SpecIInv, PTL

\* Each landed object of an event is one message of the topic, one request in hand, or
\* orphaned by one failure.
THEOREM LandingIsAccounted == Spec => []LandingAccounted
<1>1. IInv => LandingAccounted
    BY DEF IInv, LandingFits, Fits, Orphaned, LandingAccounted
<1> QED BY <1>1, SpecIInv, PTL

\* An accepted event is on the topic and in landing, an acknowledged message is in bronze,
\* and bronze holds nothing that was not landed and published.
THEOREM AnswersCanBeTrusted == Spec => []AnswersHold
<1>1. IInv => AnswersHold
    BY DEF IInv
<1> QED BY <1>1, SpecIInv, PTL
===============================================================================
