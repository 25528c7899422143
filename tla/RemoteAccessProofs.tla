------------------------ MODULE RemoteAccessProofs ------------------------
(***************************************************************************)
(* Proofs about remote access, for any number of connections, failures and *)
(* settings, on either route.  Part 1: messages and sequences of them.     *)
(* Part 2: what one event does to the connections.  Part 3: the frames.    *)
(* Part 4: each event keeps the tables, connections and frames consistent. *)
(* Part 5: what the service and the relay know of a registration.          *)
(* Part 6: theorems.                                                       *)
(***************************************************************************)
EXTENDS RemoteAccess, SequenceTheorems, TLAPS

-----------------------------------------------------------------------------
(* Part 1.                                                                  *)

\* Reading a queue of messages takes none but its own.
LEMMA Reading ==
    ASSUME NEW q \in Seq(Message), q # <<>>
    PROVE  Head(q) \in Elems(q) /\ Tail(q) \in Seq(Message) /\ Elems(Tail(q)) \subseteq Elems(q)
<1>1. /\ Len(q) \in Nat /\ Len(q) # 0 /\ DOMAIN q = 1..Len(q)
      /\ Tail(q) \in Seq(Message) /\ Len(Tail(q)) = Len(q) - 1
      /\ \A i \in 1..Len(Tail(q)) : Tail(q)[i] = q[i + 1]
    BY HeadTailProperties, LenProperties, EmptySeq
<1>2. DOMAIN Tail(q) = 1..Len(Tail(q))
    BY <1>1, LenProperties
<1>3. \A i \in 1..Len(Tail(q)) : i + 1 \in 1..Len(q)
    BY <1>1
<1>4. Head(q) = q[1] /\ 1 \in 1..Len(q)
    BY <1>1
<1> QED BY <1>1, <1>2, <1>3, <1>4 DEF Elems

\* A queue with more written to it.
LEMMA Writing ==
    ASSUME NEW q \in Seq(Message), NEW r \in Seq(Message)
    PROVE  q \o r \in Seq(Message) /\ Elems(q \o r) \subseteq Elems(q) \cup Elems(r)
<1>1. /\ q \o r \in Seq(Message) /\ Len(q \o r) = Len(q) + Len(r)
      /\ \A i \in 1..(Len(q) + Len(r)) :
            (q \o r)[i] = IF i <= Len(q) THEN q[i] ELSE r[i - Len(q)]
    BY ConcatProperties
<1>2. /\ Len(q) \in Nat /\ Len(r) \in Nat
      /\ DOMAIN q = 1..Len(q) /\ DOMAIN r = 1..Len(r) /\ DOMAIN (q \o r) = 1..Len(q \o r)
    BY <1>1, LenProperties
<1>3. ASSUME NEW i \in 1..(Len(q) + Len(r))
      PROVE  (q \o r)[i] \in Elems(q) \cup Elems(r)
  <2>1. CASE i <= Len(q)
      BY <1>1, <1>2, <2>1 DEF Elems
  <2>2. CASE ~(i <= Len(q))
    <3>1. i - Len(q) \in 1..Len(r)
        BY <1>2, <2>2
    <3> QED BY <1>1, <1>2, <2>2, <3>1 DEF Elems
  <2> QED BY <2>1, <2>2
<1> QED BY <1>1, <1>2, <1>3 DEF Elems

\* One message, or none.
LEMMA Short ==
    /\ <<>> \in Seq(Message) /\ Elems(<<>>) = {}
    /\ \A m \in Message : <<m>> \in Seq(Message) /\ Elems(<<m>>) = {m}
BY DEF Elems

\* A frame names its writer and is no control message.
LEMMA Frames ==
    /\ \A t \in Control : Says(t) \in Message
    /\ \A f \in Sockets : Frame(f) \in Message
    /\ \A f \in Sockets : \A t \in Control : Frame(f) # Says(t)
    /\ \A f, g \in Sockets : Frame(f) = Frame(g) => f = g
    /\ Close \in Message
    /\ \A f \in Sockets : Frame(f).from = f /\ Frame(f) # Close
<1>1. \A t \in Control : t # "frame"
    BY DEF Control
<1>2. "close" \in Control
    BY DEF Control
<1> QED BY <1>1, <1>2 DEF Says, Frame, Message, Close

-----------------------------------------------------------------------------
(* Part 2.                                                                  *)

\* What says adds to a queue.
Said(s, says) == IF s \in DOMAIN says THEN {says[s]} ELSE {}

\* One event at the relay (send, close, the close event of the ws library).
LEMMA RelayEffect ==
    ASSUME SocketsTypeOK, NEW got, NEW gone, NEW says, NEW closes,
           \A s \in got \cap Sockets : up[s] # <<>>,
           \A s \in DOMAIN says : says[s] \in Message,
           RelayDoes(got, gone, says, closes)
    PROVE  /\ peer' = peer
           /\ relay' \in [Sockets -> RelayEnds]
           /\ up' \in [Sockets -> Seq(Message)] /\ down' \in [Sockets -> Seq(Message)]
           /\ dead' \in SUBSET Sockets
           /\ \A s \in Sockets : IF s \in gone THEN relay'[s] = "none"
                                 ELSE relay'[s] = "none" <=> relay[s] = "none"
           /\ \A s \in Sockets : Elems(up'[s]) \subseteq Elems(up[s])
           /\ \A s \in Sockets :
                 Elems(down'[s]) \subseteq Elems(down[s]) \cup {Close} \cup Said(s, says)
<1> DEFINE shut == {s \in closes \ gone : relay[s] = "open"}
           fin  == {s \in gone : relay[s] = "open" /\ peer[s] # "none"}
           word(s) == IF s \in DOMAIN says /\ relay[s] = "open" THEN <<says[s]>> ELSE <<>>
           tail(s) == IF s \in shut \cup fin THEN <<Close>> ELSE <<>>
<1>1. /\ relay' = [s \in Sockets |-> CASE s \in gone -> "none"
                                       [] s \in shut -> "closing"
                                       [] OTHER -> relay[s]]
      /\ up' = [s \in Sockets |-> IF s \in gone THEN Unread(up[s], s, peer)
                                    ELSE IF s \in got THEN Tail(up[s]) ELSE up[s]]
      /\ down' = [s \in Sockets |-> IF peer[s] = "none" /\ s \notin dead \ gone THEN <<>>
                                    ELSE down[s] \o word(s) \o tail(s)]
      /\ dead' = dead \ {s \in gone : peer[s] = "none"}
      /\ peer' = peer
    BY DEF RelayDoes
<1>2. /\ relay \in [Sockets -> RelayEnds] /\ dead \in SUBSET Sockets
      /\ up \in [Sockets -> Seq(Message)] /\ down \in [Sockets -> Seq(Message)]
    BY DEF SocketsTypeOK
<1>3. relay' \in [Sockets -> RelayEnds] /\ dead' \in SUBSET Sockets
    BY <1>1, <1>2 DEF RelayEnds
<1>4. \A s \in Sockets : IF s \in gone THEN relay'[s] = "none"
                         ELSE relay'[s] = "none" <=> relay[s] = "none"
    BY <1>1, <1>2
<1>5. ASSUME NEW s \in Sockets
      PROVE  /\ up'[s] \in Seq(Message)
             /\ Elems(up'[s]) \subseteq Elems(up[s])
             /\ down'[s] \in Seq(Message)
             /\ Elems(down'[s]) \subseteq Elems(down[s]) \cup {Close} \cup Said(s, says)
  <2>1. up[s] \in Seq(Message) /\ down[s] \in Seq(Message)
      BY <1>2
  <2>2. up'[s] \in {<<>>, up[s]} \/ (s \in got /\ up'[s] = Tail(up[s]))
      BY <1>1 DEF Unread
  <2>3. /\ up'[s] \in Seq(Message)
        /\ Elems(up'[s]) \subseteq Elems(up[s])
      BY <2>1, <2>2, Reading, Short
  <2>4. word(s) \in Seq(Message) /\ Elems(word(s)) \subseteq Said(s, says)
      BY Short DEF Said
  <2>5. tail(s) \in Seq(Message) /\ Elems(tail(s)) \subseteq {Close}
      BY Short, Frames
  <2> HIDE DEF word, tail
  <2>6. /\ down[s] \o word(s) \in Seq(Message)
        /\ Elems(down[s] \o word(s)) \subseteq Elems(down[s]) \cup Said(s, says)
      BY <2>1, <2>4, Writing
  <2>7. /\ (down[s] \o word(s)) \o tail(s) \in Seq(Message)
        /\ Elems((down[s] \o word(s)) \o tail(s))
              \subseteq Elems(down[s] \o word(s)) \cup Elems(tail(s))
      BY <2>5, <2>6, Writing
  <2>8. down'[s] \in {<<>>, (down[s] \o word(s)) \o tail(s)}
      BY <1>1
  <2> QED BY <2>3, <2>5, <2>6, <2>7, <2>8, Short
<1>6. /\ up' \in [Sockets -> Seq(Message)] /\ down' \in [Sockets -> Seq(Message)]
  <2>1. DOMAIN up' = Sockets /\ up' = [s \in Sockets |-> up'[s]]
      BY <1>1
  <2>2. DOMAIN down' = Sockets /\ down' = [s \in Sockets |-> down'[s]]
      BY <1>1
  <2> QED BY <1>5, <2>1, <2>2
<1> QED BY <1>1, <1>3, <1>4, <1>5, <1>6

\* What one event at a peer makes of the connections it does not open.
Lasting(got, gone, closes, new) ==
    \A s \in Sockets \ new :
        /\ s \in gone => peer'[s] = "none"
        /\ s \notin gone /\ peer[s] # "none" => peer'[s] # "none"
        /\ s \notin gone /\ peer[s] \in {"open", "closing"} => peer'[s] \in {"open", "closing"}
        /\ s \notin gone \cup closes /\ peer[s] = "open" => peer'[s] = "open"
        /\ s \in got \ gone /\ peer[s] # "none" => peer'[s] \in {"open", "closing"}

\* One event at a peer, which may open new connections.
LEMMA PeerEffect ==
    ASSUME SocketsTypeOK, NEW got, NEW gone, NEW says, NEW closes, NEW new,
           \A s \in got \cap Sockets : down[s] # <<>>,
           \A s \in DOMAIN says : says[s] \in Message,
           PeerDoes(got, gone, says, closes, new)
    PROVE  /\ relay' = relay
           /\ peer' \in [Sockets -> PeerEnds]
           /\ up' \in [Sockets -> Seq(Message)] /\ down' \in [Sockets -> Seq(Message)]
           /\ dead' \in SUBSET Sockets
           /\ Lasting(got, gone, closes, new)
           /\ \A s \in Sockets \cap new : peer'[s] = "opening" /\ Elems(down'[s]) = {}
           /\ \A s \in Sockets : Elems(down'[s]) \subseteq Elems(down[s])
           /\ \A s \in Sockets :
                 Elems(up'[s]) \subseteq Elems(up[s]) \cup {Close} \cup Said(s, says)
<1> DEFINE shut == {s \in closes \ gone : peer[s] \in {"opening", "open"}}
           fin  == {s \in gone : peer[s] \in {"opening", "open"} /\ relay[s] # "none"}
           word(s) == IF s \in DOMAIN says /\ peer[s] \in {"opening", "open"}
                      THEN <<says[s]>> ELSE <<>>
           tail(s) == IF s \in shut \cup fin THEN <<Close>> ELSE <<>>
           opens == {s \in got \ gone : peer[s] = "opening"}
<1>1. /\ peer' = [s \in Sockets |-> IF s \in new THEN "opening"
                                    ELSE IF s \in gone THEN "none"
                                    ELSE IF s \in shut THEN "closing"
                                    ELSE IF s \in opens THEN "open" ELSE peer[s]]
      /\ down' = [s \in Sockets |-> IF s \in new THEN <<>>
                                    ELSE IF s \in gone THEN Unread(down[s], s, relay)
                                    ELSE IF s \in got THEN Tail(down[s]) ELSE down[s]]
      /\ up' = [s \in Sockets |-> IF relay[s] = "none" /\ s \notin dead \ gone THEN <<>>
                                  ELSE up[s] \o word(s) \o tail(s)]
      /\ dead' = dead \ {s \in gone : relay[s] = "none"}
      /\ relay' = relay
    BY DEF PeerDoes
<1>2. /\ peer \in [Sockets -> PeerEnds] /\ dead \in SUBSET Sockets
      /\ up \in [Sockets -> Seq(Message)] /\ down \in [Sockets -> Seq(Message)]
    BY DEF SocketsTypeOK
<1>3. peer' \in [Sockets -> PeerEnds] /\ dead' \in SUBSET Sockets
    BY <1>1, <1>2 DEF PeerEnds
<1>4. ASSUME NEW s \in Sockets \ new
      PROVE  /\ s \in gone => peer'[s] = "none"
             /\ s \notin gone /\ peer[s] # "none" => peer'[s] # "none"
             /\ s \notin gone /\ peer[s] \in {"open", "closing"} => peer'[s] \in {"open", "closing"}
             /\ s \notin gone \cup closes /\ peer[s] = "open" => peer'[s] = "open"
             /\ s \in got \ gone /\ peer[s] # "none" => peer'[s] \in {"open", "closing"}
    BY <1>1, <1>2 DEF PeerEnds
<1>5. ASSUME NEW s \in Sockets
      PROVE  /\ down'[s] \in Seq(Message)
             /\ Elems(down'[s]) \subseteq Elems(down[s])
             /\ s \in new => Elems(down'[s]) = {}
             /\ up'[s] \in Seq(Message)
             /\ Elems(up'[s]) \subseteq Elems(up[s]) \cup {Close} \cup Said(s, says)
  <2>1. up[s] \in Seq(Message) /\ down[s] \in Seq(Message)
      BY <1>2
  <2>2. down'[s] \in {<<>>, down[s]} \/ (s \in got /\ down'[s] = Tail(down[s]))
      BY <1>1 DEF Unread
  <2>3. /\ down'[s] \in Seq(Message)
        /\ Elems(down'[s]) \subseteq Elems(down[s])
      BY <2>1, <2>2, Reading, Short
  <2>4. word(s) \in Seq(Message) /\ Elems(word(s)) \subseteq Said(s, says)
      BY Short DEF Said
  <2>5. tail(s) \in Seq(Message) /\ Elems(tail(s)) \subseteq {Close}
      BY Short, Frames
  <2> HIDE DEF word, tail
  <2>6. /\ up[s] \o word(s) \in Seq(Message)
        /\ Elems(up[s] \o word(s)) \subseteq Elems(up[s]) \cup Said(s, says)
      BY <2>1, <2>4, Writing
  <2>7. /\ (up[s] \o word(s)) \o tail(s) \in Seq(Message)
        /\ Elems((up[s] \o word(s)) \o tail(s))
              \subseteq Elems(up[s] \o word(s)) \cup Elems(tail(s))
      BY <2>5, <2>6, Writing
  <2>8. up'[s] \in {<<>>, (up[s] \o word(s)) \o tail(s)}
      BY <1>1
  <2>9. s \in new => Elems(down'[s]) = {}
      BY <1>1, Short
  <2> QED BY <2>3, <2>5, <2>6, <2>7, <2>8, <2>9, Short
<1>6. /\ up' \in [Sockets -> Seq(Message)] /\ down' \in [Sockets -> Seq(Message)]
  <2>1. DOMAIN up' = Sockets /\ up' = [s \in Sockets |-> up'[s]]
      BY <1>1
  <2>2. DOMAIN down' = Sockets /\ down' = [s \in Sockets |-> down'[s]]
      BY <1>1
  <2> QED BY <1>5, <2>1, <2>2
<1>7. \A s \in Sockets \cap new : peer'[s] = "opening"
    BY <1>1
<1>8. Lasting(got, gone, closes, new)
    BY <1>4 DEF Lasting
<1> QED BY <1>1, <1>3, <1>5, <1>6, <1>7, <1>8

\* Writing one message, or none.
LEMMA Speech ==
    /\ DOMAIN Nothing = {} /\ \A s : Said(s, Nothing) = {}
    /\ \A s, m : DOMAIN To(s, m) = {s} /\ To(s, m)[s] = m
BY DEF Nothing, To, Said

\* A peer writes its own frames only.
Spoken(says) ==
    \A s \in DOMAIN says : \/ s \in Sockets /\ says[s] = Frame(s)
                           \/ \E t \in Control : says[s] = Says(t)

LEMMA SpokenBy ==
    /\ Spoken(Nothing)
    /\ \A s \in Sockets : Spoken(To(s, Frame(s)))
    /\ \A t \in Control : \A s \in Sockets : Spoken(To(s, Says(t)))
<1>1. Spoken(Nothing)
    BY Speech DEF Spoken
<1>2. ASSUME NEW s \in Sockets
      PROVE  Spoken(To(s, Frame(s)))
  <2>1. \A x \in DOMAIN To(s, Frame(s)) : x = s /\ To(s, Frame(s))[x] = Frame(s)
      BY DEF To
  <2> QED BY <2>1 DEF Spoken
<1>3. ASSUME NEW t \in Control, NEW s \in Sockets
      PROVE  Spoken(To(s, Says(t)))
  <2>1. \A x \in DOMAIN To(s, Says(t)) : To(s, Says(t))[x] = Says(t)
      BY DEF To
  <2> QED BY <2>1 DEF Spoken
<1> QED BY <1>1, <1>2, <1>3

\* An event at a peer that hears what is there: types, and no foreign frame.
LEMMA PeerStep ==
    ASSUME TypeOK, NEW got, NEW gone, NEW says, NEW closes, NEW new,
           \A s \in got \cap Sockets : down[s] # <<>>, Spoken(says),
           PeerDoes(got, gone, says, closes, new), faults' \in 0..MaxFaults
    PROVE  /\ relay' = relay /\ SocketsTypeOK'
           /\ Lasting(got, gone, closes, new)
           /\ \A s \in Sockets \cap new : peer'[s] = "opening"
           /\ \A s, f \in Sockets : Frame(f) \in Elems(down'[s]) => Frame(f) \in Elems(down[s])
           /\ \A s, f \in Sockets : Frame(f) \in Elems(up'[s]) => Frame(f) \in Elems(up[s]) \/ f = s
<1>1. SocketsTypeOK
    BY DEF TypeOK
<1>2. \A s \in DOMAIN says : says[s] \in Message
    BY Frames DEF Spoken
<1>3. ASSUME NEW s \in Sockets, NEW f \in Sockets, Frame(f) \in Said(s, says)
      PROVE  f = s
    BY <1>3, Frames DEF Spoken, Said
<1>4. /\ relay' = relay
      /\ peer' \in [Sockets -> PeerEnds]
      /\ up' \in [Sockets -> Seq(Message)] /\ down' \in [Sockets -> Seq(Message)]
      /\ dead' \in SUBSET Sockets
      /\ Lasting(got, gone, closes, new)
      /\ \A s \in Sockets \cap new : peer'[s] = "opening" /\ Elems(down'[s]) = {}
      /\ \A s \in Sockets : Elems(down'[s]) \subseteq Elems(down[s])
      /\ \A s \in Sockets : Elems(up'[s]) \subseteq Elems(up[s]) \cup {Close} \cup Said(s, says)
    BY <1>1, <1>2, PeerEffect
<1>5. SocketsTypeOK'
    BY <1>1, <1>4 DEF SocketsTypeOK
<1>6. \A s, f \in Sockets : Frame(f) \in Elems(up'[s]) => Frame(f) \in Elems(up[s]) \/ f = s
    BY <1>3, <1>4, Frames
<1>7. \A s, f \in Sockets : Frame(f) \in Elems(down'[s]) => Frame(f) \in Elems(down[s])
    BY <1>4
<1> QED BY <1>4, <1>5, <1>6, <1>7

\* An event at the relay that forwards nothing.
LEMMA RelayStepIsQuiet ==
    ASSUME TypeOK, NEW got, NEW gone, NEW says, NEW closes,
           \A s \in got \cap Sockets : up[s] # <<>>,
           \A s \in DOMAIN says : \E t \in Control : says[s] = Says(t),
           RelayDoes(got, gone, says, closes), faults' \in 0..MaxFaults
    PROVE  /\ peer' = peer /\ SocketsTypeOK'
           /\ \A s \in Sockets : IF s \in gone THEN relay'[s] = "none"
                                 ELSE relay'[s] = "none" <=> relay[s] = "none"
           /\ \A s, f \in Sockets : Frame(f) \in Elems(up'[s]) => Frame(f) \in Elems(up[s])
           /\ \A s, f \in Sockets : Frame(f) \in Elems(down'[s]) => Frame(f) \in Elems(down[s])
<1>1. SocketsTypeOK
    BY DEF TypeOK
<1>2. \A s \in DOMAIN says : says[s] \in Message
    BY Frames
<1>3. ASSUME NEW s \in Sockets, NEW f \in Sockets
      PROVE  Frame(f) \notin Said(s, says)
    BY Frames DEF Said
<1>4. /\ peer' = peer
      /\ relay' \in [Sockets -> RelayEnds]
      /\ up' \in [Sockets -> Seq(Message)] /\ down' \in [Sockets -> Seq(Message)]
      /\ dead' \in SUBSET Sockets
      /\ \A s \in Sockets : IF s \in gone THEN relay'[s] = "none"
                            ELSE relay'[s] = "none" <=> relay[s] = "none"
      /\ \A s \in Sockets : Elems(up'[s]) \subseteq Elems(up[s])
      /\ \A s \in Sockets : Elems(down'[s]) \subseteq Elems(down[s]) \cup {Close} \cup Said(s, says)
    BY <1>1, <1>2, RelayEffect
<1>5. SocketsTypeOK'
    BY <1>1, <1>4 DEF SocketsTypeOK
<1>6. \A s, f \in Sockets : Frame(f) \in Elems(down'[s]) => Frame(f) \in Elems(down[s])
    BY <1>3, <1>4, Frames
<1> QED BY <1>4, <1>5, <1>6

-----------------------------------------------------------------------------
(* Part 3.                                                                  *)

\* Frames after an event at the relay that forwards none: a connection that
\* is paired or accepted now carried none before.
LEMMA QuietRelay ==
    ASSUME RemoteConsistent, UNCHANGED <<clientVars, phoneVars>>,
           \A s, f \in Sockets : Frame(f) \in Elems(up'[s]) => Frame(f) \in Elems(up[s]),
           \A s, f \in Sockets : Frame(f) \in Elems(down'[s]) => Frame(f) \in Elems(down[s]),
           \A s \in Sockets : lookup'[s] # NoPair => lookup'[s] = lookup[s] \/ Carried(s) = {},
           \A s \in Sockets : s \notin claimed' /\ relay'[s] # "none" =>
                 (s \notin claimed /\ relay[s] # "none") \/ Carried(s) = {}
    PROVE  FrameSources'
<1>1. /\ \A s \in Sockets :
            /\ \A f \in Sockets : Frame(f) \in Elems(up[s]) => f = s
            /\ \A f, g \in Carried(s) : f = g
            /\ lookup[s] # NoPair => Carried(s) \subseteq Ends(lookup[s]) \ {s}
            /\ s \notin claimed /\ relay[s] # "none" => Carried(s) = {}
      /\ \A s \in ServerSockets \ handed : heard[s] = {}
      /\ \A p \in PhoneSockets : said[p] # {} => phone[p] \in {"talking", "served"}
    BY DEF RemoteConsistent, FrameSources
<1>2. heard' = heard /\ said' = said /\ handed' = handed /\ phone' = phone
    BY DEF clientVars, phoneVars
<1>3. \A s \in Sockets : Carried(s)' \subseteq Carried(s)
    BY <1>2 DEF Carried, ReadOn
<1>4. ASSUME NEW s \in Sockets
      PROVE  /\ \A f \in Sockets : Frame(f) \in Elems(up[s])' => f = s
             /\ \A f, g \in Carried(s)' : f = g
             /\ lookup'[s] # NoPair => Carried(s)' \subseteq Ends(lookup'[s]) \ {s}
             /\ s \notin claimed' /\ relay'[s] # "none" => Carried(s)' = {}
  <2>1. \A f \in Sockets : Frame(f) \in Elems(up[s])' => f = s
      BY <1>1
  <2>2. \A f, g \in Carried(s)' : f = g
      BY <1>1, <1>3
  <2>3. lookup'[s] # NoPair => Carried(s)' \subseteq Ends(lookup'[s]) \ {s}
      BY <1>1, <1>3
  <2>4. s \notin claimed' /\ relay'[s] # "none" => Carried(s)' = {}
      BY <1>1, <1>3
  <2> QED BY <2>1, <2>2, <2>3, <2>4
<1> QED BY <1>1, <1>2, <1>4 DEF FrameSources

\* Frames after an event at a peer: it reads only what was under way.
LEMMA QuietPeers ==
    ASSUME RemoteConsistent, UNCHANGED relayVars, relay' = relay,
           \A s, f \in Sockets : Frame(f) \in Elems(down'[s]) => Frame(f) \in Elems(down[s]),
           \A s, f \in Sockets : Frame(f) \in Elems(up'[s]) => Frame(f) \in Elems(up[s]) \/ f = s,
           \A s \in Sockets : ReadOn(s)' \subseteq Carried(s),
           \A s \in ServerSockets \ handed' : heard'[s] = {},
           \A p \in PhoneSockets : said'[p] # {} => phone'[p] \in {"talking", "served"}
    PROVE  FrameSources'
<1>1. \A s \in Sockets :
            /\ \A f \in Sockets : Frame(f) \in Elems(up[s]) => f = s
            /\ \A f, g \in Carried(s) : f = g
            /\ lookup[s] # NoPair => Carried(s) \subseteq Ends(lookup[s]) \ {s}
            /\ s \notin claimed /\ relay[s] # "none" => Carried(s) = {}
    BY DEF RemoteConsistent, FrameSources
<1>2. \A s \in Sockets : Carried(s)' \subseteq Carried(s)
    BY DEF Carried
<1>3. lookup' = lookup /\ claimed' = claimed
    BY DEF relayVars
<1>4. ASSUME NEW s \in Sockets
      PROVE  /\ \A f \in Sockets : Frame(f) \in Elems(up[s])' => f = s
             /\ \A f, g \in Carried(s)' : f = g
             /\ lookup'[s] # NoPair => Carried(s)' \subseteq Ends(lookup'[s]) \ {s}
             /\ s \notin claimed' /\ relay'[s] # "none" => Carried(s)' = {}
  <2>1. \A f \in Sockets : Frame(f) \in Elems(up[s])' => f = s
      BY <1>1
  <2>2. \A f, g \in Carried(s)' : f = g
      BY <1>1, <1>2
  <2>3. lookup'[s] # NoPair => Carried(s)' \subseteq Ends(lookup'[s]) \ {s}
      BY <1>1, <1>2, <1>3
  <2>4. s \notin claimed' /\ relay'[s] # "none" => Carried(s)' = {}
      BY <1>1, <1>2, <1>3
  <2> QED BY <2>1, <2>2, <2>3, <2>4
<1> QED BY <1>4 DEF FrameSources

-----------------------------------------------------------------------------
(* Part 4.                                                                  *)

\* The relay's events leave what the server and the phones hold alone.
LEMMA RelaySide ==
    ASSUME RemoteConsistent, UNCHANGED <<clientVars, phoneVars>>, peer' = peer,
           SocketsTypeOK', RelayTypeOK', PairingExact', Bookkeeping', FrameSources'
    PROVE  RemoteConsistent'
<1>1. ClientTypeOK' /\ TypeOK'
    BY DEF RemoteConsistent, TypeOK, ClientTypeOK, clientVars, serviceVars, phoneVars
<1>2. OneRegistration' /\ Ownership'
    BY DEF RemoteConsistent, OneRegistration, Ownership, Own, clientVars, serviceVars, phoneVars
<1> QED BY <1>1, <1>2 DEF RemoteConsistent

\* The tables after a pair is gone.
LEMMA TablesUnpaired ==
    ASSUME RemoteConsistent, NEW pair \in pairs, Unpair(pair)
    PROVE  /\ waiting' = waiting /\ pairs' = pairs \ {pair}
           /\ pairs' \in SUBSET Pair /\ silent' \in SUBSET Pair /\ active' \in SUBSET ServerSockets
           /\ lookup' \in [Sockets -> Pair \cup {NoPair}]
           /\ PairingExact'
           /\ \A s \in Sockets : lookup'[s] # NoPair => lookup'[s] = lookup[s]
           /\ lookup'[pair.server] = NoPair /\ lookup'[pair.client] = NoPair
<1>1. RelayTypeOK /\ PairingExact
    BY DEF RemoteConsistent, TypeOK
<1>2. /\ pair \in Pair /\ pair.server \in Sockets /\ pair.client \in Sockets
      /\ \A q \in pairs : q \in Pair
    BY <1>1 DEF RelayTypeOK, Pair, Sockets
<1>3. \A q \in pairs : q.server \in ServerSockets /\ q.client \in PhoneSockets /\ q # NoPair
    BY <1>2, SocketsAssumption DEF Pair, Sockets, NoPair
<1>4. lookup' = [s \in Sockets |-> IF s \in Ends(pair) THEN NoPair ELSE lookup[s]]
    BY <1>1, <1>2 DEF Unpair, RelayTypeOK, Ends
<1>5. /\ waiting' = waiting /\ pairs' = pairs \ {pair}
      /\ silent' = silent \ {pair} /\ active' = active \ {pair.server}
    BY DEF Unpair
<1>6. /\ \A s \in Sockets : \A q \in pairs : s \in Ends(q) <=> lookup[s] = q
      /\ \A s \in Sockets : lookup[s] # NoPair => lookup[s] \in pairs
      /\ waiting \notin Paired
      /\ silent \subseteq pairs
      /\ active = {q.server : q \in pairs} \cup ({waiting} \ {NoSocket})
    BY <1>1 DEF PairingExact
<1>7. \A s \in Sockets : \A q \in pairs' : s \in Ends(q) <=> lookup'[s] = q
    BY <1>2, <1>3, <1>4, <1>5, <1>6
<1>8. \A s \in Sockets : lookup'[s] # NoPair => lookup'[s] \in pairs'
    BY <1>4, <1>5, <1>6, <1>2 DEF Ends
<1>9. waiting' \notin Paired' /\ silent' \subseteq pairs'
    BY <1>5, <1>6 DEF Paired
<1>10. active' = {q.server : q \in pairs'} \cup ({waiting'} \ {NoSocket})
  <2>1. pair.server # waiting
      BY <1>6 DEF Paired
  <2>2. \A q \in pairs : q # pair => q.server # pair.server
      BY <1>2, <1>6 DEF Ends
  <2> QED BY <1>5, <1>6, <2>1, <2>2
<1>11. PairingExact'
    BY <1>7, <1>8, <1>9, <1>10 DEF PairingExact
<1>12. /\ lookup' \in [Sockets -> Pair \cup {NoPair}]
       /\ pairs' \in SUBSET Pair /\ silent' \in SUBSET Pair /\ active' \in SUBSET ServerSockets
    BY <1>1, <1>4, <1>5 DEF RelayTypeOK
<1>13. \A s \in Sockets : lookup'[s] # NoPair => lookup'[s] = lookup[s]
    BY <1>4
<1>14. lookup'[pair.server] = NoPair /\ lookup'[pair.client] = NoPair
    BY <1>2, <1>4 DEF Ends
<1> QED BY <1>5, <1>11, <1>12, <1>13, <1>14

\* A connection whose owner has not spoken carries no frame.
LEMMA OpeningIsEmpty ==
    ASSUME RemoteConsistent, NEW s \in Sockets, peer[s] \in {"none", "opening"}
    PROVE  ReadOn(s) = {}
<1>1. CASE s \in ServerSockets
  <2>1. s \notin handed
      BY DEF RemoteConsistent, Ownership
  <2> QED BY <1>1, <2>1 DEF RemoteConsistent, FrameSources, ReadOn
<1>2. CASE s \notin ServerSockets
  <2>1. s \in PhoneSockets
      BY <1>2 DEF Sockets
  <2>2. phone[s] \notin {"talking", "served"}
      BY <2>1 DEF RemoteConsistent, Ownership
  <2>3. said[s] = {}
      BY <2>1, <2>2 DEF RemoteConsistent, FrameSources
  <2> QED BY <1>2, <2>3 DEF ReadOn
<1> QED BY <1>1, <1>2

\* The upgrade of a connection: nothing was written to it yet.
LEMMA RelayAcceptsOK ==
    ASSUME RemoteConsistent, NEW s \in Sockets, RelayAccepts(s),
           UNCHANGED <<clientVars, phoneVars>>
    PROVE  RemoteConsistent'
<1>1. TypeOK /\ SocketsTypeOK /\ RelayTypeOK
    BY DEF RemoteConsistent, TypeOK
<1>2. /\ peer[s] = "opening" /\ relay[s] = "none" /\ down[s] = <<>>
      /\ relay' = [relay EXCEPT ![s] = "open"]
      /\ down' = [down EXCEPT ![s] = <<Says("opened")>>]
      /\ UNCHANGED <<peer, up, dead, faults>>
      /\ UNCHANGED relayVars
    BY DEF RelayAccepts, relayVars
<1>3. "opened" \in Control /\ Says("opened") \in Message
    BY Frames DEF Control
<1>4. <<Says("opened")>> \in Seq(Message) /\ Elems(<<Says("opened")>>) = {Says("opened")}
    BY <1>3, Short
<1>5. /\ down' = [t \in Sockets |-> IF t = s THEN <<Says("opened")>> ELSE down[t]]
      /\ relay' = [t \in Sockets |-> IF t = s THEN "open" ELSE relay[t]]
    BY <1>1, <1>2 DEF SocketsTypeOK
<1>6. SocketsTypeOK'
    BY <1>1, <1>2, <1>4, <1>5 DEF SocketsTypeOK, RelayEnds
<1>7. RelayTypeOK' /\ PairingExact'
    BY <1>1, <1>2 DEF RemoteConsistent, RelayTypeOK, PairingExact, Paired, relayVars
<1>8. Bookkeeping'
  <2>1. lookup' = lookup /\ claimed' = claimed /\ waiting' = waiting
      BY <1>2 DEF relayVars
  <2>2. waiting # NoSocket => waiting \in Sockets
      BY <1>1 DEF RelayTypeOK, Sockets
  <2> QED BY <1>1, <1>5, <2>1, <2>2 DEF RemoteConsistent, Bookkeeping
<1>9. \A t, f \in Sockets : Frame(f) \in Elems(down'[t]) => Frame(f) \in Elems(down[t])
    BY <1>3, <1>4, <1>5, Frames
<1>10. Carried(s) = {}
    BY <1>2, Short, OpeningIsEmpty DEF Carried
<1>11. FrameSources'
  <2>1. \A t, f \in Sockets : Frame(f) \in Elems(up'[t]) => Frame(f) \in Elems(up[t])
      BY <1>2
  <2>2. \A t \in Sockets : lookup'[t] # NoPair => lookup'[t] = lookup[t] \/ Carried(t) = {}
      BY <1>2 DEF relayVars
  <2>3. \A t \in Sockets : t \notin claimed' /\ relay'[t] # "none" =>
                 (t \notin claimed /\ relay[t] # "none") \/ Carried(t) = {}
      BY <1>2, <1>5, <1>10 DEF relayVars
  <2> QED BY <1>9, <2>1, <2>2, <2>3, QuietRelay
<1> QED BY <1>2, <1>6, <1>7, <1>8, <1>11, RelaySide

\* What the relay heard is there to be read.
LEMMA Hearing ==
    ASSUME NEW s \in Sockets, NEW m
    PROVE  /\ RelayHears(s, m) => up[s] # <<>> /\ relay[s] # "none" /\ Head(up[s]) = m
           /\ PeerHears(s, m) => down[s] # <<>> /\ peer[s] # "none" /\ Head(down[s]) = m
BY DEF RelayHears, PeerHears

\* An event at the relay that writes one control message, or none.
LEMMA ControlOnly ==
    /\ \A s \in DOMAIN Nothing : \E t \in Control : Nothing[s] = Says(t)
    /\ \A t \in Control : \A s \in Sockets :
          \A x \in DOMAIN To(s, Says(t)) : \E u \in Control : To(s, Says(t))[x] = Says(u)
<1>1. \A s \in DOMAIN Nothing : \E t \in Control : Nothing[s] = Says(t)
    BY Speech
<1>2. ASSUME NEW t \in Control, NEW s \in Sockets
      PROVE  \A x \in DOMAIN To(s, Says(t)) : \E u \in Control : To(s, Says(t))[x] = Says(u)
  <2>1. \A x \in DOMAIN To(s, Says(t)) : To(s, Says(t))[x] = Says(t)
      BY DEF To
  <2> QED BY <2>1
<1> QED BY <1>1, <1>2

\* An event at the relay that leaves the tables alone.
LEMMA TablesAlone ==
    ASSUME RemoteConsistent, UNCHANGED <<clientVars, phoneVars>>,
           waiting' = waiting, active' = active, pairs' = pairs, lookup' = lookup,
           silent' = silent, claimed' = claimed, owner' \in Owners, pinged' = pinged,
           peer' = peer, SocketsTypeOK',
           \A s \in Sockets : relay'[s] = "none" <=> relay[s] = "none",
           \A s, f \in Sockets : Frame(f) \in Elems(up'[s]) => Frame(f) \in Elems(up[s]),
           \A s, f \in Sockets : Frame(f) \in Elems(down'[s]) => Frame(f) \in Elems(down[s])
    PROVE  RemoteConsistent'
<1>1. TypeOK /\ RelayTypeOK
    BY DEF RemoteConsistent, TypeOK
<1>2. RelayTypeOK' /\ PairingExact'
    BY <1>1 DEF RemoteConsistent, RelayTypeOK, PairingExact, Paired
<1>3. Bookkeeping'
  <2>1. waiting # NoSocket => waiting \in Sockets
      BY <1>1 DEF RelayTypeOK, Sockets
  <2> QED BY <2>1 DEF RemoteConsistent, Bookkeeping
<1>4. FrameSources'
    BY QuietRelay
<1> QED BY <1>2, <1>3, <1>4, RelaySide

\* The relay closes connections; their close events come later.
LEMMA RelayClosing ==
    ASSUME RemoteConsistent, UNCHANGED <<clientVars, phoneVars>>, UNCHANGED relayVars,
           NEW closes, RelayDoes({}, {}, Nothing, closes), faults' \in 0..MaxFaults
    PROVE  RemoteConsistent'
<1>1. TypeOK /\ owner \in Owners
    BY DEF RemoteConsistent, TypeOK, RelayTypeOK
<1>2. /\ peer' = peer /\ SocketsTypeOK'
      /\ \A s \in Sockets : relay'[s] = "none" <=> relay[s] = "none"
      /\ \A s, f \in Sockets : Frame(f) \in Elems(up'[s]) => Frame(f) \in Elems(up[s])
      /\ \A s, f \in Sockets : Frame(f) \in Elems(down'[s]) => Frame(f) \in Elems(down[s])
    BY <1>1, ControlOnly, RelayStepIsQuiet
<1> QED BY <1>1, <1>2, TablesAlone DEF relayVars

\* A deadline that passes, and a failure that is counted, keep the count.
LEMMA Counting ==
    ASSUME TypeOK
    PROVE  /\ Fault => faults' \in 0..MaxFaults
           /\ UNCHANGED faults => faults' \in 0..MaxFaults
           /\ \A s \in Sockets : Overdue(s) => faults' \in 0..MaxFaults
<1>1. faults \in 0..MaxFaults /\ MaxFaults \in Nat
    BY SocketsAssumption DEF TypeOK, SocketsTypeOK
<1>2. Fault => faults' \in 0..MaxFaults
    BY <1>1 DEF Fault
<1> QED BY <1>1, <1>2 DEF Overdue

LEMMA PongTimeoutOK ==
    ASSUME RemoteConsistent, NEW s \in ServerSockets, PongTimeout(s),
           UNCHANGED <<clientVars, phoneVars>>
    PROVE  RemoteConsistent'
<1>1. TypeOK /\ s \in Sockets
    BY DEF RemoteConsistent, Sockets
<1>2. Overdue(s) /\ RelayDoes({}, {}, Nothing, {s}) /\ UNCHANGED relayVars
    BY DEF PongTimeout
<1> QED BY <1>1, <1>2, Counting, RelayClosing

LEMMA NeverAuthenticatedOK ==
    ASSUME RemoteConsistent, NEW s \in Sockets, NeverAuthenticated(s),
           UNCHANGED <<clientVars, phoneVars>>
    PROVE  RemoteConsistent'
<1>1. TypeOK
    BY DEF RemoteConsistent
<1>2. Overdue(s) /\ RelayDoes({}, {}, Nothing, {s}) /\ UNCHANGED relayVars
    BY DEF NeverAuthenticated
<1> QED BY <1>1, <1>2, Counting, RelayClosing

\* Another installation takes the name.
LEMMA OtherRegistersOK ==
    ASSUME RemoteConsistent, OtherRegisters, UNCHANGED <<clientVars, phoneVars>>
    PROVE  RemoteConsistent'
<1>1. /\ owner' \in Owners
      /\ UNCHANGED <<waiting, active, pairs, lookup, silent, claimed, pinged>>
      /\ UNCHANGED <<peer, relay, up, down, dead, faults>>
    BY DEF OtherRegisters, Owners, socketVars
<1>2. SocketsTypeOK'
    BY <1>1 DEF RemoteConsistent, TypeOK, SocketsTypeOK
<1> QED BY <1>1, <1>2, TablesAlone

\* A link falls silent.
LEMMA LinkDiesOK ==
    ASSUME RemoteConsistent, NEW s \in Sockets, LinkDies(s),
           UNCHANGED <<relayVars, clientVars, phoneVars>>
    PROVE  RemoteConsistent'
<1>1. TypeOK /\ owner \in Owners
    BY DEF RemoteConsistent, TypeOK, RelayTypeOK
<1>2. Fault /\ dead' = dead \cup {s} /\ UNCHANGED <<peer, relay, up, down>>
    BY DEF LinkDies
<1>3. SocketsTypeOK'
    BY <1>1, <1>2, Counting DEF TypeOK, SocketsTypeOK
<1> QED BY <1>1, <1>2, <1>3, TablesAlone DEF relayVars

\* A registration replaces the waiting connection; the registered one was
\* never paired.
LEMMA OnRegisterOK ==
    ASSUME RemoteConsistent, NEW s \in ServerSockets, OnRegister(s),
           UNCHANGED <<clientVars, phoneVars>>
    PROVE  RemoteConsistent'
<1>1. TypeOK /\ RelayTypeOK /\ PairingExact /\ Bookkeeping /\ s \in Sockets
    BY DEF RemoteConsistent, TypeOK, Sockets
<1>2. /\ up[s] # <<>> /\ relay[s] # "none" /\ s \notin claimed
      /\ faults' = faults
    BY <1>1, Hearing DEF OnRegister
<1>3. {"rejected", "registered"} \subseteq Control
    BY DEF Control
<1>4. PICK t, closes : /\ t \in {"rejected", "registered"}
                       /\ RelayDoes({s}, {}, To(s, Says(t)), closes)
    BY DEF OnRegister
<1>5. /\ peer' = peer /\ SocketsTypeOK'
      /\ \A x \in Sockets : relay'[x] = "none" <=> relay[x] = "none"
      /\ \A x, f \in Sockets : Frame(f) \in Elems(up'[x]) => Frame(f) \in Elems(up[x])
      /\ \A x, f \in Sockets : Frame(f) \in Elems(down'[x]) => Frame(f) \in Elems(down[x])
  <2>1. \A x \in {s} \cap Sockets : up[x] # <<>>
      BY <1>2
  <2>2. \A x \in DOMAIN To(s, Says(t)) : \E u \in Control : To(s, Says(t))[x] = Says(u)
      BY <1>3, <1>4 DEF To
  <2>3. faults' \in 0..MaxFaults
      BY <1>1, <1>2, Counting
  <2> QED BY <1>1, <1>4, <2>1, <2>2, <2>3, RelayStepIsQuiet
<1>6. CASE owner = "other"
  <2>1. UNCHANGED relayVars
      BY <1>6 DEF OnRegister
  <2> QED BY <1>1, <1>5, <2>1, TablesAlone DEF relayVars, RelayTypeOK
<1>7. CASE owner # "other"
  <2>1. /\ owner' = "us" /\ waiting' = s /\ active' = (active \ {waiting}) \cup {s}
        /\ pairs' = pairs /\ lookup' = lookup /\ silent' = silent
        /\ pinged' = pinged \cup {s} /\ claimed' = claimed
      BY <1>7 DEF OnRegister, RegisterServer
  <2>2. RelayTypeOK'
      BY <1>1, <2>1 DEF RelayTypeOK, Owners
  <2>3. lookup[s] = NoPair
      BY <1>1, <1>2 DEF Bookkeeping
  <2>4. \A q \in pairs : s \notin Ends(q) /\ q # NoPair
      BY <1>1, <2>3, SocketsAssumption DEF PairingExact, RelayTypeOK, Pair, NoPair, Sockets
  <2>5. PairingExact'
    <3>1. s \notin Paired
        BY <2>4 DEF Paired, Ends
    <3>2. waiting \notin {q.server : q \in pairs}
        BY <1>1 DEF PairingExact, Paired
    <3>3. s # NoSocket
        BY <1>1, SocketsAssumption
    <3>4. active' = {q.server : q \in pairs'} \cup ({waiting'} \ {NoSocket})
        BY <1>1, <2>1, <3>2, <3>3 DEF PairingExact
    <3> QED BY <1>1, <2>1, <3>1, <3>4 DEF PairingExact, Paired
  <2>6. Bookkeeping'
      BY <1>1, <1>2, <1>5, <2>1 DEF Bookkeeping
  <2>7. FrameSources'
      BY <1>5, <2>1, QuietRelay
  <2> QED BY <1>5, <2>2, <2>5, <2>6, <2>7, RelaySide
<1> QED BY <1>6, <1>7

\* A phone is refused, or paired with the waiting connection, which it takes.
LEMMA OnConnectOK ==
    ASSUME RemoteConsistent, NEW p \in PhoneSockets, OnConnect(p),
           UNCHANGED <<clientVars, phoneVars>>
    PROVE  RemoteConsistent'
<1>1. TypeOK /\ RelayTypeOK /\ PairingExact /\ Bookkeeping /\ FrameSources /\ p \in Sockets
    BY DEF RemoteConsistent, TypeOK, Sockets
<1>2. /\ up[p] # <<>> /\ relay[p] # "none" /\ p \notin claimed
      /\ faults' = faults
    BY <1>1, Hearing DEF OnConnect
<1>3. PICK t : /\ t \in Control
               /\ \E closes : RelayDoes({p}, {}, To(p, Says(t)), closes)
  <2>1. {"refused", "connected"} \subseteq Control
      BY DEF Control
  <2> QED BY <2>1 DEF OnConnect
<1>4. /\ peer' = peer /\ SocketsTypeOK'
      /\ \A x \in Sockets : relay'[x] = "none" <=> relay[x] = "none"
      /\ \A x, f \in Sockets : Frame(f) \in Elems(up'[x]) => Frame(f) \in Elems(up[x])
      /\ \A x, f \in Sockets : Frame(f) \in Elems(down'[x]) => Frame(f) \in Elems(down[x])
  <2>1. \A x \in {p} \cap Sockets : up[x] # <<>>
      BY <1>2
  <2>2. \A x \in DOMAIN To(p, Says(t)) : \E u \in Control : To(p, Says(t))[x] = Says(u)
      BY <1>3 DEF To
  <2>3. faults' \in 0..MaxFaults
      BY <1>1, <1>2, Counting
  <2> QED BY <1>1, <1>3, <2>1, <2>2, <2>3, RelayStepIsQuiet
<1>5. CASE Offline
  <2>1. UNCHANGED relayVars
      BY <1>5 DEF OnConnect
  <2> QED BY <1>1, <1>4, <2>1, TablesAlone DEF relayVars, RelayTypeOK
<1>6. CASE ~Offline
  <2> DEFINE pair == [server |-> waiting, client |-> p]
  <2>1. /\ waiting' = NoSocket /\ pairs' = pairs \cup {pair}
        /\ lookup' = [lookup EXCEPT ![waiting] = pair, ![p] = pair]
        /\ silent' = silent \cup {pair} /\ active' = active
        /\ claimed' = claimed \cup {p, waiting} /\ pinged' = pinged \ {waiting}
        /\ owner' = owner
      BY <1>6 DEF OnConnect, PairUp
  <2>2. waiting \in ServerSockets /\ waiting \in Sockets /\ waiting # NoSocket /\ waiting # p
      BY <1>1, <1>6, SocketsAssumption DEF Offline, RelayTypeOK, Sockets
  <2>3. pair \in Pair /\ pair # NoPair /\ pair.server = waiting /\ pair.client = p
        /\ Ends(pair) = {waiting, p}
      BY <2>2 DEF Pair, NoPair, Ends
  <2> HIDE DEF pair
  <2>4. lookup' = [x \in Sockets |-> IF x \in Ends(pair) THEN pair ELSE lookup[x]]
      BY <1>1, <2>1, <2>2, <2>3 DEF RelayTypeOK
  <2>5. RelayTypeOK'
      BY <1>1, <2>1, <2>2, <2>3, <2>4 DEF RelayTypeOK, Sockets
  <2>6. lookup[p] = NoPair /\ lookup[waiting] = NoPair
      BY <1>1, <1>2, <2>2 DEF Bookkeeping
  <2>7. \A q \in pairs : /\ q \in Pair /\ q # NoPair /\ p \notin Ends(q) /\ waiting \notin Ends(q)
                         /\ Ends(q) \subseteq Sockets
    <3>1. \A q \in pairs : q \in Pair /\ q # NoPair
        BY <1>1, SocketsAssumption DEF RelayTypeOK, Pair, NoPair, Sockets
    <3> QED BY <1>1, <2>2, <2>6, <3>1 DEF PairingExact, Pair, Sockets, Ends
  <2>8. PairingExact'
    <3>1. \A s \in Sockets : \A q \in pairs' : s \in Ends(q) <=> lookup'[s] = q
        BY <1>1, <2>1, <2>3, <2>4, <2>6, <2>7 DEF PairingExact
    <3>2. \A s \in Sockets : lookup'[s] # NoPair => lookup'[s] \in pairs'
        BY <1>1, <2>1, <2>4 DEF PairingExact
    <3>3. waiting' \notin Paired'
        BY <1>1, <2>1, <2>2, <2>3, SocketsAssumption DEF Paired, RelayTypeOK, Pair, Sockets
    <3>4. silent' \subseteq pairs'
        BY <1>1, <2>1 DEF PairingExact
    <3>5. active' = {q.server : q \in pairs'} \cup ({waiting'} \ {NoSocket})
        BY <1>1, <2>1, <2>2, <2>3 DEF PairingExact
    <3> QED BY <3>1, <3>2, <3>3, <3>4, <3>5 DEF PairingExact
  <2>9. Bookkeeping'
      BY <1>1, <2>1, <2>3, <2>4, SocketsAssumption, <2>2 DEF Bookkeeping, RelayTypeOK
  <2>10. Carried(p) = {} /\ Carried(waiting) = {}
      BY <1>1, <1>2, <2>2 DEF FrameSources, Bookkeeping
  <2>11. FrameSources'
    <3>1. \A s \in Sockets : lookup'[s] # NoPair => lookup'[s] = lookup[s] \/ Carried(s) = {}
        BY <2>3, <2>4, <2>10
    <3>2. \A s \in Sockets : s \notin claimed' /\ relay'[s] # "none" =>
                 (s \notin claimed /\ relay[s] # "none") \/ Carried(s) = {}
        BY <1>4, <2>1
    <3> QED BY <1>4, <3>1, <3>2, QuietRelay
  <2> QED BY <1>4, <2>5, <2>8, <2>9, <2>11, RelaySide
<1> QED BY <1>5, <1>6

\* One end of a pair, or what waited, is gone.
LEMMA OnCloseOK ==
    ASSUME RemoteConsistent, NEW s \in Sockets, OnClose(s),
           UNCHANGED <<clientVars, phoneVars>>
    PROVE  RemoteConsistent'
<1>1. TypeOK /\ RelayTypeOK /\ PairingExact /\ Bookkeeping
    BY DEF RemoteConsistent, TypeOK
<1>2. /\ RelayDoes({}, {s}, Nothing, ClosedWith(s)) /\ HandleClose(s)
      /\ claimed' = claimed \ {s} /\ pinged' = pinged \ {s} /\ owner' = owner
      /\ faults' = faults
    BY DEF OnClose
<1>3. /\ peer' = peer /\ SocketsTypeOK'
      /\ \A x \in Sockets : IF x \in {s} THEN relay'[x] = "none"
                            ELSE relay'[x] = "none" <=> relay[x] = "none"
      /\ \A x, f \in Sockets : Frame(f) \in Elems(up'[x]) => Frame(f) \in Elems(up[x])
      /\ \A x, f \in Sockets : Frame(f) \in Elems(down'[x]) => Frame(f) \in Elems(down[x])
    BY <1>1, <1>2, Counting, ControlOnly, RelayStepIsQuiet
<1>4. ASSUME RelayTypeOK', PairingExact', waiting' \in {waiting, NoSocket}, waiting' # s,
             lookup'[s] = NoPair,
             \A x \in Sockets : lookup'[x] # NoPair => lookup'[x] = lookup[x]
      PROVE  RemoteConsistent'
  <2>1. Bookkeeping'
    <3>1. \A x \in Sockets : lookup'[x] # NoPair => x \in claimed'
        BY <1>1, <1>2, <1>4 DEF Bookkeeping
    <3>2. waiting' \notin claimed'
        BY <1>1, <1>2, <1>4, SocketsAssumption DEF Bookkeeping, RelayTypeOK
    <3>3. waiting' # NoSocket => relay'[waiting'] # "none"
        BY <1>1, <1>3, <1>4 DEF Bookkeeping, RelayTypeOK, Sockets
    <3> QED BY <3>1, <3>2, <3>3 DEF Bookkeeping
  <2>2. \A x \in Sockets : x \notin claimed' /\ relay'[x] # "none" =>
                 (x \notin claimed /\ relay[x] # "none") \/ Carried(x) = {}
      BY <1>2, <1>3
  <2>3. FrameSources'
      BY <1>3, <1>4, <2>2, QuietRelay
  <2> QED BY <1>3, <1>4, <2>1, <2>3, RelaySide
<1>5. CASE waiting = s
  <2>1. /\ waiting' = NoSocket /\ active' = active \ {s}
        /\ pairs' = pairs /\ lookup' = lookup /\ silent' = silent
      BY <1>2, <1>5 DEF HandleClose, ForgetWaiting
  <2>2. RelayTypeOK'
      BY <1>1, <1>2, <2>1 DEF RelayTypeOK
  <2>3. s \notin Paired /\ s # NoSocket
      BY <1>1, <1>5, SocketsAssumption DEF PairingExact
  <2>4. NoSocket \notin Paired
      BY <1>1, SocketsAssumption DEF Paired, RelayTypeOK, Pair, Sockets
  <2>5. active' = {q.server : q \in pairs'} \cup ({waiting'} \ {NoSocket})
      BY <1>1, <1>5, <2>1, <2>3 DEF PairingExact, Paired
  <2>6. PairingExact'
      BY <1>1, <2>1, <2>4, <2>5 DEF PairingExact, Paired
  <2>7. lookup[s] = NoPair
      BY <1>1, <1>5 DEF Bookkeeping
  <2> QED BY <1>4, <2>1, <2>2, <2>3, <2>6, <2>7
<1>6. CASE waiting # s /\ lookup[s] # NoPair
  <2>1. Unpair(lookup[s]) /\ lookup[s] \in pairs
      BY <1>1, <1>2, <1>6 DEF HandleClose, PairingExact
  <2>2. s \in Ends(lookup[s])
      BY <1>1, <2>1 DEF PairingExact
  <2>3. /\ waiting' = waiting
        /\ pairs' \in SUBSET Pair /\ silent' \in SUBSET Pair /\ active' \in SUBSET ServerSockets
        /\ lookup' \in [Sockets -> Pair \cup {NoPair}]
        /\ PairingExact'
        /\ \A x \in Sockets : lookup'[x] # NoPair => lookup'[x] = lookup[x]
        /\ lookup'[lookup[s].server] = NoPair /\ lookup'[lookup[s].client] = NoPair
      BY <2>1, TablesUnpaired
  <2>4. lookup'[s] = NoPair
      BY <2>2, <2>3 DEF Ends
  <2>5. RelayTypeOK'
      BY <1>1, <1>2, <2>3 DEF RelayTypeOK
  <2> QED BY <1>4, <1>6, <2>3, <2>4, <2>5
<1>7. CASE waiting # s /\ lookup[s] = NoPair
  <2>1. UNCHANGED <<waiting, active, pairs, lookup, silent>>
      BY <1>2, <1>7 DEF HandleClose
  <2>2. RelayTypeOK' /\ PairingExact'
      BY <1>1, <1>2, <2>1 DEF RelayTypeOK, PairingExact, Paired
  <2> QED BY <1>4, <1>7, <2>1, <2>2
<1> QED BY <1>5, <1>6, <1>7

\* The timer of a silent pair takes both ends.
LEMMA SilentPairTimeoutOK ==
    ASSUME RemoteConsistent, NEW pair \in pairs, SilentPairTimeout(pair),
           UNCHANGED <<clientVars, phoneVars>>
    PROVE  RemoteConsistent'
<1>1. TypeOK /\ RelayTypeOK /\ Bookkeeping
    BY DEF RemoteConsistent, TypeOK
<1>2. /\ RelayDoes({}, {}, Nothing, Ends(pair)) /\ Unpair(pair)
      /\ owner' = owner /\ claimed' = claimed /\ pinged' = pinged /\ faults' = faults
    BY DEF SilentPairTimeout
<1>3. /\ peer' = peer /\ SocketsTypeOK'
      /\ \A x \in Sockets : relay'[x] = "none" <=> relay[x] = "none"
      /\ \A x, f \in Sockets : Frame(f) \in Elems(up'[x]) => Frame(f) \in Elems(up[x])
      /\ \A x, f \in Sockets : Frame(f) \in Elems(down'[x]) => Frame(f) \in Elems(down[x])
    BY <1>1, <1>2, Counting, ControlOnly, RelayStepIsQuiet
<1>4. /\ waiting' = waiting
      /\ pairs' \in SUBSET Pair /\ silent' \in SUBSET Pair /\ active' \in SUBSET ServerSockets
      /\ lookup' \in [Sockets -> Pair \cup {NoPair}]
      /\ PairingExact'
      /\ \A x \in Sockets : lookup'[x] # NoPair => lookup'[x] = lookup[x]
    BY <1>2, TablesUnpaired
<1>5. RelayTypeOK'
    BY <1>1, <1>2, <1>4 DEF RelayTypeOK
<1>6. Bookkeeping'
    BY <1>1, <1>2, <1>3, <1>4 DEF Bookkeeping, RelayTypeOK, Sockets
<1>7. FrameSources'
    BY <1>2, <1>3, <1>4, QuietRelay
<1> QED BY <1>3, <1>4, <1>5, <1>6, <1>7, RelaySide

\* A frame is forwarded to the other end of its pair, or dropped.
LEMMA OnFrameOK ==
    ASSUME RemoteConsistent, NEW s \in Sockets, OnFrame(s),
           UNCHANGED <<clientVars, phoneVars>>
    PROVE  RemoteConsistent'
<1> DEFINE pair == lookup[s]
           to == CHOOSE t \in Ends(pair) : t # s
           sent == s \in claimed /\ pair # NoPair
           says == IF sent THEN To(to, Head(up[s])) ELSE Nothing
<1>1. TypeOK /\ SocketsTypeOK /\ RelayTypeOK /\ PairingExact /\ Bookkeeping /\ FrameSources
    BY DEF RemoteConsistent, TypeOK
<1>2. /\ RelayDoes({s}, {}, says, {})
      /\ silent' = IF sent /\ pair.client = s THEN silent \ {pair} ELSE silent
      /\ UNCHANGED <<owner, waiting, active, pairs, lookup, claimed, pinged, faults>>
    BY DEF OnFrame
<1>3. PICK f \in Sockets : up[s] # <<>> /\ Head(up[s]) = Frame(f)
    BY Hearing DEF OnFrame
<1>4. Head(up[s]) = Frame(s)
  <2>1. up[s] \in Seq(Message)
      BY <1>1 DEF SocketsTypeOK
  <2>2. Frame(f) \in Elems(up[s])
      BY <1>3, <2>1, Reading
  <2> QED BY <1>1, <1>3, <2>2 DEF FrameSources
<1>5. ASSUME sent
      PROVE  /\ pair \in pairs /\ to \in Sockets /\ to # s
             /\ lookup[to] = pair /\ Ends(pair) = {s, to}
  <2>1. pair \in pairs
      BY <1>1, <1>5 DEF PairingExact
  <2>2. pair \in Pair /\ s \in Ends(pair)
      BY <1>1, <2>1 DEF PairingExact, RelayTypeOK
  <2>3. pair.server # pair.client /\ pair.server \in Sockets /\ pair.client \in Sockets
      BY <2>2, SocketsAssumption DEF Pair, Sockets
  <2>4. \E t \in Ends(pair) : t # s
      BY <2>3 DEF Ends
  <2>5. to \in Ends(pair) /\ to # s
      BY <2>4
  <2> HIDE DEF to
  <2>6. to \in Sockets /\ Ends(pair) = {s, to}
      BY <2>2, <2>3, <2>5 DEF Ends
  <2> QED BY <1>1, <2>1, <2>5, <2>6 DEF PairingExact
<1> HIDE DEF to
<1>6. /\ \A x \in DOMAIN says : says[x] = Frame(s) /\ sent /\ x = to
      /\ \A x \in Sockets : \A m \in Said(x, says) : m = Frame(s) /\ sent /\ x = to
  <2>1. CASE sent
    <3>1. says = To(to, Frame(s))
        BY <1>4, <2>1
    <3>2. \A x \in DOMAIN says : says[x] = Frame(s) /\ x = to
        BY <3>1 DEF To
    <3> HIDE DEF says
    <3> QED BY <2>1, <3>2 DEF Said
  <2>2. CASE ~sent
    <3>1. says = Nothing
        BY <2>2
    <3> HIDE DEF says
    <3> QED BY <3>1, Speech DEF Said
  <2> QED BY <2>1, <2>2
<1> HIDE DEF says
<1>7. /\ peer' = peer
      /\ relay' \in [Sockets -> RelayEnds]
      /\ up' \in [Sockets -> Seq(Message)] /\ down' \in [Sockets -> Seq(Message)]
      /\ dead' \in SUBSET Sockets
      /\ \A x \in Sockets : relay'[x] = "none" <=> relay[x] = "none"
      /\ \A x \in Sockets : Elems(up'[x]) \subseteq Elems(up[x])
      /\ \A x \in Sockets :
            Elems(down'[x]) \subseteq Elems(down[x]) \cup {Close} \cup Said(x, says)
  <2>1. \A x \in {s} \cap Sockets : up[x] # <<>>
      BY <1>3
  <2>2. \A x \in DOMAIN says : says[x] \in Message
      BY <1>6, Frames
  <2>3. /\ peer' = peer
        /\ relay' \in [Sockets -> RelayEnds]
        /\ up' \in [Sockets -> Seq(Message)] /\ down' \in [Sockets -> Seq(Message)]
        /\ dead' \in SUBSET Sockets
        /\ \A x \in Sockets : IF x \in {} THEN relay'[x] = "none"
                              ELSE relay'[x] = "none" <=> relay[x] = "none"
        /\ \A x \in Sockets : Elems(up'[x]) \subseteq Elems(up[x])
        /\ \A x \in Sockets :
              Elems(down'[x]) \subseteq Elems(down[x]) \cup {Close} \cup Said(x, says)
      BY <1>1, <1>2, <2>1, <2>2, RelayEffect
  <2> QED BY <2>3
<1>8. SocketsTypeOK'
    BY <1>1, <1>2, <1>7 DEF SocketsTypeOK
<1>9. RelayTypeOK' /\ PairingExact' /\ Bookkeeping'
  <2>1. silent' \subseteq silent
      BY <1>2
  <2>2. waiting # NoSocket => waiting \in Sockets
      BY <1>1 DEF RelayTypeOK, Sockets
  <2>3. RelayTypeOK'
      BY <1>1, <1>2, <2>1 DEF RelayTypeOK
  <2>4. PairingExact'
      BY <1>1, <1>2, <2>1 DEF PairingExact, Paired
  <2> QED BY <1>1, <1>2, <1>7, <2>2, <2>3, <2>4 DEF Bookkeeping
<1>10. heard' = heard /\ said' = said /\ handed' = handed /\ phone' = phone
    BY DEF clientVars, phoneVars
<1>11. ASSUME NEW x \in Sockets
       PROVE  Carried(x)' \subseteq Carried(x) \/ (sent /\ x = to /\ Carried(x)' \subseteq {s})
  <2>1. \A g \in Sockets : Frame(g) \in Elems(down'[x]) =>
            Frame(g) \in Elems(down[x]) \/ (sent /\ x = to /\ g = s)
      BY <1>6, <1>7, Frames
  <2>2. CASE sent /\ x = to
    <3>1. Carried(x) \subseteq Ends(lookup[x]) \ {x}
        BY <1>1, <1>5, <2>2 DEF FrameSources
    <3>2. Carried(x) \subseteq {s}
        BY <1>5, <2>2, <3>1
    <3>3. Carried(x)' \subseteq Carried(x) \cup {s}
        BY <1>10, <2>1 DEF Carried, ReadOn
    <3> QED BY <2>2, <3>2, <3>3
  <2>3. CASE ~(sent /\ x = to)
      BY <1>10, <2>1, <2>3 DEF Carried, ReadOn
  <2> QED BY <2>2, <2>3
<1>12. ASSUME NEW x \in Sockets
       PROVE  /\ \A g \in Sockets : Frame(g) \in Elems(up[x])' => g = x
              /\ \A g, h \in Carried(x)' : g = h
              /\ lookup'[x] # NoPair => Carried(x)' \subseteq Ends(lookup'[x]) \ {x}
              /\ x \notin claimed' /\ relay'[x] # "none" => Carried(x)' = {}
  <2>1. /\ \A g \in Sockets : Frame(g) \in Elems(up[x]) => g = x
        /\ \A g, h \in Carried(x) : g = h
        /\ lookup[x] # NoPair => Carried(x) \subseteq Ends(lookup[x]) \ {x}
        /\ x \notin claimed /\ relay[x] # "none" => Carried(x) = {}
      BY <1>1 DEF FrameSources
  <2>2. sent /\ x = to => x \in claimed
      BY <1>1, <1>5 DEF Bookkeeping
  <2>3. \A g \in Sockets : Frame(g) \in Elems(up[x])' => g = x
      BY <1>7, <2>1
  <2>4. \A g, h \in Carried(x)' : g = h
      BY <1>11, <2>1
  <2>5. lookup'[x] # NoPair => Carried(x)' \subseteq Ends(lookup'[x]) \ {x}
      BY <1>2, <1>5, <1>11, <2>1
  <2>6. x \notin claimed' /\ relay'[x] # "none" => Carried(x)' = {}
      BY <1>2, <1>7, <1>11, <2>1, <2>2
  <2> QED BY <2>3, <2>4, <2>5, <2>6
<1>13. FrameSources'
    BY <1>1, <1>10, <1>12 DEF FrameSources
<1> QED BY <1>7, <1>8, <1>9, <1>13, RelaySide

\* The relay forgets everything; its clients are told.
LEMMA RelayRestartsOK ==
    ASSUME RemoteConsistent, RelayRestarts, UNCHANGED <<clientVars, phoneVars>>
    PROVE  RemoteConsistent'
<1>1. TypeOK /\ SocketsTypeOK /\ RelayTypeOK
    BY DEF RemoteConsistent, TypeOK
<1>2. /\ relay' = [s \in Sockets |-> "none"]
      /\ up' = [s \in Sockets |-> IF s \in dead /\ peer[s] # "none" THEN up[s] ELSE <<>>]
      /\ down' = [s \in Sockets |-> IF peer[s] = "none" THEN <<>>
                                    ELSE IF relay[s] = "none" THEN down[s]
                                    ELSE Append(down[s], Close)]
      /\ dead' \subseteq dead /\ owner' \in {owner, "nobody"}
      /\ waiting' = NoSocket /\ active' = {} /\ pairs' = {} /\ silent' = {}
      /\ lookup' = [s \in Sockets |-> NoPair] /\ claimed' = {} /\ pinged' = {}
      /\ peer' = peer /\ Fault
    BY DEF RelayRestarts
<1>3. ASSUME NEW s \in Sockets
      PROVE  /\ up'[s] \in Seq(Message) /\ Elems(up'[s]) \subseteq Elems(up[s])
             /\ down'[s] \in Seq(Message) /\ Elems(down'[s]) \subseteq Elems(down[s]) \cup {Close}
  <2>1. up[s] \in Seq(Message) /\ down[s] \in Seq(Message)
      BY <1>1 DEF SocketsTypeOK
  <2>2. Append(down[s], Close) = down[s] \o <<Close>>
      BY <2>1, Frames, AppendIsConcat
  <2>3. /\ down[s] \o <<Close>> \in Seq(Message)
        /\ Elems(down[s] \o <<Close>>) \subseteq Elems(down[s]) \cup {Close}
      BY <2>1, Frames, Short, Writing
  <2> QED BY <1>2, <2>1, <2>2, <2>3, Short
<1>4. /\ up' \in [Sockets -> Seq(Message)] /\ down' \in [Sockets -> Seq(Message)]
  <2>1. up' = [s \in Sockets |-> up'[s]] /\ down' = [s \in Sockets |-> down'[s]]
      BY <1>2
  <2> QED BY <1>3, <2>1
<1>5. SocketsTypeOK'
    BY <1>1, <1>2, <1>4, Counting DEF SocketsTypeOK, RelayEnds
<1>6. RelayTypeOK' /\ PairingExact' /\ Bookkeeping'
  <2>1. RelayTypeOK'
      BY <1>1, <1>2 DEF RelayTypeOK, Owners
  <2> QED BY <1>2, <2>1 DEF PairingExact, Paired, Bookkeeping
<1>7. FrameSources'
    BY <1>2, <1>3, Frames, QuietRelay
<1> QED BY <1>2, <1>5, <1>6, <1>7, RelaySide

-----------------------------------------------------------------------------
(* The events of the server and of the phones.                              *)

\* The peers' events leave the relay's tables alone.
LEMMA PeerSide ==
    ASSUME RemoteConsistent, UNCHANGED relayVars, relay' = relay, SocketsTypeOK', ClientTypeOK',
           phone' \in [PhoneSockets -> PhoneStates], said' \in [PhoneSockets -> SUBSET Sockets],
           OneRegistration', Ownership', FrameSources'
    PROVE  RemoteConsistent'
<1>1. RelayTypeOK' /\ TypeOK'
    BY DEF RemoteConsistent, TypeOK, RelayTypeOK, relayVars
<1>2. PairingExact' /\ Bookkeeping'
    BY DEF RemoteConsistent, PairingExact, Paired, Bookkeeping, relayVars
<1> QED BY <1>1, <1>2 DEF RemoteConsistent

\* A new connection is a free one.
LEMMA NewIsFree ==
    ASSUME RemoteConsistent, CanConnect
    PROVE  /\ New \in ServerSockets /\ New \in Sockets /\ New # NoSocket
           /\ New \notin Own /\ New \notin handed
<1>1. New \in ServerSockets /\ Free(New)
    BY DEF CanConnect, New, Fresh
<1>2. New \in Sockets /\ peer[New] = "none"
    BY <1>1 DEF Free, Sockets
<1>3. Ownership /\ ClientTypeOK
    BY DEF RemoteConsistent, TypeOK
<1>4. New # connecting /\ New # waits /\ New \notin handed
    BY <1>2, <1>3, SocketsAssumption DEF Ownership, ClientTypeOK
<1> QED BY <1>1, <1>2, <1>4, SocketsAssumption DEF Own

\* An event of the server: types, the service's connections and frames.
LEMMA ServerSide ==
    ASSUME RemoteConsistent, UNCHANGED <<relayVars, phoneVars>>,
           NEW got, NEW gone, NEW says, NEW closes, NEW new,
           gone \cup closes \cup new \subseteq ServerSockets \cup {NoSocket},
           \A s \in got \cap Sockets : down[s] # <<>>, Spoken(says),
           PeerDoes(got, gone, says, closes, new), faults' \in 0..MaxFaults,
           ClientTypeOK', OneRegistration',
           connecting' # NoSocket => \/ connecting' \in new
                                     \/ connecting' = connecting /\ connecting \notin gone,
           waits' # NoSocket =>
               /\ waits' \notin gone \cup new
               /\ waits' = waits \/ (waits' \in got /\ peer[waits'] # "none"),
           handed' \cap Own' = {},
           \A s \in handed' : /\ s \notin gone \cup new
                              /\ s \in handed \/ (s \in got /\ peer[s] # "none"),
           \A s \in ServerSockets : heard'[s] \subseteq Carried(s),
           \A s \in ServerSockets \ handed' : heard'[s] = {}
    PROVE  RemoteConsistent'
<1>1. TypeOK /\ Ownership /\ ClientTypeOK /\ FrameSources
    BY DEF RemoteConsistent, TypeOK
<1>2. /\ relay' = relay /\ SocketsTypeOK'
      /\ Lasting(got, gone, closes, new)
      /\ \A s \in Sockets \cap new : peer'[s] = "opening"
      /\ \A s, f \in Sockets : Frame(f) \in Elems(down'[s]) => Frame(f) \in Elems(down[s])
      /\ \A s, f \in Sockets : Frame(f) \in Elems(up'[s]) => Frame(f) \in Elems(up[s]) \/ f = s
    BY <1>1, PeerStep
<1>3. phone' = phone /\ said' = said
    BY DEF phoneVars
<1>4. \A s \in ServerSockets : s \in Sockets /\ s \notin PhoneSockets /\ s # NoSocket
    BY SocketsAssumption DEF Sockets
<1>5. \A p \in PhoneSockets : p \in Sockets /\ p \notin ServerSockets /\ p # NoSocket
    BY SocketsAssumption DEF Sockets
<1>6. Ownership'
  <2>1. connecting' # NoSocket => peer'[connecting'] # "none"
      BY <1>1, <1>2, <1>4 DEF Ownership, Lasting, ClientTypeOK
  <2>2. waits' # NoSocket => peer'[waits'] \in {"open", "closing"}
      BY <1>1, <1>2, <1>4 DEF Ownership, Lasting, ClientTypeOK
  <2>3. \A s \in handed' : peer'[s] \in {"open", "closing"}
      BY <1>1, <1>2, <1>4 DEF Ownership, Lasting, ClientTypeOK
  <2>4. \A p \in PhoneSockets : phone'[p] \in {"talking", "served"} => peer'[p] = "open"
      BY <1>1, <1>2, <1>3, <1>5 DEF Ownership, Lasting
  <2> QED BY <2>1, <2>2, <2>3, <2>4 DEF Ownership
<1>7. FrameSources'
  <2>1. \A s \in Sockets : ReadOn(s)' \subseteq Carried(s)
      BY <1>3 DEF ReadOn, Carried
  <2>2. \A p \in PhoneSockets : said'[p] # {} => phone'[p] \in {"talking", "served"}
      BY <1>1, <1>3 DEF FrameSources
  <2> QED BY <1>2, <2>1, <2>2, QuietPeers
<1> QED BY <1>1, <1>2, <1>3, <1>6, <1>7, PeerSide DEF TypeOK

\* A frame that is heard was on its way.
LEMMA HearingFrames ==
    ASSUME TypeOK, NEW s \in Sockets, \E f \in Sockets : PeerHears(s, Frame(f))
    PROVE  /\ down[s] # <<>> /\ peer[s] # "none"
           /\ Head(down[s]).from \in Sockets /\ Head(down[s]).from \in Carried(s)
<1>1. PICK f \in Sockets : PeerHears(s, Frame(f))
    OBVIOUS
<1>2. down[s] # <<>> /\ peer[s] # "none" /\ Head(down[s]) = Frame(f)
    BY <1>1, Hearing
<1>3. Frame(f) \in Elems(down[s])
    BY <1>2, Reading DEF TypeOK, SocketsTypeOK
<1> QED BY <1>2, <1>3, Frames DEF Carried

\* What the service's invariants say, in one place.
LEMMA ServiceFacts ==
    ASSUME RemoteConsistent
    PROVE  /\ TypeOK /\ ClientTypeOK /\ OneRegistration /\ Ownership
           /\ \A s \in ServerSockets : s \in Sockets /\ s # NoSocket
           /\ \A s \in ServerSockets : heard[s] \subseteq Carried(s)
           /\ \A s \in ServerSockets \ handed : heard[s] = {}
           /\ Own = {connecting, waits} \ {NoSocket} /\ Own \subseteq ServerSockets
           /\ handed \subseteq ServerSockets /\ handed \cap Own = {}
BY SocketsAssumption
   DEF RemoteConsistent, TypeOK, ClientTypeOK, Ownership, FrameSources, Own, Carried, ReadOn, Sockets

LEMMA StartOK ==
    ASSUME RemoteConsistent, Start, UNCHANGED <<relayVars, phoneVars>>
    PROVE  RemoteConsistent'
<1>1. /\ settings < MaxSettings /\ CanConnect /\ settings' = settings + 1 /\ enabled' = TRUE
      /\ PeerDoes({}, Own, Nothing, {}, {New})
      /\ connecting' = New /\ waits' = NoSocket
      /\ retry' = FALSE /\ deadline' = FALSE /\ keepalive' = FALSE
      /\ handed' = handed /\ heard' = heard /\ faults' = faults
    BY DEF Start
<1>2. /\ New \in ServerSockets /\ New \in Sockets /\ New # NoSocket
      /\ New \notin Own /\ New \notin handed
    BY <1>1, NewIsFree
<1>3. ClientTypeOK'
  <2>1. settings' \in 0..MaxSettings
      BY <1>1, ServiceFacts, ClientAssumption DEF ClientTypeOK
  <2> QED BY <1>1, <1>2, <2>1, ServiceFacts DEF ClientTypeOK
<1>4. OneRegistration' /\ Own' = {New}
    BY <1>1, <1>2 DEF OneRegistration, Own
<1>5. \A s \in handed' : /\ s \notin Own \cup {New}
                         /\ s \in handed \/ (s \in {} /\ peer[s] # "none")
    BY <1>1, <1>2, ServiceFacts
<1>6. faults' \in 0..MaxFaults /\ Spoken(Nothing) /\ \A s \in {} \cap Sockets : down[s] # <<>>
    BY <1>1, ServiceFacts, Counting, SpokenBy
<1>7. Own \cup {} \cup {New} \subseteq ServerSockets \cup {NoSocket}
    BY <1>2, ServiceFacts
<1>8. /\ handed' \cap Own' = {}
      /\ \A s \in ServerSockets : heard'[s] \subseteq Carried(s)
      /\ \A s \in ServerSockets \ handed' : heard'[s] = {}
    BY <1>1, <1>2, <1>4, ServiceFacts
<1>9. connecting' # NoSocket => \/ connecting' \in {New}
                                \/ connecting' = connecting /\ connecting \notin Own
    BY <1>1
<1>10. waits' # NoSocket =>
           /\ waits' \notin Own \cup {New}
           /\ waits' = waits \/ (waits' \in {} /\ peer[waits'] # "none")
    BY <1>1
<1> QED BY <1>1, <1>3, <1>4, <1>5, <1>6, <1>7, <1>8, <1>9, <1>10, ServerSide

LEMMA StopOK ==
    ASSUME RemoteConsistent, Stop, UNCHANGED <<relayVars, phoneVars>>
    PROVE  RemoteConsistent'
<1>1. /\ settings < MaxSettings /\ settings' = settings + 1 /\ enabled' = FALSE
      /\ PeerDoes({}, Own, Nothing, {}, {})
      /\ connecting' = NoSocket /\ waits' = NoSocket
      /\ retry' = FALSE /\ deadline' = FALSE /\ keepalive' = FALSE
      /\ handed' = handed /\ heard' = heard /\ faults' = faults
    BY DEF Stop
<1>2. ClientTypeOK'
  <2>1. settings' \in 0..MaxSettings
      BY <1>1, ServiceFacts, ClientAssumption DEF ClientTypeOK
  <2> QED BY <1>1, <2>1, ServiceFacts DEF ClientTypeOK
<1>3. OneRegistration' /\ Own' = {}
    BY <1>1 DEF OneRegistration, Own
<1>4. \A s \in handed' : /\ s \notin Own \cup {}
                         /\ s \in handed \/ (s \in {} /\ peer[s] # "none")
    BY <1>1, ServiceFacts
<1>5. faults' \in 0..MaxFaults /\ Spoken(Nothing) /\ \A s \in {} \cap Sockets : down[s] # <<>>
    BY <1>1, ServiceFacts, Counting, SpokenBy
<1>6. /\ Own \cup {} \cup {} \subseteq ServerSockets \cup {NoSocket}
      /\ handed' \cap Own' = {}
      /\ \A s \in ServerSockets : heard'[s] \subseteq Carried(s)
      /\ \A s \in ServerSockets \ handed' : heard'[s] = {}
    BY <1>1, <1>3, ServiceFacts
<1> QED BY <1>1, <1>2, <1>3, <1>4, <1>5, <1>6, ServerSide

LEMMA ReconnectOK ==
    ASSUME RemoteConsistent, Reconnect, UNCHANGED <<relayVars, phoneVars>>
    PROVE  RemoteConsistent'
<1>1. /\ retry /\ CanConnect /\ retry' = FALSE /\ connecting' = New
      /\ PeerDoes({}, {}, Nothing, {}, {New})
      /\ enabled' = enabled /\ waits' = waits /\ deadline' = deadline /\ keepalive' = keepalive
      /\ handed' = handed /\ settings' = settings /\ heard' = heard /\ faults' = faults
    BY DEF Reconnect
<1>2. /\ New \in ServerSockets /\ New \in Sockets /\ New # NoSocket
      /\ New \notin Own /\ New \notin handed
    BY <1>1, NewIsFree
<1>3. enabled /\ connecting = NoSocket /\ waits = NoSocket
    BY <1>1, ServiceFacts DEF OneRegistration, Own
<1>4. ClientTypeOK'
    BY <1>1, <1>2, ServiceFacts DEF ClientTypeOK
<1>5. OneRegistration' /\ Own' = {New}
    BY <1>1, <1>2, <1>3, ServiceFacts DEF OneRegistration, Own
<1>6. \A s \in handed' : /\ s \notin {} \cup {New}
                         /\ s \in handed \/ (s \in {} /\ peer[s] # "none")
    BY <1>1, <1>2
<1>7. faults' \in 0..MaxFaults /\ Spoken(Nothing) /\ \A s \in {} \cap Sockets : down[s] # <<>>
    BY <1>1, ServiceFacts, Counting, SpokenBy
<1>8. /\ {} \cup {} \cup {New} \subseteq ServerSockets \cup {NoSocket}
      /\ handed' \cap Own' = {}
      /\ \A s \in ServerSockets : heard'[s] \subseteq Carried(s)
      /\ \A s \in ServerSockets \ handed' : heard'[s] = {}
    BY <1>1, <1>2, <1>5, ServiceFacts
<1>9. waits' = NoSocket /\ connecting' \in {New}
    BY <1>1, <1>3
<1> QED BY <1>1, <1>4, <1>5, <1>6, <1>7, <1>8, <1>9, ServerSide

LEMMA RegistrationTimeoutOK ==
    ASSUME RemoteConsistent, RegistrationTimeout, UNCHANGED <<relayVars, phoneVars>>
    PROVE  RemoteConsistent'
<1>1. /\ connecting # NoSocket /\ Overdue(connecting)
      /\ PeerDoes({}, {}, Nothing, {connecting}, {})
      /\ enabled' = enabled /\ connecting' = connecting /\ waits' = waits /\ retry' = retry
      /\ deadline' = deadline /\ keepalive' = keepalive
      /\ handed' = handed /\ settings' = settings /\ heard' = heard
    BY DEF RegistrationTimeout, clientVars, serviceVars
<1>2. ClientTypeOK' /\ OneRegistration' /\ Own' = Own
    BY <1>1, ServiceFacts DEF ClientTypeOK, OneRegistration, Own
<1>3. \A s \in handed' : /\ s \notin {} \cup {}
                         /\ s \in handed \/ (s \in {} /\ peer[s] # "none")
    BY <1>1
<1>4. faults' \in 0..MaxFaults /\ Spoken(Nothing) /\ \A s \in {} \cap Sockets : down[s] # <<>>
    BY <1>1, ServiceFacts, Counting, SpokenBy DEF ClientTypeOK
<1>5. /\ {} \cup {connecting} \cup {} \subseteq ServerSockets \cup {NoSocket}
      /\ handed' \cap Own' = {}
      /\ \A s \in ServerSockets : heard'[s] \subseteq Carried(s)
      /\ \A s \in ServerSockets \ handed' : heard'[s] = {}
    BY <1>1, <1>2, ServiceFacts DEF ClientTypeOK
<1> QED BY <1>1, <1>2, <1>3, <1>4, <1>5, ServerSide

LEMMA KeepaliveTimeoutOK ==
    ASSUME RemoteConsistent, KeepaliveTimeout, UNCHANGED <<relayVars, phoneVars>>
    PROVE  RemoteConsistent'
<1>1. /\ keepalive /\ Overdue(waits)
      /\ PeerDoes({}, {waits}, Nothing, {}, {})
      /\ waits' = NoSocket /\ keepalive' = FALSE /\ retry' = enabled
      /\ enabled' = enabled /\ connecting' = connecting /\ deadline' = deadline
      /\ handed' = handed /\ settings' = settings /\ heard' = heard
    BY DEF KeepaliveTimeout
<1>2. waits # NoSocket /\ connecting = NoSocket /\ waits \in Own
    BY <1>1, ServiceFacts DEF OneRegistration
<1>3. ClientTypeOK'
    BY <1>1, ServiceFacts DEF ClientTypeOK
<1>4. OneRegistration' /\ Own' = {}
    BY <1>1, <1>2 DEF OneRegistration, Own
<1>5. \A s \in handed' : /\ s \notin {waits} \cup {}
                         /\ s \in handed \/ (s \in {} /\ peer[s] # "none")
    BY <1>1, <1>2, ServiceFacts
<1>6. faults' \in 0..MaxFaults /\ Spoken(Nothing) /\ \A s \in {} \cap Sockets : down[s] # <<>>
    BY <1>1, <1>2, ServiceFacts, Counting, SpokenBy
<1>7. /\ {waits} \cup {} \cup {} \subseteq ServerSockets \cup {NoSocket}
      /\ handed' \cap Own' = {}
      /\ \A s \in ServerSockets : heard'[s] \subseteq Carried(s)
      /\ \A s \in ServerSockets \ handed' : heard'[s] = {}
    BY <1>1, <1>2, <1>4, ServiceFacts
<1> QED BY <1>1, <1>2, <1>3, <1>4, <1>5, <1>6, <1>7, ServerSide

\* The relay accepted the connection; the server registers on it.
LEMMA OnOpenOK ==
    ASSUME RemoteConsistent, NEW s \in ServerSockets, OnOpen(s), UNCHANGED <<relayVars, phoneVars>>
    PROVE  RemoteConsistent'
<1>1. /\ s = connecting /\ PeerHears(s, Says("opened"))
      /\ PeerDoes({s}, {}, To(s, Says("register")), {}, {})
      /\ deadline' = Strict
      /\ enabled' = enabled /\ connecting' = connecting /\ waits' = waits /\ retry' = retry
      /\ keepalive' = keepalive
      /\ handed' = handed /\ settings' = settings /\ heard' = heard /\ faults' = faults
    BY DEF OnOpen
<1>2. down[s] # <<>> /\ s \in Sockets
    BY <1>1, Hearing DEF Sockets
<1>3. ClientTypeOK' /\ OneRegistration' /\ Own' = Own
    BY <1>1, ServiceFacts, ClientAssumption DEF ClientTypeOK, OneRegistration, Own
<1>4. \A x \in handed' : /\ x \notin {} \cup {}
                         /\ x \in handed \/ (x \in {s} /\ peer[x] # "none")
    BY <1>1
<1>5. Spoken(To(s, Says("register")))
  <2>1. "register" \in Control
      BY DEF Control
  <2> QED BY <1>2, <2>1, SpokenBy
<1>6. faults' \in 0..MaxFaults /\ \A x \in {s} \cap Sockets : down[x] # <<>>
    BY <1>1, <1>2, ServiceFacts, Counting
<1>7. /\ {} \cup {} \cup {} \subseteq ServerSockets \cup {NoSocket}
      /\ handed' \cap Own' = {}
      /\ \A x \in ServerSockets : heard'[x] \subseteq Carried(x)
      /\ \A x \in ServerSockets \ handed' : heard'[x] = {}
    BY <1>1, <1>3, ServiceFacts
<1> QED BY <1>1, <1>3, <1>4, <1>5, <1>6, <1>7, ServerSide

\* The registered connection waits.
LEMMA OnRegisteredOK ==
    ASSUME RemoteConsistent, NEW s \in ServerSockets, OnRegistered(s),
           UNCHANGED <<relayVars, phoneVars>>
    PROVE  RemoteConsistent'
<1>1. /\ s = connecting /\ PeerHears(s, Says("registered"))
      /\ PeerDoes({s}, {}, Nothing, {}, {})
      /\ connecting' = NoSocket /\ waits' = s /\ deadline' = FALSE /\ keepalive' = TRUE
      /\ enabled' = enabled /\ retry' = retry
      /\ handed' = handed /\ settings' = settings /\ heard' = heard /\ faults' = faults
    BY DEF OnRegistered
<1>2. down[s] # <<>> /\ peer[s] # "none" /\ s \in Sockets /\ s # NoSocket /\ s \in Own
    BY <1>1, Hearing, ServiceFacts
<1>3. ClientTypeOK'
    BY <1>1, ServiceFacts DEF ClientTypeOK
<1>4. OneRegistration' /\ Own' = {s}
    BY <1>1, <1>2, ServiceFacts DEF OneRegistration, Own
<1>5. \A x \in handed' : /\ x \notin {} \cup {}
                         /\ x \in handed \/ (x \in {s} /\ peer[x] # "none")
    BY <1>1
<1>6. /\ faults' \in 0..MaxFaults /\ Spoken(Nothing)
      /\ \A x \in {s} \cap Sockets : down[x] # <<>>
    BY <1>1, <1>2, ServiceFacts, Counting, SpokenBy
<1>7. /\ {} \cup {} \cup {} \subseteq ServerSockets \cup {NoSocket}
      /\ handed' \cap Own' = {}
      /\ \A x \in ServerSockets : heard'[x] \subseteq Carried(x)
      /\ \A x \in ServerSockets \ handed' : heard'[x] = {}
    BY <1>1, <1>2, <1>4, ServiceFacts
<1>8. waits' \notin {} \cup {} /\ waits' \in {s} /\ peer[waits'] # "none"
    BY <1>1, <1>2
<1> QED BY <1>1, <1>3, <1>4, <1>5, <1>6, <1>7, <1>8, ServerSide

\* Rejected: the connection is closed, the service gives up.
LEMMA OnRejectedOK ==
    ASSUME RemoteConsistent, NEW s \in ServerSockets, OnRejected(s),
           UNCHANGED <<relayVars, phoneVars>>
    PROVE  RemoteConsistent'
<1>1. /\ s = connecting /\ PeerHears(s, Says("rejected"))
      /\ PeerDoes({s}, {}, Nothing, {s}, {})
      /\ deadline' = FALSE /\ enabled' = FALSE
      /\ connecting' = connecting /\ waits' = waits /\ retry' = retry /\ keepalive' = keepalive
      /\ handed' = handed /\ settings' = settings /\ heard' = heard /\ faults' = faults
    BY DEF OnRejected
<1>2. down[s] # <<>> /\ peer[s] # "none" /\ s \in Sockets /\ s # NoSocket /\ s \in Own
    BY <1>1, Hearing, ServiceFacts
<1>3. waits = NoSocket /\ ~retry
    BY <1>1, <1>2, ServiceFacts DEF OneRegistration, ClientTypeOK
<1>4. ClientTypeOK'
    BY <1>1, ServiceFacts DEF ClientTypeOK
<1>5. OneRegistration' /\ Own' = Own
    BY <1>1, <1>2, <1>3, ServiceFacts DEF OneRegistration, Own
<1>6. \A x \in handed' : /\ x \notin {} \cup {}
                         /\ x \in handed \/ (x \in {s} /\ peer[x] # "none")
    BY <1>1
<1>7. /\ faults' \in 0..MaxFaults /\ Spoken(Nothing)
      /\ \A x \in {s} \cap Sockets : down[x] # <<>>
    BY <1>1, <1>2, ServiceFacts, Counting, SpokenBy
<1>8. /\ {} \cup {s} \cup {} \subseteq ServerSockets \cup {NoSocket}
      /\ handed' \cap Own' = {}
      /\ \A x \in ServerSockets : heard'[x] \subseteq Carried(x)
      /\ \A x \in ServerSockets \ handed' : heard'[x] = {}
      /\ waits' = NoSocket
    BY <1>1, <1>2, <1>3, <1>5, ServiceFacts
<1> QED BY <1>1, <1>4, <1>5, <1>6, <1>7, <1>8, ServerSide

\* A claimed connection is handed off; a new one replaces it.
LEMMA OnClaimOK ==
    ASSUME RemoteConsistent, NEW s \in ServerSockets, OnClaim(s),
           UNCHANGED <<relayVars, phoneVars>>
    PROVE  RemoteConsistent'
<1>1. /\ s \in {waits, connecting} /\ HearsFrame(s) /\ CanConnect
      /\ PeerDoes({s}, {}, To(s, Frame(s)), {}, {New})
      /\ handed' = handed \cup {s}
      /\ heard' = [heard EXCEPT ![s] = {Head(down[s]).from}]
      /\ connecting' = New /\ waits' = (IF s = waits THEN NoSocket ELSE waits)
      /\ keepalive' = FALSE /\ deadline' = FALSE
      /\ enabled' = enabled /\ retry' = retry /\ settings' = settings /\ faults' = faults
    BY DEF OnClaim
<1>2. /\ New \in ServerSockets /\ New \in Sockets /\ New # NoSocket
      /\ New \notin Own /\ New \notin handed
    BY <1>1, NewIsFree
<1>3. /\ s \in Sockets /\ s # NoSocket /\ s \in Own
      /\ down[s] # <<>> /\ peer[s] # "none"
      /\ Head(down[s]).from \in Sockets /\ Head(down[s]).from \in Carried(s)
  <2>1. s \in Sockets /\ s # NoSocket /\ s \in Own
      BY <1>1, ServiceFacts
  <2> QED BY <1>1, <2>1, ServiceFacts, HearingFrames DEF HearsFrame
<1>4. waits' = NoSocket /\ ~retry
    BY <1>1, <1>3, ServiceFacts DEF OneRegistration, ClientTypeOK
<1>5. ClientTypeOK'
    BY <1>1, <1>2, <1>3, <1>4, ServiceFacts DEF ClientTypeOK
<1>6. OneRegistration' /\ Own' = {New}
    BY <1>1, <1>2, <1>4 DEF OneRegistration, Own
<1>7. \A x \in handed' : /\ x \notin {} \cup {New}
                         /\ x \in handed \/ (x \in {s} /\ peer[x] # "none")
    BY <1>1, <1>2, <1>3
<1>8. /\ faults' \in 0..MaxFaults /\ Spoken(To(s, Frame(s)))
      /\ \A x \in {s} \cap Sockets : down[x] # <<>>
    BY <1>1, <1>3, ServiceFacts, Counting, SpokenBy
<1>9. {} \cup {} \cup {New} \subseteq ServerSockets \cup {NoSocket}
    BY <1>2
<1>10. handed' \cap Own' = {}
    BY <1>1, <1>2, <1>3, <1>6
<1>11. heard' = [x \in ServerSockets |-> IF x = s THEN {Head(down[s]).from} ELSE heard[x]]
    BY <1>1, ServiceFacts DEF ClientTypeOK
<1>12. /\ \A x \in ServerSockets : heard'[x] \subseteq Carried(x)
       /\ \A x \in ServerSockets \ handed' : heard'[x] = {}
    BY <1>1, <1>3, <1>11, ServiceFacts
<1>13. connecting' \in {New}
    BY <1>1
<1> QED BY <1>1, <1>4, <1>5, <1>6, <1>7, <1>8, <1>9, <1>10, <1>12, <1>13, ServerSide

\* A connection is gone, and with it what was read on it.
LEMMA ConnectionGone ==
    ASSUME RemoteConsistent, UNCHANGED <<relayVars, phoneVars>>, NEW s \in ServerSockets,
           PeerDoes({}, {s}, Nothing, {}, {}), faults' \in 0..MaxFaults,
           ClientTypeOK', OneRegistration', enabled' = enabled,
           connecting' = IF s = connecting THEN NoSocket ELSE connecting,
           waits' = IF s = waits THEN NoSocket ELSE waits,
           handed' = handed \ {s}, heard' = [heard EXCEPT ![s] = {}]
    PROVE  RemoteConsistent'
<1>1. \A x \in handed' : /\ x \notin {s} \cup {}
                         /\ x \in handed \/ (x \in {} /\ peer[x] # "none")
    OBVIOUS
<1>2. heard' = [x \in ServerSockets |-> IF x = s THEN {} ELSE heard[x]]
    BY ServiceFacts DEF ClientTypeOK
<1>3. Own' \subseteq Own
    BY DEF Own
<1>4. /\ {s} \cup {} \cup {} \subseteq ServerSockets \cup {NoSocket}
      /\ handed' \cap Own' = {}
      /\ \A x \in ServerSockets : heard'[x] \subseteq Carried(x)
      /\ \A x \in ServerSockets \ handed' : heard'[x] = {}
    BY <1>2, <1>3, ServiceFacts
<1>5. Spoken(Nothing) /\ \A x \in {} \cap Sockets : down[x] # <<>>
    BY SpokenBy
<1>6. waits' # NoSocket =>
           /\ waits' \notin {s} \cup {}
           /\ waits' = waits \/ (waits' \in {} /\ peer[waits'] # "none")
    BY ServiceFacts DEF Ownership
<1>7. connecting' # NoSocket => \/ connecting' \in {}
                                \/ connecting' = connecting /\ connecting \notin {s}
    OBVIOUS
<1> QED BY <1>1, <1>4, <1>5, <1>6, <1>7, ServerSide

\* A phone that is refused costs the waiting connection, which is replaced
\* after the backoff.
LEMMA OnRefusedClaimOK ==
    ASSUME RemoteConsistent, NEW s \in ServerSockets, OnRefusedClaim(s),
           UNCHANGED <<relayVars, phoneVars>>
    PROVE  RemoteConsistent'
<1>1. /\ s = waits /\ PeerDoes({}, {s}, Nothing, {}, {})
      /\ waits' = NoSocket /\ retry' = enabled /\ keepalive' = FALSE /\ deadline' = FALSE
      /\ enabled' = enabled /\ connecting' = connecting
      /\ handed' = handed /\ settings' = settings /\ heard' = heard /\ faults' = faults
    BY DEF OnRefusedClaim
<1>2. s # NoSocket /\ connecting = NoSocket /\ s \in Own /\ s \notin handed /\ heard[s] = {}
    BY <1>1, ServiceFacts DEF OneRegistration
<1>3. ClientTypeOK' /\ OneRegistration'
    BY <1>1, <1>2, ServiceFacts DEF ClientTypeOK, OneRegistration, Own
<1>4. handed' = handed \ {s} /\ heard' = [heard EXCEPT ![s] = {}]
    BY <1>1, <1>2, ServiceFacts DEF ClientTypeOK
<1>5. faults' \in 0..MaxFaults
    BY <1>1, ServiceFacts, Counting
<1> QED BY <1>1, <1>2, <1>3, <1>4, <1>5, ConnectionGone

LEMMA OnServerCloseOK ==
    ASSUME RemoteConsistent, NEW s \in ServerSockets, OnServerClose(s),
           faults' \in 0..MaxFaults, UNCHANGED <<relayVars, phoneVars>>
    PROVE  RemoteConsistent'
<1>1. /\ PeerDoes({}, {s}, Nothing, {}, {})
      /\ connecting' = (IF s = connecting THEN NoSocket ELSE connecting)
      /\ waits' = (IF s = waits THEN NoSocket ELSE waits)
      /\ deadline' = (deadline /\ s # connecting) /\ keepalive' = (keepalive /\ s # waits)
      /\ retry' = (retry \/ (s \in Own /\ enabled))
      /\ handed' = handed \ {s} /\ heard' = [heard EXCEPT ![s] = {}]
      /\ enabled' = enabled /\ settings' = settings
    BY DEF OnServerClose
<1>2. ClientTypeOK'
    BY <1>1, ServiceFacts DEF ClientTypeOK
<1>3. s # NoSocket
    BY ServiceFacts
<1>4. OneRegistration'
  <2>1. Own' = Own \ {s}
      BY <1>1, <1>3 DEF Own
  <2>2. s \in Own => Own = {s}
      BY <1>3, ServiceFacts DEF OneRegistration
  <2>3. enabled' => (retry' \/ Own' # {})
      BY <1>1, <2>1, <2>2, ServiceFacts DEF OneRegistration
  <2>4. retry' => enabled' /\ Own' = {}
      BY <1>1, <2>1, <2>2, ServiceFacts DEF OneRegistration
  <2>5. connecting' = NoSocket \/ waits' = NoSocket
      BY <1>1, ServiceFacts DEF OneRegistration
  <2>6. keepalive' <=> waits' # NoSocket
      BY <1>1, ServiceFacts DEF OneRegistration
  <2> QED BY <2>3, <2>4, <2>5, <2>6 DEF OneRegistration
<1> QED BY <1>1, <1>2, <1>4, ConnectionGone

\* A connection that was handed off: its frames are its phone's.
LEMMA HandlerReadsOK ==
    ASSUME RemoteConsistent, NEW s \in ServerSockets, HandlerReads(s),
           UNCHANGED <<relayVars, phoneVars>>
    PROVE  RemoteConsistent'
<1>1. /\ s \in handed /\ HearsFrame(s)
      /\ PeerDoes({s}, {}, To(s, Frame(s)), {}, {})
      /\ heard' = [heard EXCEPT ![s] = @ \cup {Head(down[s]).from}]
      /\ enabled' = enabled /\ connecting' = connecting /\ waits' = waits /\ retry' = retry
      /\ deadline' = deadline /\ keepalive' = keepalive
      /\ handed' = handed /\ settings' = settings /\ faults' = faults
    BY DEF HandlerReads, serviceVars
<1>2. /\ s \in Sockets
      /\ down[s] # <<>> /\ peer[s] # "none"
      /\ Head(down[s]).from \in Sockets /\ Head(down[s]).from \in Carried(s)
  <2>1. s \in Sockets
      BY ServiceFacts
  <2> QED BY <1>1, <2>1, ServiceFacts, HearingFrames DEF HearsFrame
<1>3. heard' = [x \in ServerSockets |->
                    IF x = s THEN heard[s] \cup {Head(down[s]).from} ELSE heard[x]]
    BY <1>1, ServiceFacts DEF ClientTypeOK
<1>4. ClientTypeOK'
    BY <1>1, <1>2, <1>3, ServiceFacts DEF ClientTypeOK
<1>5. OneRegistration' /\ Own' = Own
    BY <1>1, ServiceFacts DEF OneRegistration, Own
<1>6. \A x \in handed' : /\ x \notin {} \cup {}
                         /\ x \in handed \/ (x \in {s} /\ peer[x] # "none")
    BY <1>1
<1>7. /\ faults' \in 0..MaxFaults /\ Spoken(To(s, Frame(s)))
      /\ \A x \in {s} \cap Sockets : down[x] # <<>>
    BY <1>1, <1>2, ServiceFacts, Counting, SpokenBy
<1>8. /\ {} \cup {} \cup {} \subseteq ServerSockets \cup {NoSocket}
      /\ handed' \cap Own' = {}
      /\ \A x \in ServerSockets : heard'[x] \subseteq Carried(x)
      /\ \A x \in ServerSockets \ handed' : heard'[x] = {}
    BY <1>1, <1>2, <1>3, <1>5, ServiceFacts
<1> QED BY <1>1, <1>4, <1>5, <1>6, <1>7, <1>8, ServerSide

LEMMA HandlerClosesOK ==
    ASSUME RemoteConsistent, NEW s \in ServerSockets, HandlerCloses(s),
           UNCHANGED <<relayVars, phoneVars>>
    PROVE  RemoteConsistent'
<1>1. /\ s \in handed /\ PeerDoes({}, {s}, Nothing, {}, {})
      /\ handed' = handed \ {s} /\ heard' = [heard EXCEPT ![s] = {}]
      /\ enabled' = enabled /\ connecting' = connecting /\ waits' = waits /\ retry' = retry
      /\ deadline' = deadline /\ keepalive' = keepalive
      /\ settings' = settings /\ faults' = faults
    BY DEF HandlerCloses, serviceVars
<1>2. s # connecting /\ s # waits
    BY <1>1, ServiceFacts
<1>3. ClientTypeOK' /\ OneRegistration'
    BY <1>1, ServiceFacts DEF ClientTypeOK, OneRegistration, Own
<1>4. faults' \in 0..MaxFaults
    BY <1>1, ServiceFacts, Counting
<1> QED BY <1>1, <1>2, <1>3, <1>4, ConnectionGone

\* Every step of the server.
LEMMA ServerStepOK ==
    ASSUME RemoteConsistent, ServerStep, UNCHANGED <<relayVars, phoneVars>>
    PROVE  RemoteConsistent'
<1>1. CASE Start \/ Stop \/ Reconnect \/ RegistrationTimeout \/ KeepaliveTimeout
    BY <1>1, StartOK, StopOK, ReconnectOK, RegistrationTimeoutOK, KeepaliveTimeoutOK
<1>2. ASSUME NEW s \in ServerSockets,
             ServerHandles(s) \/ ServerConnectFails(s) \/ HandlerCloses(s)
      PROVE  RemoteConsistent'
  <2>1. CASE ServerSocketCloses(s) \/ ServerConnectFails(s)
    <3>1. OnServerClose(s) /\ (UNCHANGED faults \/ Fault)
        BY <2>1 DEF ServerSocketCloses, ServerConnectFails
    <3>2. faults' \in 0..MaxFaults
        BY <3>1, ServiceFacts, Counting
    <3> QED BY <3>1, <3>2, OnServerCloseOK
  <2>2. CASE OnOpen(s) \/ OnRegistered(s) \/ OnRejected(s)
      BY <2>2, OnOpenOK, OnRegisteredOK, OnRejectedOK
  <2>3. CASE OnClaim(s) \/ OnRefusedClaim(s) \/ HandlerReads(s) \/ HandlerCloses(s)
      BY <2>3, OnClaimOK, OnRefusedClaimOK, HandlerReadsOK, HandlerClosesOK
  <2> QED BY <1>2, <2>1, <2>2, <2>3 DEF ServerHandles
<1> QED BY <1>1, <1>2 DEF ServerStep

\* An event of a phone: types, its connection and its frames.
LEMMA PhoneSide ==
    ASSUME RemoteConsistent, UNCHANGED <<relayVars, clientVars>>, NEW p \in PhoneSockets,
           NEW got, NEW gone, NEW says, NEW new, NEW state \in PhoneStates,
           got \cup gone \cup new \subseteq {p}, gone \cap new = {},
           \A s \in got \cap Sockets : down[s] # <<>>, Spoken(says),
           PeerDoes(got, gone, says, {}, new), UNCHANGED faults,
           Becomes(p, state),
           said' \in [PhoneSockets -> SUBSET Sockets],
           \A q \in PhoneSockets \ {p} : said'[q] = said[q],
           said'[p] \subseteq Carried(p),
           said'[p] # {} => state \in {"talking", "served"},
           state \in {"talking", "served"} => peer[p] = "open" /\ p \notin gone \cup new
    PROVE  RemoteConsistent'
<1>1. TypeOK /\ Ownership /\ ClientTypeOK /\ FrameSources
    BY DEF RemoteConsistent, TypeOK
<1>2. faults' \in 0..MaxFaults
    BY <1>1, Counting
<1>3. /\ relay' = relay /\ SocketsTypeOK'
      /\ Lasting(got, gone, {}, new)
      /\ \A s \in Sockets \cap new : peer'[s] = "opening"
      /\ \A s, f \in Sockets : Frame(f) \in Elems(down'[s]) => Frame(f) \in Elems(down[s])
      /\ \A s, f \in Sockets : Frame(f) \in Elems(up'[s]) => Frame(f) \in Elems(up[s]) \/ f = s
    BY <1>1, <1>2, PeerStep
<1>4. ClientTypeOK' /\ OneRegistration'
    BY DEF RemoteConsistent, TypeOK, ClientTypeOK, OneRegistration, Own, clientVars, serviceVars
<1>5. /\ \A s \in ServerSockets : s \in Sockets /\ s # p /\ s \notin PhoneSockets
      /\ \A q \in PhoneSockets : q \in Sockets /\ q \notin ServerSockets
    BY SocketsAssumption DEF Sockets
<1>6. phone' = [q \in PhoneSockets |-> IF q = p THEN state ELSE phone[q]]
    BY <1>1 DEF Becomes, TypeOK
<1>7. phone' \in [PhoneSockets -> PhoneStates]
    BY <1>1, <1>6 DEF TypeOK
<1>8. Ownership'
  <2>1. /\ connecting' = connecting /\ waits' = waits /\ handed' = handed /\ Own' = Own
      BY DEF clientVars, serviceVars, Own
  <2>2. connecting' # NoSocket => peer'[connecting'] # "none"
      BY <1>1, <1>3, <1>5, <2>1 DEF Ownership, Lasting, ClientTypeOK
  <2>3. waits' # NoSocket => peer'[waits'] \in {"open", "closing"}
      BY <1>1, <1>3, <1>5, <2>1 DEF Ownership, Lasting, ClientTypeOK
  <2>4. \A s \in handed' : peer'[s] \in {"open", "closing"}
      BY <1>1, <1>3, <1>5, <2>1 DEF Ownership, Lasting, ClientTypeOK
  <2>5. \A q \in PhoneSockets : phone'[q] \in {"talking", "served"} => peer'[q] = "open"
      BY <1>1, <1>3, <1>5, <1>6 DEF Ownership, Lasting
  <2> QED BY <1>1, <2>1, <2>2, <2>3, <2>4, <2>5 DEF Ownership
<1>9. FrameSources'
  <2>1. heard' = heard /\ handed' = handed
      BY DEF clientVars
  <2>2. \A s \in Sockets : ReadOn(s)' \subseteq Carried(s)
    <3>1. \A s \in ServerSockets : ReadOn(s)' \subseteq Carried(s)
        BY <2>1 DEF ReadOn, Carried
    <3>2. \A q \in PhoneSockets : ReadOn(q)' = said'[q] /\ said[q] \subseteq Carried(q)
        BY <1>5 DEF ReadOn, Carried
    <3>3. \A q \in PhoneSockets : said'[q] \subseteq Carried(q)
        BY <3>2
    <3> QED BY <3>1, <3>2, <3>3 DEF Sockets
  <2>3. \A s \in ServerSockets \ handed' : heard'[s] = {}
      BY <1>1, <2>1 DEF FrameSources
  <2>4. \A q \in PhoneSockets : said'[q] # {} => phone'[q] \in {"talking", "served"}
      BY <1>1, <1>6 DEF FrameSources
  <2> QED BY <1>3, <2>2, <2>3, <2>4, QuietPeers
<1> QED BY <1>3, <1>4, <1>7, <1>8, <1>9, PeerSide

\* What a phone holds of what it read.
LEMMA PhoneFacts ==
    ASSUME RemoteConsistent, NEW p \in PhoneSockets
    PROVE  /\ TypeOK /\ p \in Sockets /\ said \in [PhoneSockets -> SUBSET Sockets]
           /\ said[p] \subseteq Carried(p)
           /\ said[p] # {} => phone[p] \in {"talking", "served"}
           /\ phone[p] \in {"talking", "served"} => peer[p] = "open"
           /\ Spoken(Nothing) /\ Spoken(To(p, Frame(p))) /\ Spoken(To(p, Says("connect")))
           /\ PhoneStates = {"off", "opening", "asking", "connected", "talking", "served"}
<1>1. "connect" \in Control
    BY DEF Control
<1> QED BY <1>1, SpokenBy, SocketsAssumption
        DEF RemoteConsistent, TypeOK, Ownership, FrameSources, Carried, ReadOn, Sockets, PhoneStates

\* A phone closes its connection or loses it.
LEMMA PhoneGone ==
    ASSUME RemoteConsistent, UNCHANGED <<relayVars, clientVars>>, NEW p \in PhoneSockets,
           PeerDoes({}, {p}, Nothing, {}, {}), UNCHANGED faults, Becomes(p, "off"),
           said' = [said EXCEPT ![p] = {}]
    PROVE  RemoteConsistent'
<1>1. said' = [q \in PhoneSockets |-> IF q = p THEN {} ELSE said[q]]
    BY PhoneFacts
<1>2. /\ said' \in [PhoneSockets -> SUBSET Sockets]
      /\ \A q \in PhoneSockets \ {p} : said'[q] = said[q]
      /\ said'[p] = {}
    BY <1>1, PhoneFacts
<1>3. {} \cup {p} \cup {} \subseteq {p} /\ {p} \cap {} = {}
    OBVIOUS
<1>4. Spoken(Nothing) /\ "off" \in PhoneStates /\ \A s \in {} \cap Sockets : down[s] # <<>>
    BY PhoneFacts
<1> QED BY <1>2, <1>3, <1>4, PhoneSide

\* Every step of a phone.
LEMMA PhoneStepOK ==
    ASSUME RemoteConsistent, PhoneStep, UNCHANGED <<relayVars, clientVars>>
    PROVE  RemoteConsistent'
<1>1. PICK p \in PhoneSockets :
          PhoneHandles(p) \/ PhoneOpens(p) \/ PhoneTalks(p) \/ PhoneLeaves(p)
    BY DEF PhoneStep
<1>2. CASE PhoneOpens(p)
  <2>1. /\ phone[p] = "off" /\ PeerDoes({}, {}, Nothing, {}, {p}) /\ Becomes(p, "opening")
        /\ said' = said /\ UNCHANGED faults
      BY <1>2 DEF PhoneOpens
  <2>2. /\ {} \cup {} \cup {p} \subseteq {p} /\ {} \cap {p} = {} /\ said[p] = {}
        /\ "opening" \in PhoneStates /\ Spoken(Nothing)
        /\ \A s \in {} \cap Sockets : down[s] # <<>>
      BY <2>1, PhoneFacts
  <2> QED BY <2>1, <2>2, PhoneFacts, PhoneSide
<1>3. CASE PhoneAsks(p)
  <2>1. /\ phone[p] = "opening" /\ PeerHears(p, Says("opened"))
        /\ PeerDoes({p}, {}, To(p, Says("connect")), {}, {}) /\ Becomes(p, "asking")
        /\ said' = said /\ UNCHANGED faults
      BY <1>3 DEF PhoneAsks
  <2>2. down[p] # <<>>
      BY <2>1, PhoneFacts, Hearing
  <2>3. /\ {p} \cup {} \cup {} \subseteq {p} /\ {} \cap {} = {} /\ said[p] = {}
        /\ "asking" \in PhoneStates /\ Spoken(To(p, Says("connect")))
        /\ \A s \in {p} \cap Sockets : down[s] # <<>>
      BY <2>1, <2>2, PhoneFacts
  <2> QED BY <2>1, <2>3, PhoneFacts, PhoneSide
<1>4. CASE PhoneIsConnected(p)
  <2>1. /\ phone[p] = "asking" /\ PeerHears(p, Says("connected"))
        /\ PeerDoes({p}, {}, Nothing, {}, {}) /\ Becomes(p, "connected")
        /\ said' = said /\ UNCHANGED faults
      BY <1>4 DEF PhoneIsConnected
  <2>2. down[p] # <<>>
      BY <2>1, PhoneFacts, Hearing
  <2>3. /\ {p} \cup {} \cup {} \subseteq {p} /\ {} \cap {} = {} /\ said[p] = {}
        /\ "connected" \in PhoneStates /\ Spoken(Nothing)
        /\ \A s \in {p} \cap Sockets : down[s] # <<>>
      BY <2>1, <2>2, PhoneFacts
  <2> QED BY <2>1, <2>3, PhoneFacts, PhoneSide
<1>5. CASE PhoneIsRefused(p)
  <2>1. /\ phone[p] = "asking" /\ PeerDoes({}, {p}, Nothing, {}, {}) /\ Becomes(p, "off")
        /\ said' = said /\ UNCHANGED faults
      BY <1>5 DEF PhoneIsRefused
  <2>2. said[p] = {}
      BY <2>1, PhoneFacts
  <2>3. said' = [said EXCEPT ![p] = {}]
      BY <2>1, <2>2, PhoneFacts
  <2> QED BY <2>1, <2>3, PhoneGone
<1>6. CASE PhoneTalks(p)
  <2>1. /\ peer[p] = "open" /\ PeerDoes({}, {}, To(p, Frame(p)), {}, {})
        /\ Becomes(p, "talking") /\ said' = said /\ UNCHANGED faults
      BY <1>6 DEF PhoneTalks
  <2>2. /\ {} \cup {} \cup {} \subseteq {p} /\ {} \cap {} = {}
        /\ "talking" \in PhoneStates /\ Spoken(To(p, Frame(p)))
        /\ \A s \in {} \cap Sockets : down[s] # <<>>
      BY PhoneFacts
  <2> QED BY <2>1, <2>2, PhoneFacts, PhoneSide
<1>7. CASE PhoneReads(p)
  <2>1. /\ phone[p] = "talking" /\ \E f \in Sockets : PeerHears(p, Frame(f))
        /\ PeerDoes({p}, {}, Nothing, {}, {}) /\ Becomes(p, "served")
        /\ said' = [said EXCEPT ![p] = @ \cup {Head(down[p]).from}] /\ UNCHANGED faults
      BY <1>7 DEF PhoneReads
  <2>2. /\ down[p] # <<>>
        /\ Head(down[p]).from \in Sockets /\ Head(down[p]).from \in Carried(p)
      BY <2>1, PhoneFacts, HearingFrames
  <2>3. said' = [q \in PhoneSockets |->
                     IF q = p THEN said[p] \cup {Head(down[p]).from} ELSE said[q]]
      BY <2>1, PhoneFacts
  <2>4. /\ said' \in [PhoneSockets -> SUBSET Sockets]
        /\ \A q \in PhoneSockets \ {p} : said'[q] = said[q]
        /\ said'[p] \subseteq Carried(p)
      BY <2>2, <2>3, PhoneFacts
  <2>5. /\ {p} \cup {} \cup {} \subseteq {p} /\ {} \cap {} = {}
        /\ "served" \in PhoneStates /\ Spoken(Nothing) /\ peer[p] = "open"
        /\ \A s \in {p} \cap Sockets : down[s] # <<>>
      BY <2>1, <2>2, PhoneFacts
  <2> QED BY <2>1, <2>4, <2>5, PhoneSide
<1>8. CASE PhoneSocketCloses(p) \/ PhoneLeaves(p)
    BY <1>8, PhoneGone DEF PhoneSocketCloses, PhoneLeaves
<1> QED BY <1>1, <1>2, <1>3, <1>4, <1>5, <1>6, <1>7, <1>8 DEF PhoneHandles

-----------------------------------------------------------------------------
(* Part 5.                                                                  *)

\* The word a relay confirms a registration with is no other.
LEMMA Confirming ==
    /\ \A t \in Control : Says(t) = Says("registered") => t = "registered"
    /\ \A f \in Sockets : Frame(f) # Says("registered")
    /\ Close # Says("registered")
<1>1. \A t \in Control : Says(t) = Says("registered") => t = "registered"
    BY DEF Says
<1>2. "registered" \in Control /\ "close" \in Control
    BY DEF Control
<1> QED BY <1>1, <1>2, Frames DEF Close

\* An event at the relay: who is confirmed by it, and who is let go.
LEMMA RelayKnown ==
    ASSUME RemoteConsistent, RegistrationIsKnown, NEW got, NEW gone, NEW says, NEW closes,
           \A s \in got \cap Sockets : up[s] # <<>>,
           \A s \in DOMAIN says : says[s] \in Message,
           RelayDoes(got, gone, says, closes), waits' = waits,
           \A s \in ServerSockets \ (gone \cup closes) :
               \/ s = waiting \/ lookup[s] # NoPair
               \/ s \in DOMAIN says /\ says[s] = Says("registered")
               => s = waiting' \/ lookup'[s] # NoPair
    PROVE  RegistrationIsKnown'
<1>1. SocketsTypeOK
    BY DEF RemoteConsistent, TypeOK
<1>2. \A s \in Sockets :
          Elems(down'[s]) \subseteq Elems(down[s]) \cup {Close} \cup Said(s, says)
    BY <1>1, RelayEffect
<1>3. \A s \in Sockets : relay'[s] = "open" => relay[s] = "open" /\ s \notin gone \cup closes
    BY DEF RelayDoes
<1>4. ASSUME NEW s \in ServerSockets, Confirmed(s)', relay'[s] = "open"
      PROVE  s = waiting' \/ lookup'[s] # NoPair
  <2>1. s \in Sockets
      BY DEF Sockets
  <2>2. relay[s] = "open" /\ s \notin gone \cup closes
      BY <1>3, <1>4, <2>1
  <2>3. Confirmed(s) \/ (s \in DOMAIN says /\ says[s] = Says("registered"))
      BY <1>2, <1>4, <2>1, Confirming DEF Confirmed, Said
  <2> QED BY <2>2, <2>3 DEF RegistrationIsKnown
<1> QED BY <1>4 DEF RegistrationIsKnown

\* An event at a peer confirms nothing; the service believes what it heard.
LEMMA PeerKnown ==
    ASSUME RemoteConsistent, RegistrationIsKnown, NEW got, NEW gone, NEW says, NEW closes, NEW new,
           \A s \in got \cap Sockets : down[s] # <<>>, Spoken(says),
           PeerDoes(got, gone, says, closes, new),
           waiting' = waiting, lookup' = lookup,
           \A s \in ServerSockets : s = waits' => Confirmed(s)
    PROVE  RegistrationIsKnown'
<1>1. SocketsTypeOK
    BY DEF RemoteConsistent, TypeOK
<1>2. \A s \in DOMAIN says : says[s] \in Message
    BY Frames DEF Spoken
<1>3. relay' = relay /\ \A s \in Sockets : Elems(down'[s]) \subseteq Elems(down[s])
    BY <1>1, <1>2, PeerEffect
<1>4. \A s \in ServerSockets : Confirmed(s)' => Confirmed(s)
    BY <1>3 DEF Confirmed, Sockets
<1> QED BY <1>3, <1>4 DEF RegistrationIsKnown

\* A registration: the newer one is the waiting one, the older is closed.
LEMMA OnRegisterKnown ==
    ASSUME RemoteConsistent, RegistrationIsKnown, NEW s \in ServerSockets, OnRegister(s),
           UNCHANGED <<clientVars, phoneVars>>
    PROVE  RegistrationIsKnown'
<1>1. up[s] # <<>> /\ s \in Sockets /\ waits' = waits
    BY Hearing DEF OnRegister, clientVars, serviceVars, Sockets
<1>2. {"rejected", "registered"} \subseteq Control /\ "rejected" # "registered"
    BY DEF Control
<1>3. CASE owner = "other"
  <2>1. RelayDoes({s}, {}, To(s, Says("rejected")), {s}) /\ UNCHANGED relayVars
      BY <1>3 DEF OnRegister
  <2>2. waiting' = waiting /\ lookup' = lookup
      BY <2>1 DEF relayVars
  <2>3. \A x \in DOMAIN To(s, Says("rejected")) :
            /\ To(s, Says("rejected"))[x] = Says("rejected")
            /\ Says("rejected") # Says("registered") /\ Says("rejected") \in Message
    <3>1. Says("rejected") # Says("registered") /\ Says("rejected") \in Message
        BY <1>2, Confirming, Frames
    <3> QED BY <3>1 DEF To
  <2> QED BY <1>1, <2>1, <2>2, <2>3, RelayKnown
<1>4. CASE owner # "other"
  <2>1. /\ RelayDoes({s}, {}, To(s, Says("registered")), {waiting} \cap Sockets)
        /\ waiting' = s /\ lookup' = lookup
      BY <1>4 DEF OnRegister, RegisterServer
  <2>2. \A x \in DOMAIN To(s, Says("registered")) :
            x = s /\ To(s, Says("registered"))[x] \in Message
    <3>1. Says("registered") \in Message
        BY <1>2, Frames
    <3> QED BY <3>1 DEF To
  <2>3. \A x \in ServerSockets : x \in Sockets
      BY DEF Sockets
  <2> QED BY <1>1, <2>1, <2>2, <2>3, RelayKnown
<1> QED BY <1>3, <1>4

\* A phone takes the waiting registration, or is refused.
LEMMA OnConnectKnown ==
    ASSUME RemoteConsistent, RegistrationIsKnown, NEW p \in PhoneSockets, OnConnect(p),
           UNCHANGED <<clientVars, phoneVars>>
    PROVE  RegistrationIsKnown'
<1>1. up[p] # <<>> /\ p \in Sockets /\ waits' = waits
    BY Hearing DEF OnConnect, clientVars, serviceVars, Sockets
<1>2. {"refused", "connected"} \subseteq Control
    BY DEF Control
<1>3. \A t \in {"refused", "connected"} : \A x \in DOMAIN To(p, Says(t)) :
          x \notin ServerSockets /\ To(p, Says(t))[x] \in Message
  <2>1. p \notin ServerSockets
      BY SocketsAssumption
  <2>2. Says("refused") \in Message /\ Says("connected") \in Message
      BY <1>2, Frames
  <2> QED BY <2>1, <2>2 DEF To
<1>4. CASE Offline
  <2>1. RelayDoes({p}, {}, To(p, Says("refused")), {p}) /\ UNCHANGED relayVars
      BY <1>4 DEF OnConnect
  <2>2. waiting' = waiting /\ lookup' = lookup
      BY <2>1 DEF relayVars
  <2> QED BY <1>1, <1>3, <2>1, <2>2, RelayKnown
<1>5. CASE ~Offline
  <2> DEFINE pair == [server |-> waiting, client |-> p]
  <2>1. /\ RelayDoes({p}, {}, To(p, Says("connected")), {})
        /\ lookup' = [lookup EXCEPT ![waiting] = pair, ![p] = pair]
      BY <1>5 DEF OnConnect, PairUp
  <2>2. waiting # NoSocket /\ waiting \in Sockets /\ lookup \in [Sockets -> Pair \cup {NoPair}]
      BY <1>5 DEF Offline, RemoteConsistent, TypeOK, RelayTypeOK, Sockets
  <2>3. pair # NoPair
      BY <2>2 DEF NoPair
  <2> HIDE DEF pair
  <2>4. \A s \in ServerSockets : s = waiting \/ lookup[s] # NoPair => lookup'[s] # NoPair
      BY <1>1, <2>1, <2>2, <2>3 DEF Sockets
  <2> QED BY <1>1, <1>3, <2>1, <2>4, RelayKnown
<1> QED BY <1>4, <1>5

\* A pair or a waiting connection that is given up is closed.
LEMMA UnpairedKnown ==
    ASSUME RemoteConsistent, NEW pair \in pairs, Unpair(pair)
    PROVE  \A s \in Sockets \ Ends(pair) : lookup'[s] = lookup[s]
<1>1. lookup' = [lookup EXCEPT ![pair.server] = NoPair, ![pair.client] = NoPair]
    BY DEF Unpair
<1> QED BY <1>1 DEF RemoteConsistent, TypeOK, RelayTypeOK, Ends

LEMMA OnCloseKnown ==
    ASSUME RemoteConsistent, RegistrationIsKnown, NEW s \in Sockets, OnClose(s),
           UNCHANGED <<clientVars, phoneVars>>
    PROVE  RegistrationIsKnown'
<1>1. /\ RelayDoes({}, {s}, Nothing, ClosedWith(s)) /\ HandleClose(s) /\ waits' = waits
      /\ DOMAIN Nothing = {}
    BY Speech DEF OnClose, clientVars, serviceVars
<1>2. \A x \in ServerSockets : x \in Sockets
    BY DEF Sockets
<1>3. CASE waiting = s
  <2>1. lookup' = lookup
      BY <1>1, <1>3 DEF HandleClose, ForgetWaiting
  <2> QED BY <1>1, <1>3, <2>1, RelayKnown
<1>4. CASE waiting # s /\ lookup[s] # NoPair
  <2>1. lookup[s] \in pairs /\ Unpair(lookup[s]) /\ ClosedWith(s) = Ends(lookup[s]) \ {s}
      BY <1>1, <1>4 DEF RemoteConsistent, PairingExact, HandleClose, ClosedWith
  <2>2. waiting' = waiting
      BY <2>1 DEF Unpair
  <2>3. \A x \in ServerSockets \ ({s} \cup ClosedWith(s)) : lookup'[x] = lookup[x]
      BY <1>2, <2>1, UnpairedKnown
  <2> QED BY <1>1, <2>2, <2>3, RelayKnown
<1>5. CASE waiting # s /\ lookup[s] = NoPair
  <2>1. waiting' = waiting /\ lookup' = lookup
      BY <1>1, <1>5 DEF HandleClose
  <2> QED BY <1>1, <2>1, RelayKnown
<1> QED BY <1>3, <1>4, <1>5

LEMMA SilentPairKnown ==
    ASSUME RemoteConsistent, RegistrationIsKnown, NEW pair \in pairs, SilentPairTimeout(pair),
           UNCHANGED <<clientVars, phoneVars>>
    PROVE  RegistrationIsKnown'
<1>1. /\ RelayDoes({}, {}, Nothing, Ends(pair)) /\ Unpair(pair) /\ waits' = waits
      /\ DOMAIN Nothing = {} /\ waiting' = waiting
    BY Speech DEF SilentPairTimeout, Unpair, clientVars, serviceVars
<1>2. \A x \in ServerSockets \ Ends(pair) : lookup'[x] = lookup[x]
    BY <1>1, UnpairedKnown DEF Sockets
<1> QED BY <1>1, <1>2, RelayKnown

\* Deadlines and frames leave the tables alone.
LEMMA DeadlineKnown ==
    ASSUME RemoteConsistent, RegistrationIsKnown, NEW s \in Sockets,
           PongTimeout(s) \/ NeverAuthenticated(s), UNCHANGED <<clientVars, phoneVars>>
    PROVE  RegistrationIsKnown'
<1>1. /\ RelayDoes({}, {}, Nothing, {s}) /\ DOMAIN Nothing = {}
      /\ waiting' = waiting /\ lookup' = lookup /\ waits' = waits
    BY Speech DEF PongTimeout, NeverAuthenticated, relayVars, clientVars, serviceVars
<1> QED BY <1>1, RelayKnown

LEMMA OnFrameKnown ==
    ASSUME RemoteConsistent, RegistrationIsKnown, NEW s \in Sockets, OnFrame(s),
           UNCHANGED <<clientVars, phoneVars>>
    PROVE  RegistrationIsKnown'
<1>1. PICK f \in Sockets : RelayHears(s, Frame(f))
    BY DEF OnFrame
<1>2. up[s] # <<>> /\ Head(up[s]) = Frame(f) /\ Frame(f) \in Message
    BY <1>1, Hearing, Frames
<1>3. PICK says : /\ RelayDoes({s}, {}, says, {})
                  /\ says = Nothing \/ \E t : says = To(t, Head(up[s]))
    BY DEF OnFrame
<1>4. \A x \in DOMAIN says : says[x] = Frame(f)
  <2>1. CASE says = Nothing
      BY <2>1 DEF Nothing
  <2>2. CASE \E t : says = To(t, Head(up[s]))
      BY <1>2, <2>2 DEF To
  <2> QED BY <1>3, <2>1, <2>2
<1>5. waiting' = waiting /\ lookup' = lookup /\ waits' = waits
    BY DEF OnFrame, clientVars, serviceVars
<1> QED BY <1>2, <1>3, <1>4, <1>5, Confirming, RelayKnown

\* A new connection at the relay is not the one that waits.
LEMMA RelayAcceptsKnown ==
    ASSUME RemoteConsistent, RegistrationIsKnown, NEW s \in Sockets, RelayAccepts(s),
           UNCHANGED <<clientVars, phoneVars>>
    PROVE  RegistrationIsKnown'
<1>1. /\ peer[s] = "opening"
      /\ relay' = [relay EXCEPT ![s] = "open"] /\ down' = [down EXCEPT ![s] = <<Says("opened")>>]
      /\ waiting' = waiting /\ lookup' = lookup /\ waits' = waits
    BY DEF RelayAccepts, relayVars, clientVars, serviceVars
<1>2. relay \in [Sockets -> RelayEnds] /\ down \in [Sockets -> Seq(Message)]
    BY DEF RemoteConsistent, TypeOK, SocketsTypeOK
<1>3. waits # NoSocket => waits # s
    BY <1>1 DEF RemoteConsistent, Ownership
<1>4. "opened" \in Control /\ "opened" # "registered"
    BY DEF Control
<1>5. Says("opened") \in Message /\ Says("opened") # Says("registered")
    BY <1>4, Confirming DEF Says, Message
<1>6. Elems(<<Says("opened")>>) = {Says("opened")}
    BY <1>5, Short
<1>7. s # NoSocket /\ \A x \in ServerSockets : x \in Sockets
    BY SocketsAssumption DEF Sockets
<1>8. ASSUME NEW x \in ServerSockets, Confirmed(x)', relay'[x] = "open"
      PROVE  Confirmed(x) /\ relay[x] = "open"
  <2>1. x # s
      BY <1>1, <1>2, <1>3, <1>5, <1>6, <1>7, <1>8 DEF Confirmed
  <2> QED BY <1>1, <1>2, <1>7, <1>8, <2>1 DEF Confirmed
<1> QED BY <1>1, <1>8 DEF RegistrationIsKnown

LEMMA RelayStepKnown ==
    ASSUME RemoteConsistent, RegistrationIsKnown, UNCHANGED <<clientVars, phoneVars>>,
           RelayStep \/ OtherRegisters \/ RelayRestarts
    PROVE  RegistrationIsKnown'
<1>1. ASSUME NEW s \in Sockets,
             RelayAccepts(s) \/ OnFrame(s) \/ RelayCloses(s) \/ NeverAuthenticated(s)
      PROVE  RegistrationIsKnown'
    BY <1>1, RelayAcceptsKnown, OnFrameKnown, OnCloseKnown, DeadlineKnown DEF RelayCloses
<1>2. ASSUME NEW s \in ServerSockets, OnRegister(s) \/ PongTimeout(s)
      PROVE  RegistrationIsKnown'
  <2>1. s \in Sockets
      BY DEF Sockets
  <2> QED BY <1>2, <2>1, OnRegisterKnown, DeadlineKnown
<1>3. ASSUME NEW p \in PhoneSockets, OnConnect(p)
      PROVE  RegistrationIsKnown'
    BY <1>3, OnConnectKnown
<1>4. ASSUME NEW pair \in pairs, SilentPairTimeout(pair)
      PROVE  RegistrationIsKnown'
    BY <1>4, SilentPairKnown
<1>5. CASE OtherRegisters
  <2>1. UNCHANGED <<relay, down, waiting, lookup, waits>>
      BY <1>5 DEF OtherRegisters, socketVars, clientVars, serviceVars
  <2> QED BY <2>1 DEF RegistrationIsKnown, Confirmed
<1>6. CASE RelayRestarts
  <2>1. \A s \in ServerSockets : relay'[s] = "none"
      BY <1>6 DEF RelayRestarts, Sockets
  <2> QED BY <2>1 DEF RegistrationIsKnown
<1> QED BY <1>1, <1>2, <1>3, <1>4, <1>5, <1>6 DEF RelayStep

\* The server: only server_registered makes it trust in a connection.
LEMMA ServerStepKnown ==
    ASSUME RemoteConsistent, RegistrationIsKnown, ServerStep, UNCHANGED <<relayVars, phoneVars>>
    PROVE  RegistrationIsKnown'
<1>0. TypeOK /\ ClientTypeOK /\ waiting' = waiting /\ lookup' = lookup
    BY DEF RemoteConsistent, TypeOK, relayVars
<1>1. \A x \in ServerSockets : x \in Sockets /\ x # NoSocket /\ (x = waits => Confirmed(x))
    BY SocketsAssumption DEF Sockets, Confirmed
<1>2. /\ Spoken(Nothing) /\ \A x \in Sockets : Spoken(To(x, Frame(x)))
      /\ \A x \in Sockets : Spoken(To(x, Says("register")))
    BY SpokenBy DEF Control
<1>3. CASE Start
    BY <1>0, <1>1, <1>2, <1>3, PeerKnown DEF Start
<1>4. CASE Stop
    BY <1>0, <1>1, <1>2, <1>4, PeerKnown DEF Stop
<1>5. CASE Reconnect
    BY <1>0, <1>1, <1>2, <1>5, PeerKnown DEF Reconnect
<1>6. CASE RegistrationTimeout
    BY <1>0, <1>1, <1>2, <1>6, PeerKnown DEF RegistrationTimeout, clientVars, serviceVars
<1>7. CASE KeepaliveTimeout
    BY <1>0, <1>1, <1>2, <1>7, PeerKnown DEF KeepaliveTimeout
<1>8. ASSUME NEW s \in ServerSockets,
             ServerHandles(s) \/ ServerConnectFails(s) \/ HandlerCloses(s)
      PROVE  RegistrationIsKnown'
  <2>0. s \in Sockets
      BY DEF Sockets
  <2>1. CASE OnOpen(s)
      BY <1>0, <1>1, <1>2, <2>0, <2>1, Hearing, PeerKnown DEF OnOpen
  <2>2. CASE OnRegistered(s)
    <3>1. PeerHears(s, Says("registered")) /\ PeerDoes({s}, {}, Nothing, {}, {}) /\ waits' = s
        BY <2>2 DEF OnRegistered
    <3>2. down[s] # <<>> /\ Head(down[s]) = Says("registered") /\ down[s] \in Seq(Message)
        BY <1>0, <2>0, <3>1, Hearing DEF TypeOK, SocketsTypeOK
    <3>3. Confirmed(s)
        BY <3>2, Reading DEF Confirmed
    <3> QED BY <1>0, <1>2, <3>1, <3>2, <3>3, PeerKnown
  <2>3. CASE OnRejected(s)
      BY <1>0, <1>1, <1>2, <2>0, <2>3, Hearing, PeerKnown DEF OnRejected
  <2>4. CASE OnClaim(s)
    <3>1. down[s] # <<>> /\ \E t : PeerDoes({s}, {}, To(s, Frame(s)), {}, {New})
        BY <1>0, <2>0, <2>4, HearingFrames DEF OnClaim, HearsFrame
    <3>2. \A x \in ServerSockets : x = waits' => x = waits
        BY <1>1, <2>4 DEF OnClaim
    <3> QED BY <1>0, <1>1, <1>2, <2>0, <3>1, <3>2, PeerKnown
  <2>5. CASE OnRefusedClaim(s)
      BY <1>0, <1>1, <1>2, <2>5, PeerKnown DEF OnRefusedClaim
  <2>6. CASE HandlerReads(s)
    <3>1. down[s] # <<>>
        BY <1>0, <2>0, <2>6, HearingFrames DEF HandlerReads, HearsFrame
    <3> QED BY <1>0, <1>1, <1>2, <2>0, <2>6, <3>1, PeerKnown DEF HandlerReads, serviceVars
  <2>7. CASE ServerSocketCloses(s) \/ ServerConnectFails(s)
    <3>1. PeerDoes({}, {s}, Nothing, {}, {}) /\ waits' = (IF s = waits THEN NoSocket ELSE waits)
        BY <2>7 DEF ServerSocketCloses, ServerConnectFails, OnServerClose
    <3> QED BY <1>0, <1>1, <1>2, <3>1, PeerKnown
  <2>8. CASE HandlerCloses(s)
      BY <1>0, <1>1, <1>2, <2>8, PeerKnown DEF HandlerCloses, serviceVars
  <2> QED BY <1>8, <2>1, <2>2, <2>3, <2>4, <2>5, <2>6, <2>7, <2>8 DEF ServerHandles
<1> QED BY <1>3, <1>4, <1>5, <1>6, <1>7, <1>8 DEF ServerStep

LEMMA PhoneStepKnown ==
    ASSUME RemoteConsistent, RegistrationIsKnown, PhoneStep, UNCHANGED <<relayVars, clientVars>>
    PROVE  RegistrationIsKnown'
<1>0. TypeOK /\ waiting' = waiting /\ lookup' = lookup /\ waits' = waits
    BY DEF RemoteConsistent, relayVars, clientVars, serviceVars
<1>1. \A x \in ServerSockets : x = waits' => Confirmed(x)
    BY <1>0 DEF Confirmed
<1>2. PICK p \in PhoneSockets :
          PhoneHandles(p) \/ PhoneOpens(p) \/ PhoneTalks(p) \/ PhoneLeaves(p)
    BY DEF PhoneStep
<1>3. p \in Sockets
    BY DEF Sockets
<1>4. Spoken(Nothing) /\ Spoken(To(p, Frame(p))) /\ Spoken(To(p, Says("connect")))
    BY <1>3, SpokenBy DEF Control
<1>5. CASE PhoneAsks(p)
    BY <1>0, <1>1, <1>3, <1>4, <1>5, Hearing, PeerKnown DEF PhoneAsks
<1>6. CASE PhoneIsConnected(p)
    BY <1>0, <1>1, <1>3, <1>4, <1>6, Hearing, PeerKnown DEF PhoneIsConnected
<1>7. CASE PhoneIsRefused(p)
    BY <1>0, <1>1, <1>4, <1>7, PeerKnown DEF PhoneIsRefused
<1>8. CASE PhoneReads(p)
  <2>1. down[p] # <<>>
      BY <1>3, <1>8, Hearing DEF PhoneReads
  <2> QED BY <1>0, <1>1, <1>4, <1>8, <2>1, PeerKnown DEF PhoneReads
<1>9. CASE PhoneSocketCloses(p)
    BY <1>0, <1>1, <1>4, <1>9, PeerKnown DEF PhoneSocketCloses
<1>10. CASE PhoneOpens(p)
    BY <1>0, <1>1, <1>4, <1>10, PeerKnown DEF PhoneOpens
<1>11. CASE PhoneTalks(p)
    BY <1>0, <1>1, <1>4, <1>11, PeerKnown DEF PhoneTalks
<1>12. CASE PhoneLeaves(p)
    BY <1>0, <1>1, <1>4, <1>12, PeerKnown DEF PhoneLeaves
<1> QED BY <1>2, <1>5, <1>6, <1>7, <1>8, <1>9, <1>10, <1>11, <1>12 DEF PhoneHandles

LEMMA InitKnown == Init => RegistrationIsKnown
BY DEF Init, SocketsInit, RegistrationIsKnown, Sockets

LEMMA NextKnown ==
    ASSUME RemoteConsistent, RegistrationIsKnown, [Next]_vars
    PROVE  RegistrationIsKnown'
<1>1. CASE (\E s \in Sockets : LinkDies(s)) /\ UNCHANGED <<relayVars, clientVars, phoneVars>>
  <2>1. UNCHANGED <<relay, down, waiting, lookup, waits>>
      BY <1>1 DEF LinkDies, relayVars, clientVars, serviceVars
  <2> QED BY <2>1 DEF RegistrationIsKnown, Confirmed
<1>2. CASE UNCHANGED vars
  <2>1. UNCHANGED <<relay, down, waiting, lookup, waits>>
      BY <1>2 DEF vars, socketVars, relayVars, clientVars, serviceVars
  <2> QED BY <2>1 DEF RegistrationIsKnown, Confirmed
<1> QED BY <1>1, <1>2, RelayStepKnown, ServerStepKnown, PhoneStepKnown DEF Next

-----------------------------------------------------------------------------
(* Part 6.                                                                  *)

LEMMA InitOK == Init => RemoteConsistent
<1> SUFFICES ASSUME Init PROVE RemoteConsistent
    OBVIOUS
<1>1. SocketsInit /\ RelayInit /\ ClientInit
    BY DEF Init
<1>2. SocketsTypeOK
    BY <1>1, SocketsAssumption, Short DEF SocketsInit, SocketsTypeOK, PeerEnds, RelayEnds
<1>3. RelayTypeOK /\ PairingExact /\ Bookkeeping
    BY <1>1 DEF RelayInit, RelayTypeOK, Owners, PairingExact, Paired, Bookkeeping
<1>4. ClientTypeOK /\ OneRegistration
  <2>1. 0 \in 0..MaxSettings
      BY ClientAssumption
  <2>2. ClientTypeOK
      BY <1>1, <2>1 DEF ClientInit, ClientTypeOK
  <2> QED BY <1>1, <2>2 DEF ClientInit, OneRegistration, Own
<1>5. TypeOK
    BY <1>2, <1>3, <1>4 DEF Init, TypeOK, PhoneStates
<1>6. Ownership
    BY <1>1 DEF Init, SocketsInit, ClientInit, Ownership
<1>7. FrameSources
  <2>1. \A s \in Sockets : Carried(s) = {} /\ up[s] = <<>>
    <3>1. \A s \in Sockets : ReadOn(s) = {}
        BY <1>1 DEF Init, ClientInit, ReadOn, Sockets
    <3> QED BY <1>1, <3>1, Short DEF SocketsInit, Carried
  <2> QED BY <1>1, <2>1, Short DEF FrameSources, Init, ClientInit
<1> QED BY <1>3, <1>4, <1>5, <1>6, <1>7 DEF RemoteConsistent

LEMMA StutterOK ==
    ASSUME RemoteConsistent, UNCHANGED vars
    PROVE  RemoteConsistent'
<1>1. /\ UNCHANGED <<clientVars, phoneVars>> /\ UNCHANGED relayVars
      /\ UNCHANGED <<peer, relay, up, down, dead, faults>>
    BY DEF vars, socketVars
<1>2. SocketsTypeOK' /\ owner \in Owners
    BY <1>1 DEF RemoteConsistent, TypeOK, SocketsTypeOK, RelayTypeOK
<1> QED BY <1>1, <1>2, TablesAlone DEF relayVars

LEMMA NextOK ==
    ASSUME RemoteConsistent, [Next]_vars
    PROVE  RemoteConsistent'
<1>1. CASE RelayStep /\ UNCHANGED <<clientVars, phoneVars>>
  <2>1. ASSUME NEW s \in Sockets,
               RelayAccepts(s) \/ OnFrame(s) \/ RelayCloses(s) \/ NeverAuthenticated(s)
        PROVE  RemoteConsistent'
      BY <1>1, <2>1, RelayAcceptsOK, OnFrameOK, OnCloseOK, NeverAuthenticatedOK DEF RelayCloses
  <2>2. ASSUME NEW s \in ServerSockets, OnRegister(s) \/ PongTimeout(s)
        PROVE  RemoteConsistent'
      BY <1>1, <2>2, OnRegisterOK, PongTimeoutOK
  <2>3. ASSUME NEW p \in PhoneSockets, OnConnect(p)
        PROVE  RemoteConsistent'
      BY <1>1, <2>3, OnConnectOK
  <2>4. ASSUME NEW pair \in pairs, SilentPairTimeout(pair)
        PROVE  RemoteConsistent'
      BY <1>1, <2>4, SilentPairTimeoutOK
  <2> QED BY <1>1, <2>1, <2>2, <2>3, <2>4 DEF RelayStep
<1>2. CASE (OtherRegisters \/ RelayRestarts) /\ UNCHANGED <<clientVars, phoneVars>>
    BY <1>2, OtherRegistersOK, RelayRestartsOK
<1>3. CASE ServerStep /\ UNCHANGED <<relayVars, phoneVars>>
    BY <1>3, ServerStepOK
<1>4. CASE PhoneStep /\ UNCHANGED <<relayVars, clientVars>>
    BY <1>4, PhoneStepOK
<1>5. CASE (\E s \in Sockets : LinkDies(s)) /\ UNCHANGED <<relayVars, clientVars, phoneVars>>
    BY <1>5, LinkDiesOK
<1>6. CASE UNCHANGED vars
    BY <1>6, StutterOK
<1> QED BY <1>1, <1>2, <1>3, <1>4, <1>5, <1>6 DEF Next

\* The relay's tables, the server's connections and the frames under way stay
\* consistent, whatever happens on the links and however often the relay
\* restarts or the settings change.
THEOREM RemoteStaysConsistent == Spec => []RemoteInductive
<1>1. Init => RemoteInductive
    BY InitOK, InitKnown DEF RemoteInductive
<1>2. RemoteInductive /\ [Next]_vars => RemoteInductive'
    BY NextOK, NextKnown DEF RemoteInductive
<1> QED BY <1>1, <1>2, PTL DEF Spec

\* Types of the relay, the server, the phones and the connections.
THEOREM RemoteTypeCorrect == Spec => []TypeOK
<1>1. RemoteInductive => TypeOK
    BY DEF RemoteInductive, RemoteConsistent
<1> QED BY <1>1, RemoteStaysConsistent, PTL

\* connections.ts keeps waiting, pairs, lookup, timers and what it reports
\* online in step.
THEOREM PairingStaysExact == Spec => []PairingExact
<1>1. RemoteInductive => PairingExact
    BY DEF RemoteInductive, RemoteConsistent
<1> QED BY <1>1, RemoteStaysConsistent, PTL

\* RelayClientService.ts never keeps two registrations under way, and is
\* never enabled with nothing that would lead to one.
THEOREM OneRegistrationAtATime == Spec => []OneRegistration
<1>1. RemoteInductive => OneRegistration
    BY DEF RemoteInductive, RemoteConsistent
<1> QED BY <1>1, RemoteStaysConsistent, PTL

\* The relay never forwards frames of two phones to one connection of the
\* server, nor of two of its connections to one phone.
THEOREM FramesNeverCross == Spec => []FramesStayInPair
<1>1. RemoteInductive => FramesStayInPair
  <2> SUFFICES ASSUME RemoteInductive PROVE FramesStayInPair
      OBVIOUS
  <2>1. \A s \in Sockets : \A f, g \in Carried(s) : f = g
      BY DEF RemoteInductive, RemoteConsistent, FrameSources
  <2>2. \A s \in ServerSockets : s \in Sockets /\ heard[s] \subseteq Carried(s)
      BY DEF Sockets, Carried, ReadOn
  <2>3. \A p \in PhoneSockets : p \in Sockets /\ said[p] \subseteq Carried(p)
      BY SocketsAssumption DEF Sockets, Carried, ReadOn
  <2> QED BY <2>1, <2>2, <2>3 DEF FramesStayInPair
<1> QED BY <1>1, RemoteStaysConsistent, PTL

\* RelayClientService.ts trusts in no registration that the relay has dropped
\* without closing its connection.
THEOREM WaitingStaysRegistered == Spec => []WaitingIsRegistered
<1>1. RemoteInductive => WaitingIsRegistered
    BY DEF RemoteInductive, RegistrationIsKnown, Confirmed, WaitingIsRegistered
<1> QED BY <1>1, RemoteStaysConsistent, PTL
=============================================================================
