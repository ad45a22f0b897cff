----------------------- MODULE NonblockingServerProofs -----------------------
(***************************************************************************)
(* What NonblockingServer keeps true for any number of peers, any stream   *)
(* and any kernel buffer: one wait per open connection, and every byte in  *)
(* its place.                                                              *)
(***************************************************************************)
EXTENDS NonblockingServer, SequenceTheorems, TLAPS

EchoInv == Types /\ OneWait /\ NothingLost

Byte == 1 .. MaxBytes

-----------------------------------------------------------------------------
(* Streams and sequences.                                                  *)

(* An element appended to a sequence.                                      *)
LEMMA Appended ==
  ASSUME NEW S, NEW s \in Seq(S), NEW e \in S, NEW t, t = Append(s, e)
  PROVE  /\ t \in Seq(S) /\ Len(t) = Len(s) + 1
         /\ \A k \in 1 .. Len(s) : t[k] = s[k]
         /\ t[Len(s) + 1] = e
  OBVIOUS

LEMMA StreamGrows ==
  ASSUME NEW n \in Nat
  PROVE  /\ Stream(n) \in Seq(1 .. n)
         /\ Append(Stream(n), n + 1) = Stream(n + 1)
<1>1. /\ Stream(n) \in Seq(1 .. n) /\ Len(Stream(n)) = n
      /\ \A k \in 1 .. n : Stream(n)[k] = k
  BY DEF Stream
<1>2. /\ Stream(n + 1) \in Seq(1 .. n + 1) /\ Len(Stream(n + 1)) = n + 1
      /\ \A k \in 1 .. n + 1 : Stream(n + 1)[k] = k
  BY DEF Stream
<1>3. Stream(n) \in Seq(1 .. n + 1)
  <2>1. 1 .. n \subseteq 1 .. n + 1
    OBVIOUS
  <2>. QED  BY <1>1, <2>1, SeqMonotonic
<1>4. /\ Append(Stream(n), n + 1) \in Seq(1 .. n + 1)
      /\ Len(Append(Stream(n), n + 1)) = n + 1
      /\ \A k \in 1 .. n : Append(Stream(n), n + 1)[k] = k
      /\ Append(Stream(n), n + 1)[n + 1] = n + 1
  <2>1. n + 1 \in 1 .. n + 1
    OBVIOUS
  <2>. DEFINE s == Stream(n)
              t == Append(s, n + 1)
  <2>2. /\ t \in Seq(1 .. n + 1)
        /\ Len(t) = Len(s) + 1
        /\ \A k \in 1 .. Len(s) : t[k] = s[k]
        /\ t[Len(s) + 1] = n + 1
    <3>. HIDE DEF s, t
    <3>1. s \in Seq(1 .. n + 1) /\ t = Append(s, n + 1)
      BY <1>3 DEF s, t
    <3>. QED  BY <2>1, <3>1
  <2>. QED  BY <1>1, <2>2
<1>5. \A k \in 1 .. n + 1 : Append(Stream(n), n + 1)[k] = Stream(n + 1)[k]
  BY <1>2, <1>4
<1>6. Append(Stream(n), n + 1) = Stream(n + 1)
  BY <1>2, <1>4, <1>5, SeqEqual
<1>. QED  BY <1>1, <1>6

(* The sequence of one element.                                            *)
LEMMA Singleton ==
  ASSUME NEW S, NEW e \in S
  PROVE  <<e>> \in Seq(S)
OBVIOUS

(* An element appended to the second of two parts is appended to both.     *)
LEMMA AppendToWhole ==
  ASSUME NEW S, NEW x \in Seq(S), NEW d \in Seq(S), NEW e \in S
  PROVE  x \o Append(d, e) = Append(x \o d, e)
<1>1. PICK z \in Seq(S) : z = <<e>>
  BY Singleton
<1>2. PICK y \in Seq(S) : y = x \o d
  BY ConcatProperties
<1>3. Append(d, e) = d \o z /\ Append(y, e) = y \o z
  BY <1>1, AppendIsConcat
<1>4. (x \o d) \o z = x \o (d \o z)
  BY ConcatAssociative
<1>. QED  BY <1>2, <1>3, <1>4

(* Three sequences joined.                                                 *)
LEMMA Joined ==
  ASSUME NEW S, NEW a \in Seq(S), NEW b \in Seq(S), NEW c \in Seq(S)
  PROVE  a \o b \o c \in Seq(S)
<1>1. PICK w \in Seq(S) : w = a \o b
  BY ConcatProperties
<1>2. w \o c \in Seq(S)
  BY ConcatProperties
<1>. QED  BY <1>1, <1>2

(* The first of a nonempty sequence may move to the one before it.         *)
LEMMA MoveHead ==
  ASSUME NEW S, NEW a \in Seq(S), NEW b \in Seq(S), b # << >>
  PROVE  /\ Append(a, Head(b)) \o Tail(b) = a \o b
         /\ Append(a, Head(b)) \in Seq(S) /\ Tail(b) \in Seq(S)
<1>1. Head(b) \in S /\ Tail(b) \in Seq(S) /\ <<Head(b)>> \in Seq(S)
  BY HeadTailProperties
<1>2. b = <<Head(b)>> \o Tail(b)
  <2>1. Len(b) \in Nat \ {0}
    BY EmptySeq
  <2>2. /\ Len(<<Head(b)>> \o Tail(b)) = Len(b)
        /\ <<Head(b)>> \o Tail(b) \in Seq(S)
    BY <1>1, <2>1, ConcatProperties, HeadTailProperties
  <2>3. \A i \in 1 .. Len(b) : (<<Head(b)>> \o Tail(b))[i] = b[i]
    <3>1. \A i \in 1 .. 1 + Len(Tail(b)) :
            (<<Head(b)>> \o Tail(b))[i]
              = IF i <= 1 THEN Head(b) ELSE Tail(b)[i - 1]
      BY <1>1, ConcatProperties
    <3>2. Len(Tail(b)) = Len(b) - 1
          /\ \A i \in 1 .. Len(Tail(b)) : Tail(b)[i] = b[i + 1]
      BY HeadTailProperties
    <3>3. Head(b) = b[1]
      OBVIOUS
    <3>. QED  BY <2>1, <3>1, <3>2, <3>3
  <2>. QED  BY <2>2, <2>3, SeqEqual
<1>3. Append(a, Head(b)) = a \o <<Head(b)>> /\ Append(a, Head(b)) \in Seq(S)
  BY <1>1, AppendIsConcat, AppendProperties
<1>4. (a \o <<Head(b)>>) \o Tail(b) = a \o (<<Head(b)>> \o Tail(b))
  BY <1>1, ConcatAssociative
<1>. QED  BY <1>1, <1>2, <1>3, <1>4

(* No more is taken than there is, nor than there is room for.             *)
LEMMA AcceptedFits ==
  ASSUME NEW room \in Nat, NEW n \in Nat
  PROVE  /\ Accepted(room, n) \in Nat
         /\ Accepted(room, n) <= n /\ Accepted(room, n) <= room
BY DEF Accepted

(* A sequence cut in two parts.                                            *)
LEMMA Cut ==
  ASSUME NEW S, NEW b \in Seq(S), NEW n \in Nat, n <= Len(b)
  PROVE  /\ SubSeq(b, 1, n) \in Seq(S) /\ Len(SubSeq(b, 1, n)) = n
         /\ SubSeq(b, n + 1, Len(b)) \in Seq(S)
         /\ SubSeq(b, 1, n) \o SubSeq(b, n + 1, Len(b)) = b
<1>1. Len(b) \in Nat /\ \A i \in 1 .. Len(b) : b[i] \in S
  BY LenProperties, ElementOfSeq
<1>2. SubSeq(b, 1, n) \in Seq(S) /\ Len(SubSeq(b, 1, n)) = n
  BY <1>1, SubSeqProperties
<1>3. SubSeq(b, n + 1, Len(b)) \in Seq(S)
  BY <1>1, SubSeqProperties
<1>4. SubSeq(b, 1, n) \o SubSeq(b, n + 1, Len(b)) = b
  <2>1. SubSeq(b, 1, n) \o SubSeq(b, n + 1, Len(b)) = SubSeq(b, 1, Len(b))
    <3>1. /\ 1 \in 1 .. Len(b) + 1 /\ n \in 1 - 1 .. Len(b)
          /\ Len(b) \in n .. Len(b)
      BY <1>1
    <3>. QED  BY <3>1, ConcatAdjacentSubSeq, Zenon
  <2>. QED  BY <2>1, SubSeqFull
<1>. QED  BY <1>2, <1>3, <1>4

-----------------------------------------------------------------------------
LEMMA InitEcho ==
  Init => EchoInv
<1>. SUFFICES ASSUME Init PROVE EchoInv
  OBVIOUS
<1>1. << >> \in Seq(Byte) /\ Len(<< >>) = 0 /\ 0 \in 0 .. MaxBytes
  BY ServerAssumption, EmptySeq
<1>2. Types
  BY <1>1, ServerAssumption DEF Init, Types, Byte
<1>3. OneWait
  BY DEF Init, OneWait
<1>4. << >> \o << >> \o << >> \o << >> = << >>
  BY <1>1, ConcatEmptySeq
<1>5. Stream(0) = << >>
  <2>1. Stream(0) \in Seq(Byte) /\ Len(Stream(0)) = 0
    BY DEF Stream
  <2>. QED  BY <2>1, EmptySeq
<1>6. NothingLost
  BY <1>4, <1>5 DEF Init, NothingLost
<1>. QED  BY <1>2, <1>3, <1>6 DEF EchoInv

-----------------------------------------------------------------------------
(* The steps that touch no byte.                                           *)

LEMMA WaitsKeep ==
  ASSUME EchoInv, NEW p \in Peer,
         \/ Accept(p) \/ ReadFails(p) \/ WriteFails(p)
         \/ PeerConnects(p) \/ PeerShuts(p) \/ LinkBreaks(p)
  PROVE  EchoInv'
<1>. USE DEF EchoInv, link
<1>1. UNCHANGED <<write_buffer_, state_, sent, received, toServer, toPeer>>
  BY DEF Accept, ReadFails, WriteFails, PeerConnects, PeerShuts, LinkBreaks,
     session
<1>2. NothingLost'
  BY <1>1 DEF NothingLost, Stream
<1>3. /\ shut' \in [Peer -> BOOLEAN]
      /\ reset' \in [Peer -> BOOLEAN]
      /\ connection' \in [Peer -> {"none", "pending", "open", "closed"}]
  BY DEF Types, Accept, ReadFails, WriteFails, PeerConnects, PeerShuts,
     LinkBreaks, Close, session
<1>4. CASE Accept(p)
  <2>1. /\ state_[p] = "reading" /\ write_buffer_[p] = << >>
        /\ connection' = [connection EXCEPT ![p] = "open"]
        /\ read_in_progress_' = [read_in_progress_ EXCEPT ![p] = TRUE]
        /\ write_in_progress_' = [write_in_progress_ EXCEPT ![p] = FALSE]
    BY <1>4 DEF Accept, Operations, OneWait
  <2>2. Types'
    BY <1>1, <1>3, <2>1 DEF Types
  <2>3. OneWait'
    BY <1>1, <2>1 DEF OneWait, Types
  <2>. QED  BY <1>2, <2>2, <2>3
<1>5. CASE ReadFails(p) \/ WriteFails(p)
  <2>1. Close(p)
    BY <1>5 DEF ReadFails, WriteFails
  <2>2. Types'
    BY <1>1, <1>3, <2>1 DEF Types, Close
  <2>3. OneWait'
    BY <1>1, <2>1 DEF OneWait, Types, Close
  <2>. QED  BY <1>2, <2>2, <2>3
<1>6. CASE PeerConnects(p) \/ PeerShuts(p) \/ LinkBreaks(p)
  <2>1. /\ UNCHANGED <<read_in_progress_, write_in_progress_>>
        /\ \/ UNCHANGED connection
           \/ /\ connection[p] = "none"
              /\ connection' = [connection EXCEPT ![p] = "pending"]
    BY <1>6 DEF PeerConnects, PeerShuts, LinkBreaks, session
  <2>2. Types'
    BY <1>1, <1>3, <2>1 DEF Types
  <2>3. OneWait'
    BY <1>1, <2>1 DEF OneWait, Types
  <2>. QED  BY <1>2, <2>2, <2>3
<1>. QED  BY <1>4, <1>5, <1>6

-----------------------------------------------------------------------------
(* The steps that move bytes.                                              *)

LEMMA ReadKeeps ==
  ASSUME EchoInv, NEW p \in Peer, ReadSome(p)
  PROVE  EchoInv'
<1>. USE DEF EchoInv
<1>1. /\ connection[p] = "open" /\ state_[p] = "reading"
      /\ write_buffer_[p] = << >> /\ ~write_in_progress_[p]
      /\ toServer[p] # << >>
  BY DEF ReadSome, OneWait, Types
<1>2. /\ write_buffer_' = [write_buffer_ EXCEPT ![p] = toServer[p]]
      /\ toServer' = [toServer EXCEPT ![p] = << >>]
      /\ state_' = [state_ EXCEPT ![p] = "writing"]
      /\ UNCHANGED <<sent, received, shut, reset, toPeer>>
  BY DEF ReadSome
<1>3. \/ /\ UNCHANGED connection
         /\ read_in_progress_' = [read_in_progress_ EXCEPT ![p] = FALSE]
         /\ write_in_progress_' = [write_in_progress_ EXCEPT ![p] = TRUE]
      \/ Close(p)
  BY DEF ReadSome, Operations
<1>4. << >> \in Seq(Byte)
  BY EmptySeq
<1>5. Types'
  BY <1>2, <1>3, <1>4 DEF Types, Close, Byte
<1>6. OneWait'
  BY <1>1, <1>2, <1>3 DEF OneWait, Types, Close
<1>7. NothingLost'
  <2>. DEFINE a == received[p] \o toPeer[p]
              s == toServer[p]
  <2>1. a \in Seq(Byte) /\ s \in Seq(Byte)
    BY ConcatProperties DEF Types, Byte
  <2>2. a \o s \in Seq(Byte)
    BY <2>1, ConcatProperties
  <2>3. (a \o s) \o << >> = (a \o << >>) \o s
    BY <2>1, <2>2, ConcatEmptySeq
  <2>4. (a \o << >>) \o s = Stream(sent[p])
    BY <1>1 DEF NothingLost
  <2>5. a \o write_buffer_'[p] \o toServer'[p] = Stream(sent[p])
    BY <1>2, <2>3, <2>4 DEF Types
  <2>. QED  BY <1>2, <2>5 DEF NothingLost, Types, Stream
<1>. QED  BY <1>5, <1>6, <1>7

LEMMA WriteKeeps ==
  ASSUME EchoInv, NEW p \in Peer, WriteSome(p)
  PROVE  EchoInv'
<1>. USE DEF EchoInv
<1>. DEFINE w == write_buffer_[p]
            n == Accepted(SendBuffer - Len(toPeer[p]), Len(w))
            taken == SubSeq(w, 1, n)
            rest == SubSeq(w, n + 1, Len(w))
<1>1. /\ connection[p] = "open" /\ ~read_in_progress_[p]
      /\ Len(toPeer[p]) < SendBuffer
  BY DEF WriteSome, OneWait, Types
<1>2. /\ toPeer' = [toPeer EXCEPT ![p] = toPeer[p] \o taken]
      /\ write_buffer_' = [write_buffer_ EXCEPT ![p] = rest]
      /\ state_' = [state_ EXCEPT ![p] =
                      IF rest = << >> THEN "reading" ELSE "writing"]
      /\ UNCHANGED <<connection, sent, received, shut, reset, toServer>>
  BY DEF WriteSome, KeepRest
<1>3. /\ read_in_progress_' =
           [read_in_progress_ EXCEPT ![p] = (rest = << >>)]
      /\ write_in_progress_' =
           [write_in_progress_ EXCEPT ![p] = (rest # << >>)]
  <2>1. state_'[p] = IF rest = << >> THEN "reading" ELSE "writing"
    BY <1>2 DEF Types
  <2>2. /\ read_in_progress_[p] = FALSE
        /\ (state_'[p] = "reading") = (rest = << >>)
        /\ (state_'[p] = "writing") = (rest # << >>)
    BY <1>1, <2>1 DEF Types
  <2>. QED  BY <1>1, <2>2 DEF WriteSome, Operations
<1>4. /\ w \in Seq(Byte) /\ toPeer[p] \in Seq(Byte)
      /\ received[p] \in Seq(Byte) /\ toServer[p] \in Seq(Byte)
      /\ Len(w) \in Nat /\ Len(toPeer[p]) \in Nat
  BY LenProperties DEF Types, Byte
<1>5. n \in Nat /\ n <= Len(w) /\ Len(toPeer[p]) + n <= SendBuffer
  <2>1. SendBuffer - Len(toPeer[p]) \in Nat
    BY <1>1, <1>4, ServerAssumption
  <2>2. n \in Nat /\ n <= Len(w) /\ n <= SendBuffer - Len(toPeer[p])
    BY <1>4, <2>1, AcceptedFits, Zenon
  <2>. QED  BY <1>4, <2>2, ServerAssumption
<1>6. /\ taken \in Seq(Byte) /\ Len(taken) = n /\ rest \in Seq(Byte)
      /\ toPeer[p] \o taken \in Seq(Byte)
      /\ Len(toPeer[p] \o taken) = Len(toPeer[p]) + n
      /\ taken \o rest = w
  <2>1. /\ taken \in Seq(Byte) /\ Len(taken) = n /\ rest \in Seq(Byte)
        /\ taken \o rest = w
    BY <1>4, <1>5, Cut, Zenon
  <2>2. /\ toPeer[p] \o taken \in Seq(Byte)
        /\ Len(toPeer[p] \o taken) = Len(toPeer[p]) + Len(taken)
    BY <1>4, <2>1, ConcatProperties, Zenon
  <2>. QED  BY <2>1, <2>2
<1>. HIDE DEF w, n, taken, rest
<1>7. Types'
  BY <1>2, <1>3, <1>5, <1>6 DEF Types, Byte
<1>8. OneWait'
  BY <1>1, <1>2, <1>3 DEF OneWait, Types
<1>9. NothingLost'
  <2>1. received[p] \o (toPeer[p] \o taken) \o rest
          = (received[p] \o toPeer[p]) \o (taken \o rest)
    <3>1. PICK a \in Seq(Byte), b \in Seq(Byte), x \in Seq(Byte),
               y \in Seq(Byte) :
            a = received[p] /\ b = toPeer[p] /\ x = taken /\ y = rest
      BY <1>4, <1>6
    <3>2. (a \o b) \o x = a \o (b \o x)
      BY ConcatAssociative
    <3>3. PICK c \in Seq(Byte) : c = a \o b
      BY ConcatProperties
    <3>4. (c \o x) \o y = c \o (x \o y)
      BY ConcatAssociative
    <3>. QED  BY <3>1, <3>2, <3>3, <3>4
  <2>2. received[p] \o toPeer[p] \o w \o toServer[p] = Stream(sent[p])
    BY DEF NothingLost, w
  <2>3. received[p] \o toPeer'[p] \o write_buffer_'[p] \o toServer[p]
          = Stream(sent[p])
    BY <1>2, <1>6, <2>1, <2>2 DEF Types
  <2>. QED  BY <1>2, <2>3 DEF NothingLost, Types, Stream
<1>. QED  BY <1>7, <1>8, <1>9

LEMMA SendKeeps ==
  ASSUME EchoInv, NEW p \in Peer, PeerSends(p)
  PROVE  EchoInv'
<1>. USE DEF EchoInv
<1>. DEFINE n == sent[p]
<1>1. /\ n \in Nat /\ n < MaxBytes
      /\ sent' = [sent EXCEPT ![p] = n + 1]
      /\ toServer' = [toServer EXCEPT ![p] = Append(toServer[p], n + 1)]
      /\ UNCHANGED <<connection, state_, write_buffer_, read_in_progress_,
                     write_in_progress_, received, shut, reset, toPeer>>
  BY ServerAssumption DEF PeerSends, session, Types
<1>2. /\ n + 1 \in Byte /\ n + 1 \in 0 .. MaxBytes
  BY <1>1, ServerAssumption DEF Byte
<1>3. /\ write_buffer_[p] \in Seq(Byte) /\ toPeer[p] \in Seq(Byte)
      /\ received[p] \in Seq(Byte) /\ toServer[p] \in Seq(Byte)
      /\ n \in Nat
  BY <1>1 DEF Types, Byte
<1>4. Append(toServer[p], n + 1) \in Seq(Byte)
  <2>. DEFINE s == toServer[p]
  <2>. HIDE DEF s
  <2>1. s \in Seq(Byte) /\ n + 1 \in Byte
    BY <1>2, <1>3 DEF s
  <2>2. Append(s, n + 1) \in Seq(Byte)
    BY <2>1, Appended
  <2>. QED  BY <2>2 DEF s
<1>. HIDE DEF n
<1>5. Types'
  BY <1>1, <1>2, <1>4 DEF Types, Byte
<1>6. OneWait'
  BY <1>1 DEF OneWait
<1>7. NothingLost'
  <2>1. received[p] \o toPeer[p] \o write_buffer_[p] \o toServer[p]
          = Stream(n)
    BY DEF NothingLost, n
  <2>2. received[p] \o toPeer[p] \o write_buffer_[p]
            \o Append(toServer[p], n + 1) = Append(Stream(n), n + 1)
    <3>1. received[p] \o toPeer[p] \o write_buffer_[p]
              \o Append(toServer[p], n + 1)
            = Append(received[p] \o toPeer[p] \o write_buffer_[p]
                       \o toServer[p], n + 1)
      <4>1. PICK x \in Seq(Byte), d \in Seq(Byte), e \in Byte :
              /\ x = received[p] \o toPeer[p] \o write_buffer_[p]
              /\ d = toServer[p] /\ e = n + 1
        BY <1>2, <1>3, Joined
      <4>2. x \o Append(d, e) = Append(x \o d, e)
        BY AppendToWhole
      <4>. QED  BY <4>1, <4>2
    <3>. QED  BY <2>1, <3>1
  <2>3. received[p] \o toPeer[p] \o write_buffer_[p]
            \o Append(toServer[p], n + 1) = Stream(n + 1)
    BY <1>3, <2>2, StreamGrows
  <2>4. /\ toServer'[p] = Append(toServer[p], n + 1)
        /\ sent'[p] = n + 1
        /\ \A q \in Peer \ {p} :
             toServer'[q] = toServer[q] /\ sent'[q] = sent[q]
    BY <1>1 DEF Types
  <2>5. \A q \in Peer \ {p} :
          (received[q] \o toPeer[q] \o write_buffer_[q] \o toServer[q]
            = Stream(sent[q]))'
    BY <1>1, <2>4 DEF NothingLost, Stream
  <2>6. (received[p] \o toPeer[p] \o write_buffer_[p] \o toServer[p]
            = Stream(sent[p]))'
    BY <1>1, <2>3, <2>4 DEF Stream
  <2>. QED  BY <2>5, <2>6 DEF NothingLost
<1>. QED  BY <1>5, <1>6, <1>7

LEMMA ReceiveKeeps ==
  ASSUME EchoInv, NEW p \in Peer, PeerReceives(p)
  PROVE  EchoInv'
<1>. USE DEF EchoInv
<1>. DEFINE r == received[p]
            t == toPeer[p]
<1>1. /\ t # << >>
      /\ received' = [received EXCEPT ![p] = Append(r, Head(t))]
      /\ toPeer' = [toPeer EXCEPT ![p] = Tail(t)]
      /\ UNCHANGED <<connection, state_, write_buffer_, read_in_progress_,
                     write_in_progress_, sent, shut, reset, toServer>>
  BY DEF PeerReceives, session
<1>2. r \in Seq(Byte) /\ t \in Seq(Byte)
  BY DEF Types, Byte
<1>3. /\ Append(r, Head(t)) \o Tail(t) = r \o t
      /\ Append(r, Head(t)) \in Seq(Byte) /\ Tail(t) \in Seq(Byte)
  BY <1>1, <1>2, MoveHead, Zenon
<1>4. Len(Tail(t)) <= SendBuffer
  <2>1. Len(t) \in Nat /\ Len(Tail(t)) = Len(t) - 1
    BY <1>1, <1>2, LenProperties, HeadTailProperties, Zenon
  <2>2. Len(t) <= SendBuffer
    BY DEF Types
  <2>. QED  BY <2>1, <2>2, ServerAssumption
<1>5. Types'
  BY <1>1, <1>3, <1>4 DEF Types, Byte
<1>6. OneWait'
  BY <1>1 DEF OneWait
<1>7. NothingLost'
  <2>1. /\ received'[p] = Append(r, Head(t)) /\ toPeer'[p] = Tail(t)
        /\ \A q \in Peer \ {p} :
             received'[q] = received[q] /\ toPeer'[q] = toPeer[q]
    BY <1>1 DEF Types
  <2>2. received'[p] \o toPeer'[p] = received[p] \o toPeer[p]
    BY <1>3, <2>1
  <2>3. /\ UNCHANGED <<sent, toServer, write_buffer_>>
        /\ \A q \in Peer : Stream(sent[q])' = Stream(sent[q])
    BY <1>1 DEF Stream
  <2>4. \A q \in Peer :
          received'[q] \o toPeer'[q] = received[q] \o toPeer[q]
    BY <2>1, <2>2
  <2>. QED  BY <2>3, <2>4 DEF NothingLost
<1>. QED  BY <1>5, <1>6, <1>7

-----------------------------------------------------------------------------
(* Every step keeps the types, the waits and the bytes.                    *)
LEMMA NextKeepsEcho ==
  EchoInv /\ [Next]_vars => EchoInv'
<1>. SUFFICES ASSUME EchoInv, [Next]_vars PROVE EchoInv'
  OBVIOUS
<1>1. CASE UNCHANGED vars
  BY <1>1 DEF EchoInv, Types, OneWait, NothingLost, Stream, vars, session,
     link
<1>2. CASE Next
  <2>1. PICK p \in Peer : Handler(p) \/ Environment(p)
    BY <1>2 DEF Next
  <2>. QED  BY <2>1, WaitsKeep, ReadKeeps, WriteKeeps, SendKeeps,
              ReceiveKeeps DEF Handler, Environment
<1>. QED  BY <1>1, <1>2

(* What has been received is a part of what has been sent.                 *)
LEMMA ReceivedFits ==
  EchoInv => TypeOK
<1>. SUFFICES ASSUME EchoInv, NEW p \in Peer PROVE Len(received[p]) <= sent[p]
  BY DEF EchoInv, TypeOK
<1>1. PICK r \in Seq(Byte), t \in Seq(Byte), w \in Seq(Byte),
           s \in Seq(Byte), n \in Nat :
        /\ r = received[p] /\ t = toPeer[p] /\ w = write_buffer_[p]
        /\ s = toServer[p] /\ n = sent[p]
  BY ServerAssumption DEF EchoInv, Types, Byte
<1>2. r \o t \o w \o s = Stream(n)
  BY <1>1 DEF EchoInv, NothingLost
<1>3. r \o t \in Seq(Byte) /\ Len(r \o t) = Len(r) + Len(t)
  BY ConcatProperties
<1>4. /\ (r \o t) \o w \in Seq(Byte)
      /\ Len((r \o t) \o w) = Len(r \o t) + Len(w)
  BY <1>3, ConcatProperties
<1>5. Len(((r \o t) \o w) \o s) = Len((r \o t) \o w) + Len(s)
  BY <1>4, ConcatProperties
<1>6. Len(Stream(n)) = n
  BY DEF Stream
<1>7. /\ Len(r) \in Nat /\ Len(t) \in Nat
      /\ Len(w) \in Nat /\ Len(s) \in Nat
  BY LenProperties
<1>8. Len(((r \o t) \o w) \o s) = n
  BY <1>2, <1>6, Zenon
<1>9. n = Len(r) + Len(t) + Len(w) + Len(s)
  <2>1. n = Len((r \o t) \o w) + Len(s)
    BY <1>5, <1>8, Zenon
  <2>2. n = Len(r \o t) + Len(w) + Len(s)
    BY <1>4, <2>1, Zenon
  <2>. QED  BY <1>3, <2>2, Zenon
<1>10. Len(r) <= n
  BY <1>7, <1>9
<1>. QED  BY <1>1, <1>10

(* The types of the server's and the peers' state (lines 34-37, 82-85),    *)
(* and no peer receives more than it sent.                                 *)
THEOREM EchoTypeCorrect == Spec => []TypeOK
BY InitEcho, NextKeepsEcho, ReceivedFits, PTL DEF Spec

(* An open connection waits for exactly what its session needs, so that it *)
(* is neither abandoned nor reads over bytes it has yet to write (lines    *)
(* 54-79), for any number of peers.                                        *)
THEOREM OneWaitAlways == Spec => []OneWait
BY InitEcho, NextKeepsEcho, PTL DEF Spec, EchoInv

(* No byte is lost, repeated or out of order between a peer's send and its *)
(* receive (lines 15-33), for any stream and any kernel buffer.            *)
THEOREM NothingLostEver == Spec => []NothingLost
BY InitEcho, NextKeepsEcho, PTL DEF Spec, EchoInv

=============================================================================
