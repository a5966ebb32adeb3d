-------------------------- MODULE PhoneServer_proofs --------------------------
(***************************************************************************)
(* The frame pipe, and the phone's activity around it, for frames of any   *)
(* number of parts, sockets and queues of any length, and any number of    *)
(* activities: the pipe shows whole pictures in their order, which is what *)
(* PictureFeed promises, the activity does no more to the pipe than its    *)
(* users may, and its button tells whether the shifter is paused.          *)
(***************************************************************************)
EXTENDS PhoneServer, SequenceTheorems, TLAPS

-----------------------------------------------------------------------------
(* The inductive invariant of the pipe. *)

\* The parts between the driver and the next broadcast.
Travelling == buffer \o stream

\* The k-th part of a frame follows its parts 1 to k - 1, ...
FromFirst(T) ==
    \A n \in 1 .. Len(T) :
        /\ T[n].part <= n
        /\ \A m \in 1 .. T[n].part :
               T[n - T[n].part + m] = [picture |-> T[n].picture, part |-> m]

\* ... a frame begins only when the one before is complete, ...
NextFrame(T) == \A n \in 2 .. Len(T) : T[n].part = 1 => T[n - 1].part = Units

\* ... and no picture follows a newer one.
Ascending(T) == \A m, n \in 1 .. Len(T) : m <= n => T[m].picture <= T[n].picture

Framed(T) == FromFirst(T) /\ NextFrame(T) /\ Ascending(T)

\* The part that the driver writes next is the one that comes after the last in T.
Continues(T, p, k) ==
    IF k = 0 THEN T # <<>> => T[Len(T)].part = Units
             ELSE T # <<>> /\ T[Len(T)] = [picture |-> p, part |-> k]

\* While the link is up the driver's position in the frame is that of the stream; it
\* works at a frame only when it pushes.
WriterKept ==
    /\ written < Units
    /\ written # 0 => driver \in {"first", "push"}
    /\ bitbuf <= picture
    /\ driver = "start" => link = "none"
    /\ link = "none" => Travelling = <<>> /\ written = 0
    /\ link = "up" => Continues(Travelling, bitbuf, written)

\* Pictures get no newer from the driver to the watch.
InOrder ==
    /\ \A n \in 1 .. Len(Travelling) : Travelling[n].picture <= bitbuf
    /\ \A b \in 1 .. Len(broadcasts) :
           /\ broadcasts[b][1].picture <= bitbuf
           /\ \A n \in 1 .. Len(Travelling) : broadcasts[b][1].picture <= Travelling[n].picture
           /\ \A c \in 1 .. Len(broadcasts) :
                  b <= c => broadcasts[b][1].picture <= broadcasts[c][1].picture
           /\ display # <<>> => display[1].picture <= broadcasts[b][1].picture
    /\ display # <<>> =>
           /\ display[1].picture <= bitbuf
           /\ \A n \in 1 .. Len(Travelling) : display[1].picture <= Travelling[n].picture

PipeInv ==
    /\ PipeTypeOK
    /\ Framed(Travelling)
    /\ WriterKept
    /\ InOrder
    /\ NoTornFrame

-----------------------------------------------------------------------------
(* Sequences of parts. *)

\* The fields of the parts of a sequence.
LEMMA PartFields ==
    ASSUME NEW T \in Seq(Parts)
    PROVE  /\ Len(T) \in Nat
           /\ \A n \in 1 .. Len(T) :
                  /\ T[n] \in Parts
                  /\ T[n].picture \in 1 .. MaxPictures /\ T[n].part \in 1 .. Units
                  /\ T[n] = [picture |-> T[n].picture, part |-> T[n].part]
<1>1. Len(T) \in Nat /\ \A n \in 1 .. Len(T) : T[n] \in Parts
  OBVIOUS
<1> QED BY <1>1 DEF Parts

\* Writing the part that comes next keeps a stream framed.
LEMMA FramedAppend ==
    ASSUME NEW T \in Seq(Parts), Framed(T), NEW p \in 1 .. MaxPictures, NEW k \in 0 .. Units - 1,
           Continues(T, p, k), \A n \in 1 .. Len(T) : T[n].picture <= p
    PROVE  LET W == Append(T, [picture |-> p, part |-> k + 1])
           IN  /\ W \in Seq(Parts) /\ Framed(W)
               /\ \A n \in 1 .. Len(W) : W[n].picture <= p
               /\ W # <<>> /\ W[Len(W)] = [picture |-> p, part |-> k + 1]
               /\ Len(W) = Len(T) + 1
               /\ \A n \in 1 .. Len(T) : W[n] = T[n]
<1> DEFINE e == [picture |-> p, part |-> k + 1]
           W == Append(T, e)
           L == Len(T)
<1>1. L \in Nat /\ Units \in Nat \ {0} /\ k \in Nat /\ MaxPictures \in Nat
  BY PipeAssumption
<1>2. e \in Parts /\ e.picture = p /\ e.part = k + 1
  BY <1>1 DEF Parts
<1> HIDE DEF e, W
<1>3. /\ W \in Seq(Parts) /\ Len(W) = L + 1 /\ W # <<>>
      /\ \A n \in 1 .. L : W[n] = T[n]
      /\ W[L + 1] = e
  BY <1>2, AppendProperties DEF W
<1>4. \A n \in 1 .. L : T[n].part \in 1 .. Units /\ T[n].picture \in 1 .. MaxPictures
  BY PartFields
<1>5. k # 0 => L \in 1 .. L /\ T[L] = [picture |-> p, part |-> k]
  BY <1>1 DEF Continues
<1>6. k = 0 /\ L # 0 => T[L].part = Units
  BY <1>1 DEF Continues
<1> HIDE DEF L
<1>7. ASSUME NEW n \in 1 .. L + 1
      PROVE  /\ W[n].part <= n
             /\ \A m \in 1 .. W[n].part :
                    W[n - W[n].part + m] = [picture |-> W[n].picture, part |-> m]
  <2>1. CASE n <= L
    <3>1. n \in 1 .. L /\ W[n] = T[n]
      BY <1>1, <1>3, <2>1
    <3>2. /\ T[n].part <= n
          /\ \A m \in 1 .. T[n].part :
                 T[n - T[n].part + m] = [picture |-> T[n].picture, part |-> m]
      BY <3>1 DEF Framed, FromFirst, L
    <3>3. \A m \in 1 .. T[n].part : n - T[n].part + m \in 1 .. L
      BY <1>1, <1>4, <3>1, <3>2
    <3> QED BY <1>3, <3>1, <3>2, <3>3
  <2>2. CASE n = L + 1 /\ k = 0
    <3>1. W[n].part = 1 /\ W[n] = [picture |-> p, part |-> 1]
      BY <1>2, <1>3, <2>2 DEF e
    <3> QED BY <1>1, <2>2, <3>1
  <2>3. CASE n = L + 1 /\ k # 0
    <3>1. /\ L \in 1 .. L /\ T[L].part = k /\ T[L].picture = p
          /\ W[n].part = k + 1 /\ W[n].picture = p
      BY <1>2, <1>3, <1>5, <2>3
    <3>2. /\ k <= L
          /\ \A m \in 1 .. k : T[L - k + m] = [picture |-> p, part |-> m]
      BY <3>1 DEF Framed, FromFirst, L
    <3>3. \A m \in 1 .. k : n - (k + 1) + m = L - k + m /\ L - k + m \in 1 .. L
      BY <1>1, <2>3, <3>2
    <3>4. \A m \in 1 .. k : W[n - (k + 1) + m] = [picture |-> p, part |-> m]
      BY <1>3, <3>2, <3>3
    <3>5. n - (k + 1) + (k + 1) = L + 1
      BY <1>1, <2>3
    <3>6. W[n - (k + 1) + (k + 1)] = [picture |-> p, part |-> k + 1]
      BY <1>3, <3>5 DEF e
    <3>7. \A m \in 1 .. k + 1 : m \in 1 .. k \/ m = k + 1
      BY <1>1
    <3>8. k + 1 <= n
      BY <1>1, <2>3, <3>2
    <3> QED BY <3>1, <3>4, <3>6, <3>7, <3>8
  <2> QED BY <1>1, <2>1, <2>2, <2>3
<1>8. ASSUME NEW n \in 2 .. L + 1, W[n].part = 1
      PROVE  W[n - 1].part = Units
  <2>1. n - 1 \in 1 .. L /\ W[n - 1] = T[n - 1]
    BY <1>1, <1>3
  <2>2. CASE n <= L
    <3>1. n \in 2 .. L /\ W[n] = T[n]
      BY <1>1, <1>3, <2>2
    <3> QED BY <1>8, <2>1, <3>1 DEF Framed, NextFrame, L
  <2>3. CASE n = L + 1
    <3>1. k = 0 /\ n - 1 = L /\ L # 0
      BY <1>1, <1>2, <1>3, <1>8, <2>3
    <3> QED BY <1>6, <2>1, <3>1
  <2> QED BY <1>1, <2>2, <2>3
<1>9. \A n \in 1 .. L + 1 : W[n].picture <= p
  <2>1. \A n \in 1 .. L + 1 : n \in 1 .. L \/ n = L + 1
    BY <1>1
  <2> QED BY <1>2, <1>3, <2>1 DEF L
<1>10. ASSUME NEW m \in 1 .. L + 1, NEW n \in 1 .. L + 1, m <= n
       PROVE  W[m].picture <= W[n].picture
  <2>1. CASE n = L + 1
    BY <1>2, <1>3, <1>9, <2>1
  <2>2. CASE n # L + 1
    <3>1. m \in 1 .. L /\ n \in 1 .. L
      BY <1>1, <1>10, <2>2
    <3> QED BY <1>3, <1>10, <3>1 DEF Framed, Ascending, L
  <2> QED BY <2>1, <2>2
<1>11. Framed(W)
  BY <1>3, <1>7, <1>8, <1>10 DEF Framed, FromFirst, NextFrame, Ascending
<1> QED BY <1>3, <1>9, <1>11 DEF e, W, L

\* The first parts of a stream that is long enough are a whole frame.
LEMMA FirstFrame ==
    ASSUME NEW T \in Seq(Parts), Framed(T), Units <= Len(T)
    PROVE  \A m \in 1 .. Units : T[m] = [picture |-> T[1].picture, part |-> m]
<1> DEFINE k == T[Units].part
<1>1. Units \in Nat \ {0} /\ Len(T) \in Nat /\ Units \in 1 .. Len(T) /\ k \in 1 .. Units
  <2>1. Units \in Nat \ {0} /\ Len(T) \in Nat
    BY PipeAssumption, PartFields
  <2>2. Units \in 1 .. Len(T)
    BY <2>1
  <2> QED BY <2>1, <2>2, PartFields
<1>2. \A m \in 1 .. k : T[Units - k + m] = [picture |-> T[Units].picture, part |-> m]
  BY <1>1 DEF Framed, FromFirst
<1>3. k = Units
  <2> SUFFICES ASSUME k < Units PROVE FALSE
    BY <1>1
  <2> DEFINE n == Units - k + 1
  <2>1. n \in 2 .. Len(T) /\ n - 1 \in 1 .. Len(T) /\ n - 1 = Units - k
    BY <1>1
  <2>2. T[n].part = 1
    <3>1. 1 \in 1 .. k
      BY <1>1
    <3>2. T[Units - k + 1] = [picture |-> T[Units].picture, part |-> 1]
      BY <1>2, <3>1
    <3> QED BY <3>2
  <2>3. T[n - 1].part = Units
    BY <2>1, <2>2 DEF Framed, NextFrame
  <2>4. Units <= n - 1
    BY <2>1, <2>3 DEF Framed, FromFirst
  <2> QED BY <1>1, <2>1, <2>4
<1>4. \A m \in 1 .. Units : T[m] = [picture |-> T[Units].picture, part |-> m]
  BY <1>1, <1>2, <1>3
<1>5. T[1].picture = T[Units].picture
  <2>1. T[1] = [picture |-> T[Units].picture, part |-> 1]
    BY <1>1, <1>4
  <2> QED BY <2>1
<1> QED BY <1>4, <1>5

\* What is left after the first frame is framed again.
LEMMA FramedRest ==
    ASSUME NEW T \in Seq(Parts), Framed(T), Units <= Len(T),
           NEW R \in Seq(Parts), Len(R) = Len(T) - Units,
           \A n \in 1 .. Len(R) : R[n] = T[Units + n]
    PROVE  Framed(R)
<1>1. /\ Units \in Nat \ {0} /\ Len(T) \in Nat /\ Len(R) \in Nat
      /\ \A n \in 1 .. Len(T) : T[n].part \in 1 .. Units
  BY PipeAssumption, PartFields
<1>2. \A n \in 1 .. Len(R) : Units + n \in 1 .. Len(T) /\ Units + n \in 2 .. Len(T)
  BY <1>1
<1>3. T[Units].part = Units
  <2>1. Units \in 1 .. Units
    BY <1>1
  <2>2. T[Units] = [picture |-> T[1].picture, part |-> Units]
    BY <2>1, FirstFrame
  <2> QED BY <2>2
<1>4. ASSUME NEW n \in 1 .. Len(R)
      PROVE  /\ R[n].part <= n
             /\ \A m \in 1 .. R[n].part :
                    R[n - R[n].part + m] = [picture |-> R[n].picture, part |-> m]
  <2> DEFINE k == R[n].part
  <2>1. k \in 1 .. Units /\ k = T[Units + n].part /\ R[n].picture = T[Units + n].picture
    BY <1>1, <1>2
  <2>2. \A m \in 1 .. k : T[(Units + n) - k + m] = [picture |-> R[n].picture, part |-> m]
    <3> DEFINE N == Units + n
    <3>1. \A m \in 1 .. T[N].part : T[N - T[N].part + m] = [picture |-> T[N].picture, part |-> m]
      BY <1>2 DEF Framed, FromFirst
    <3>2. k = T[N].part /\ R[n].picture = T[N].picture
      BY <2>1
    <3> HIDE DEF N, k
    <3>3. \A m \in 1 .. k : T[N - k + m] = [picture |-> R[n].picture, part |-> m]
      BY <3>1, <3>2
    <3> QED BY <3>3 DEF N
  <2> HIDE DEF k
  <2>3. k <= n
    <3> SUFFICES ASSUME n < k PROVE FALSE
      BY <1>1, <2>1
    <3>1. k - n \in 1 .. k /\ (Units + n) - k + (k - n) = Units /\ k - n # Units
      <4>1. k \in Int /\ n \in Int /\ Units \in Int /\ 1 <= n /\ k <= Units /\ n < k
        BY <1>1, <2>1
      <4> QED BY <4>1
    <3>2. T[(Units + n) - k + (k - n)] = [picture |-> R[n].picture, part |-> k - n]
      BY <2>2, <3>1
    <3>3. T[Units].part = k - n
      BY <3>1, <3>2
    <3> QED BY <1>3, <3>1, <3>3
  <2>4. \A m \in 1 .. k : n - k + m \in 1 .. Len(R) /\ Units + (n - k + m) = (Units + n) - k + m
    <3>1. k \in Int /\ n \in Int /\ Units \in Int /\ n <= Len(R) /\ Len(R) \in Int /\ k <= n
      BY <1>1, <2>1, <2>3
    <3> QED BY <3>1
  <2>5. \A m \in 1 .. k : R[n - k + m] = [picture |-> R[n].picture, part |-> m]
    BY <2>2, <2>4
  <2> QED BY <2>3, <2>5 DEF k
<1>5. ASSUME NEW n \in 2 .. Len(R), R[n].part = 1
      PROVE  R[n - 1].part = Units
  <2>1. n \in 1 .. Len(R) /\ n - 1 \in 1 .. Len(R) /\ Units + (n - 1) = (Units + n) - 1
    BY <1>1
  <2>2. T[Units + n].part = 1 /\ R[n - 1] = T[(Units + n) - 1]
    BY <1>5, <2>1
  <2> DEFINE N == Units + n
  <2>3. N \in 2 .. Len(T)
    BY <1>2, <2>1
  <2> HIDE DEF N
  <2>4. T[N].part = 1 => T[N - 1].part = Units
    BY <2>3 DEF Framed, NextFrame
  <2>5. T[N].part = 1 /\ R[n - 1] = T[N - 1]
    BY <2>2 DEF N
  <2> QED BY <2>4, <2>5
<1>6. ASSUME NEW m \in 1 .. Len(R), NEW n \in 1 .. Len(R), m <= n
      PROVE  R[m].picture <= R[n].picture
  <2>1. Units + m <= Units + n
    BY <1>1, <1>6
  <2> QED BY <1>2, <2>1 DEF Framed, Ascending
<1> QED BY <1>4, <1>5, <1>6 DEF Framed, FromFirst, NextFrame, Ascending

\* The parts under way, counted from the buffer on.
LEMMA TravellingFields ==
    ASSUME PipeTypeOK
    PROVE  /\ buffer \in Seq(Parts) /\ stream \in Seq(Parts)
           /\ Travelling \in Seq(Parts)
           /\ Len(buffer) \in Nat /\ Len(stream) \in Nat
           /\ Len(Travelling) = Len(buffer) + Len(stream)
           /\ \A n \in 1 .. Len(buffer) + Len(stream) :
                  Travelling[n] = IF n <= Len(buffer) THEN buffer[n] ELSE stream[n - Len(buffer)]
           /\ \A n \in 1 .. Len(Travelling) : Travelling[n].picture \in 1 .. MaxPictures
<1>1. buffer \in Seq(Parts) /\ stream \in Seq(Parts)
  BY DEF PipeTypeOK
<1>2. /\ Travelling \in Seq(Parts)
      /\ Len(Travelling) = Len(buffer) + Len(stream)
      /\ \A n \in 1 .. Len(buffer) + Len(stream) :
             Travelling[n] = IF n <= Len(buffer) THEN buffer[n] ELSE stream[n - Len(buffer)]
  BY <1>1, ConcatProperties DEF Travelling
<1>3. \A n \in 1 .. Len(Travelling) : Travelling[n].picture \in 1 .. MaxPictures
  BY <1>2, PartFields
<1> QED BY <1>1, <1>2, <1>3

\* The frames that are broadcast and shown.
LEMMA FrameFields ==
    ASSUME PipeTypeOK
    PROVE  /\ Len(broadcasts) \in Nat
           /\ \A b \in 1 .. Len(broadcasts) :
                  /\ broadcasts[b] \in [1 .. Units -> Parts]
                  /\ broadcasts[b][1].picture \in 1 .. MaxPictures
           /\ display # <<>> => display[1].picture \in 1 .. MaxPictures
           /\ picture \in Nat /\ bitbuf \in Nat /\ MaxPictures \in Nat /\ Units \in Nat \ {0}
<1>1. 1 \in 1 .. Units /\ MaxPictures \in Nat /\ Units \in Nat \ {0}
  BY PipeAssumption
<1>2. \A f \in [1 .. Units -> Parts] : f[1].picture \in 1 .. MaxPictures
  BY <1>1 DEF Parts
<1>3. /\ broadcasts \in Seq([1 .. Units -> Parts])
      /\ display \in [1 .. Units -> Parts] \cup {<<>>}
      /\ picture \in 1 .. MaxPictures /\ bitbuf \in 1 .. MaxPictures
  BY DEF PipeTypeOK
<1>4. \A b \in 1 .. Len(broadcasts) : broadcasts[b] \in [1 .. Units -> Parts]
  BY <1>3
<1> QED BY <1>1, <1>2, <1>3, <1>4

-----------------------------------------------------------------------------
(* The steps of the pipe. *)

\* drv_BT_start, DataShifter: nothing is under way at first.
LEMMA PipeInitial == PipeInit => PipeInv
<1> SUFFICES ASSUME PipeInit PROVE PipeInv
  OBVIOUS
<1>1. /\ MaxPictures \in Nat \ {0} /\ Units \in Nat \ {0} /\ SocketRoom \in Nat \ {0}
  BY PipeAssumption
<1>2. /\ picture = 1 /\ bitbuf = 1 /\ written = 0 /\ stream = <<>> /\ buffer = <<>>
      /\ broadcasts = <<>> /\ display = <<>> /\ link = "none" /\ driver = "start"
  BY DEF PipeInit
<1>3. PipeTypeOK
  <2>1. /\ stream \in Seq(Parts) /\ Len(stream) <= SocketRoom
        /\ buffer \in Seq(Parts) /\ Len(buffer) < Units
        /\ broadcasts \in Seq([1 .. Units -> Parts])
    BY <1>1, <1>2
  <2>2. picture \in 1 .. MaxPictures /\ bitbuf \in 1 .. MaxPictures /\ written \in 0 .. Units
    BY <1>1, <1>2
  <2> QED BY <1>2, <2>1, <2>2 DEF PipeInit, PipeTypeOK
<1>4. Travelling = <<>> /\ Len(Travelling) = 0
  BY <1>2 DEF Travelling
<1>5. Framed(Travelling)
  BY <1>4 DEF Framed, FromFirst, NextFrame, Ascending
<1>6. WriterKept
  BY <1>1, <1>2, <1>4 DEF WriterKept
<1>7. InOrder
  BY <1>2, <1>4 DEF InOrder
<1>8. NoTornFrame
  BY <1>2 DEF NoTornFrame
<1> QED BY <1>3, <1>5, <1>6, <1>7, <1>8 DEF PipeInv

\* What has been shown to be whole stays so when more is drawn.
LEMMA WholeStays ==
    ASSUME PipeTypeOK, NoTornFrame, picture' \in Int, picture <= picture',
           UNCHANGED <<broadcasts, display>>
    PROVE  NoTornFrame'
<1>1. 1 .. picture \subseteq 1 .. picture'
  BY DEF PipeTypeOK
<1> QED BY <1>1 DEF NoTornFrame

\* A step that neither writes nor broadcasts a part keeps the invariant if it keeps
\* the writer's.
LEMMA Unmoved ==
    ASSUME PipeInv, Travelling' = Travelling, UNCHANGED <<broadcasts, display>>,
           PipeTypeOK', WriterKept', picture <= picture', bitbuf <= bitbuf'
    PROVE  PipeInv'
<1>1. Travelling' = Travelling
  OBVIOUS
<1>2. PipeTypeOK /\ picture' \in Int /\ bitbuf \in Int /\ bitbuf' \in Int
  BY DEF PipeInv, PipeTypeOK
<1>3. InOrder'
  <2>1. \A x \in 1 .. MaxPictures : x <= bitbuf => x <= bitbuf'
    BY <1>2
  <2> QED BY <1>1, <1>2, <2>1, TravellingFields, FrameFields DEF PipeInv, InOrder
<1>4. NoTornFrame'
  BY <1>2, WholeStays DEF PipeInv
<1> QED BY <1>1, <1>3, <1>4 DEF PipeInv

\* drv_BT_start connects, or not.
LEMMA ConnectKeeps ==
    ASSUME PipeInv, Connect \/ ConnectFails
    PROVE  PipeInv'
<1>1. PipeTypeOK /\ WriterKept /\ driver = "start" /\ link = "none"
  BY DEF PipeInv, WriterKept, Connect, ConnectFails
<1>2. /\ UNCHANGED <<picture, dirty, bitbuf, written, stream, phoneVars, watchVars>>
      /\ driver' \in {"first", "idle"}
      /\ link' \in {"none", "up"} /\ connected' \in BOOLEAN
  BY <1>1 DEF Connect, ConnectFails, PipeTypeOK
<1>3. /\ UNCHANGED <<buffer, stream, broadcasts, display, picture, bitbuf, written>>
      /\ Travelling' = Travelling
  BY <1>2 DEF phoneVars, watchVars, Travelling
<1>4. PipeTypeOK'
  BY <1>1, <1>2 DEF PipeTypeOK, phoneVars, watchVars
<1>5. Travelling' = <<>> /\ written' = 0
  BY <1>1, <1>3 DEF WriterKept, Travelling
<1>6. WriterKept'
  BY <1>1, <1>2, <1>3, <1>5 DEF WriterKept, Continues
<1> QED BY <1>1, <1>3, <1>4, <1>6, Unmoved DEF PipeTypeOK

\* drv_BT_blit
LEMMA BlitKeeps ==
    ASSUME PipeInv, Blit
    PROVE  PipeInv'
<1>1. PipeTypeOK /\ WriterKept /\ MaxPictures \in Nat
  BY PipeAssumption DEF PipeInv
<1>2. /\ picture < MaxPictures /\ picture' = picture + 1 /\ dirty' = TRUE
      /\ UNCHANGED <<driver, bitbuf, written, connected, link, stream, phoneVars, watchVars>>
  BY DEF Blit
<1>3. UNCHANGED <<buffer, stream, broadcasts, display>> /\ Travelling' = Travelling
  BY <1>2 DEF phoneVars, watchVars, Travelling
<1>4. picture' \in 1 .. MaxPictures /\ picture <= picture' /\ bitbuf \in Int
  BY <1>1, <1>2 DEF PipeTypeOK
<1>5. PipeTypeOK'
  BY <1>1, <1>2, <1>4 DEF PipeTypeOK, phoneVars, watchVars
<1>6. bitbuf' <= picture' /\ bitbuf <= bitbuf'
  BY <1>1, <1>2 DEF PipeTypeOK, WriterKept
<1>7. WriterKept'
  BY <1>1, <1>2, <1>3, <1>6 DEF WriterKept
<1> QED BY <1>3, <1>4, <1>5, <1>6, <1>7, Unmoved

\* drv_BT_timer takes the picture at the beginning of a frame.
LEMMA FlushKeeps ==
    ASSUME PipeInv, Flush
    PROVE  PipeInv'
<1>1. PipeTypeOK /\ WriterKept
  BY DEF PipeInv
<1>2. /\ driver = "idle" /\ driver' \in {"idle", "push"} /\ dirty' \in BOOLEAN /\ bitbuf' = picture
      /\ UNCHANGED <<picture, written, connected, link, stream, phoneVars, watchVars>>
  BY <1>1 DEF Flush, PipeTypeOK
<1>3. UNCHANGED <<buffer, stream, broadcasts, display>> /\ Travelling' = Travelling
  BY <1>2 DEF phoneVars, watchVars, Travelling
<1>4. PipeTypeOK'
  BY <1>1, <1>2 DEF PipeTypeOK, phoneVars, watchVars
<1>5. bitbuf <= bitbuf' /\ bitbuf' <= picture' /\ picture <= picture'
  BY <1>1, <1>2 DEF PipeTypeOK, WriterKept
<1>6. written = 0
  BY <1>1, <1>2 DEF WriterKept
<1>7. WriterKept'
  BY <1>1, <1>2, <1>3, <1>5, <1>6 DEF WriterKept, Continues
<1> QED BY <1>3, <1>4, <1>5, <1>7, Unmoved

\* write fails.
LEMMA WriteFailsKeeps ==
    ASSUME PipeInv, WriteFails
    PROVE  PipeInv'
<1>1. PipeTypeOK /\ WriterKept /\ Units \in Nat \ {0}
  BY PipeAssumption DEF PipeInv
<1>2. /\ link = "down" /\ driver' = "idle" /\ written' = 0 /\ dirty' \in BOOLEAN
      /\ UNCHANGED <<picture, bitbuf, connected, link, stream, phoneVars, watchVars>>
  BY <1>1 DEF WriteFails, Pushed, PipeTypeOK
<1>3. UNCHANGED <<buffer, stream, broadcasts, display>> /\ Travelling' = Travelling
  BY <1>2 DEF phoneVars, watchVars, Travelling
<1>4. written' \in 0 .. Units /\ written' < Units
  BY <1>1, <1>2
<1>5. PipeTypeOK'
  BY <1>1, <1>2, <1>4 DEF PipeTypeOK, phoneVars, watchVars
<1>6. WriterKept'
  BY <1>1, <1>2, <1>4 DEF WriterKept
<1>7. picture <= picture' /\ bitbuf <= bitbuf'
  BY <1>1, <1>2 DEF PipeTypeOK
<1> QED BY <1>3, <1>5, <1>6, <1>7, Unmoved

\* The link, the thread's end, the pause and the watch's start and stop move no part.
LEMMA SwitchesKeep ==
    ASSUME PipeInv,
           LinkBreaks \/ ReadThrows \/ Check \/ Pause \/ Stop \/ StartStop
    PROVE  PipeInv'
<1>1. PipeTypeOK /\ WriterKept
  BY DEF PipeInv
<1>2. /\ UNCHANGED <<pcVars, stream, buffer, broadcasts, display>>
      /\ link' = link \/ (link # "none" /\ link' = "down")
      /\ shifter' \in {"read", "check", "paused", "done"}
      /\ isPaused' \in BOOLEAN /\ started' \in BOOLEAN
  <2>1. CASE LinkBreaks
    BY <1>1, <2>1 DEF LinkBreaks, PipeTypeOK, phoneVars, watchVars
  <2>2. CASE ReadThrows
    BY <1>1, <2>2 DEF ReadThrows, PipeTypeOK, phoneVars, watchVars
  <2>3. CASE Check
    BY <1>1, <2>3 DEF Check, PipeTypeOK, phoneVars, watchVars
  <2>4. CASE Pause
    BY <1>1, <2>4 DEF Pause, PipeTypeOK, phoneVars, watchVars
  <2>5. CASE Stop
    BY <1>1, <2>5 DEF Stop, PipeTypeOK, phoneVars, watchVars
  <2>6. CASE StartStop
    BY <1>1, <2>6 DEF StartStop, PipeTypeOK, phoneVars, watchVars
  <2> QED BY <2>1, <2>2, <2>3, <2>4, <2>5, <2>6
<1>3. PipeTypeOK'
  BY <1>1, <1>2 DEF PipeTypeOK, pcVars
<1>4. Travelling' = Travelling
  BY <1>2 DEF Travelling
<1>5. WriterKept'
  BY <1>1, <1>2, <1>4 DEF WriterKept, pcVars
<1>6. picture <= picture' /\ bitbuf <= bitbuf'
  BY <1>1, <1>2 DEF PipeTypeOK, pcVars
<1> QED BY <1>2, <1>3, <1>4, <1>5, <1>6, Unmoved

\* write puts the next part behind those under way.
LEMMA WriteKeeps ==
    ASSUME PipeInv, Write
    PROVE  PipeInv'
<1> DEFINE e == [picture |-> bitbuf, part |-> written + 1]
           W == Append(Travelling, e)
<1>1. PipeTypeOK /\ WriterKept /\ InOrder /\ Framed(Travelling) /\ Units \in Nat \ {0}
  BY PipeAssumption DEF PipeInv
<1>2. /\ driver \in {"first", "push"} /\ link = "up" /\ Len(stream) < SocketRoom
      /\ stream' = Append(stream, e)
      /\ UNCHANGED <<picture, bitbuf, connected, link, phoneVars, watchVars>>
      /\ \/ written + 1 = Units /\ driver' = "idle" /\ written' = 0
         \/ written + 1 # Units /\ written' = written + 1 /\ driver' = driver
      /\ dirty' \in BOOLEAN
  BY <1>1 DEF Write, Pushed, PipeTypeOK
<1>3. /\ written \in 0 .. Units - 1 /\ bitbuf \in 1 .. MaxPictures
      /\ Continues(Travelling, bitbuf, written)
  BY <1>1, <1>2 DEF PipeTypeOK, WriterKept
<1>4. e \in Parts
  BY <1>1, <1>3 DEF Parts
<1>5. /\ Travelling \in Seq(Parts) /\ buffer \in Seq(Parts) /\ stream \in Seq(Parts)
      /\ \A n \in 1 .. Len(Travelling) : Travelling[n].picture <= bitbuf
  BY <1>1, TravellingFields DEF InOrder
<1>6. Travelling' = W
  <2>1. stream' = stream \o <<e>> /\ W = Travelling \o <<e>> /\ <<e>> \in Seq(Parts)
    BY <1>2, <1>4, <1>5, AppendIsConcat
  <2>2. (buffer \o stream) \o <<e>> = buffer \o (stream \o <<e>>)
    BY <1>5, <2>1, ConcatAssociative
  <2>3. Travelling' = buffer \o stream'
    BY <1>2 DEF Travelling, phoneVars
  <2> QED BY <2>1, <2>2, <2>3 DEF Travelling
<1>7. /\ Framed(W)
      /\ \A n \in 1 .. Len(W) : W[n].picture <= bitbuf
      /\ W # <<>> /\ W[Len(W)] = e
      /\ Len(W) = Len(Travelling) + 1
      /\ \A n \in 1 .. Len(Travelling) : W[n] = Travelling[n]
  BY <1>1, <1>3, <1>5, FramedAppend
<1>8. W[Len(Travelling) + 1].picture = bitbuf
  BY <1>7
<1> HIDE DEF W
<1>9. PipeTypeOK'
  <2>1. stream' \in Seq(Parts) /\ Len(stream') <= SocketRoom
    <3>1. Len(stream') = Len(stream) + 1 /\ stream' \in Seq(Parts)
      BY <1>2, <1>4, <1>5, AppendProperties
    <3>2. Len(stream) \in Nat /\ SocketRoom \in Nat
      BY <1>5, PipeAssumption
    <3> QED BY <1>2, <3>1, <3>2
  <2>2. written' \in 0 .. Units /\ driver' \in {"idle", "first", "push"}
    BY <1>1, <1>2, <1>3
  <2> QED BY <1>1, <1>2, <2>1, <2>2 DEF PipeTypeOK, phoneVars, watchVars
<1>10. WriterKept'
  <2>1. written' < Units /\ (written' # 0 => driver' \in {"first", "push"}) /\ driver' # "start"
    BY <1>1, <1>2, <1>3
  <2>2. Continues(W, bitbuf, written')
    <3>1. CASE written + 1 = Units
      <4>1. e.part = Units
        BY <3>1
      <4> QED BY <1>2, <1>7, <3>1, <4>1 DEF Continues
    <3>2. CASE written + 1 # Units
      BY <1>1, <1>2, <1>3, <1>7, <3>2 DEF Continues
    <3> QED BY <3>1, <3>2
  <2> QED BY <1>1, <1>2, <1>6, <2>1, <2>2 DEF WriterKept
<1>11. InOrder'
  <2>1. /\ bitbuf' = bitbuf /\ broadcasts' = broadcasts /\ display' = display
    BY <1>2 DEF phoneVars, watchVars
  <2>2. Len(Travelling) \in Nat
    BY <1>5
  <2>3. \A n \in 1 .. Len(W) : n \in 1 .. Len(Travelling) \/ n = Len(Travelling) + 1
    BY <1>7, <2>2
  <2>4. \A n \in 1 .. Len(W) : \A x :
            x <= bitbuf /\ (\A m \in 1 .. Len(Travelling) : x <= Travelling[m].picture)
                => x <= W[n].picture
    BY <1>7, <1>8, <2>3
  <2> QED BY <1>1, <1>6, <1>7, <2>1, <2>4 DEF InOrder
<1>12. NoTornFrame'
  BY <1>2, WholeStays DEF PipeInv, PipeTypeOK, phoneVars, watchVars
<1> QED BY <1>6, <1>7, <1>9, <1>10, <1>11, <1>12 DEF PipeInv

\* read, before the frame is complete: the parts only move on.
LEMMA ReadOn ==
    ASSUME PipeTypeOK, NEW n \in 1 .. Units, n <= Len(stream)
    PROVE  /\ SubSeq(stream, 1, n) \in Seq(Parts)
           /\ Len(SubSeq(stream, 1, n)) = n
           /\ \A m \in 1 .. n : SubSeq(stream, 1, n)[m] = stream[m]
           /\ SubSeq(stream, n + 1, Len(stream)) \in Seq(Parts)
           /\ Len(SubSeq(stream, n + 1, Len(stream))) = Len(stream) - n
           /\ \A m \in 1 .. Len(stream) - n :
                  SubSeq(stream, n + 1, Len(stream))[m] = stream[n + m]
           /\ (buffer \o SubSeq(stream, 1, n)) \o SubSeq(stream, n + 1, Len(stream)) = Travelling
<1> DEFINE L == Len(stream)
           front == SubSeq(stream, 1, n)
           rest == SubSeq(stream, n + 1, L)
<1>1. buffer \in Seq(Parts) /\ stream \in Seq(Parts) /\ L \in Nat
  BY TravellingFields
<1>2. n \in Nat /\ n \in 0 .. L /\ Units \in Nat
  BY <1>1, PipeAssumption
<1>3. \A m \in 1 .. L : stream[m] \in Parts
  BY <1>1
<1> HIDE DEF L
<1>4. \A m \in 1 .. n : m \in 1 .. L
  BY <1>1, <1>2
<1>5. front \in Seq(Parts) /\ Len(front) = n /\ \A m \in 1 .. n : front[m] = stream[m]
  <2>1. \A m \in 1 .. n : stream[m] \in Parts
    BY <1>3, <1>4
  <2>2. /\ front \in Seq(Parts)
        /\ Len(front) = IF 1 <= n THEN n - 1 + 1 ELSE 0
        /\ \A m \in 1 .. n - 1 + 1 : front[m] = stream[1 + m - 1]
    BY <1>2, <2>1, SubSeqProperties
  <2>3. n - 1 + 1 = n /\ \A m \in 1 .. n : 1 + m - 1 = m
    BY <1>2
  <2> QED BY <1>2, <2>2, <2>3
<1>6. rest \in Seq(Parts) /\ Len(rest) = L - n /\ \A m \in 1 .. L - n : rest[m] = stream[n + m]
  <2>1. \A m \in n + 1 .. L : stream[m] \in Parts
    BY <1>1, <1>2, <1>3
  <2>2. /\ rest \in Seq(Parts)
        /\ Len(rest) = IF n + 1 <= L THEN L - (n + 1) + 1 ELSE 0
        /\ \A m \in 1 .. L - (n + 1) + 1 : rest[m] = stream[n + 1 + m - 1]
    BY <1>1, <1>2, <2>1, SubSeqProperties
  <2>3. /\ L - (n + 1) + 1 = L - n
        /\ \A m \in 1 .. L - n : n + 1 + m - 1 = n + m
        /\ n + 1 <= L \/ L - n = 0
    BY <1>1, <1>2
  <2> QED BY <2>2, <2>3
<1>7. front \o rest = stream
  <2>1. 1 \in 1 .. L + 1 /\ n \in 1 - 1 .. L /\ L \in n .. L
    BY <1>1, <1>2
  <2>2. front \o rest = SubSeq(stream, 1, L)
    BY <1>1, <2>1, ConcatAdjacentSubSeq DEF L
  <2> QED BY <1>1, <2>2, SubSeqFull DEF L
<1> HIDE DEF front, rest
<1>8. (buffer \o front) \o rest = buffer \o (front \o rest)
  <2>1. buffer \in Seq(Parts) /\ front \in Seq(Parts) /\ rest \in Seq(Parts)
    BY <1>1, <1>5, <1>6
  <2> QED BY <2>1, ConcatAssociative
<1> QED BY <1>5, <1>6, <1>7, <1>8 DEF Travelling, L, front, rest

\* read, up to the last part of a frame: what is broadcast is the first frame under way.
LEMMA ReadWhole ==
    ASSUME PipeTypeOK, NEW n \in 1 .. Units, n <= Len(stream), Len(buffer) + n = Units
    PROVE  LET filled == buffer \o SubSeq(stream, 1, n)
               rest == SubSeq(stream, n + 1, Len(stream))
           IN  /\ Units <= Len(Travelling)
               /\ filled \in [1 .. Units -> Parts]
               /\ \A m \in 1 .. Units : filled[m] = Travelling[m]
               /\ rest \in Seq(Parts) /\ Len(rest) = Len(Travelling) - Units
               /\ Len(rest) <= Len(stream)
               /\ \A m \in 1 .. Len(rest) : rest[m] = Travelling[Units + m]
<1> DEFINE front == SubSeq(stream, 1, n)
           rest == SubSeq(stream, n + 1, Len(stream))
           filled == buffer \o front
<1>1. /\ front \in Seq(Parts) /\ Len(front) = n /\ \A m \in 1 .. n : front[m] = stream[m]
      /\ rest \in Seq(Parts) /\ Len(rest) = Len(stream) - n
      /\ \A m \in 1 .. Len(stream) - n : rest[m] = stream[n + m]
  BY ReadOn
<1>2. /\ buffer \in Seq(Parts) /\ Len(buffer) \in Nat /\ Len(stream) \in Nat
      /\ Len(Travelling) = Len(buffer) + Len(stream)
      /\ \A m \in 1 .. Len(buffer) + Len(stream) :
             Travelling[m] = IF m <= Len(buffer) THEN buffer[m] ELSE stream[m - Len(buffer)]
  BY TravellingFields
<1> HIDE DEF front, rest
<1>3. Units \in Nat /\ n \in Nat
  BY PipeAssumption
<1>4. /\ filled \in Seq(Parts) /\ Len(filled) = Units
      /\ \A m \in 1 .. Units :
             filled[m] = IF m <= Len(buffer) THEN buffer[m] ELSE front[m - Len(buffer)]
  <2>1. /\ filled \in Seq(Parts) /\ Len(filled) = Len(buffer) + Len(front)
        /\ \A m \in 1 .. Len(buffer) + Len(front) :
               filled[m] = IF m <= Len(buffer) THEN buffer[m] ELSE front[m - Len(buffer)]
    <3>1. buffer \in Seq(Parts) /\ front \in Seq(Parts)
      BY <1>1, <1>2
    <3> QED BY <3>1, ConcatProperties
  <2>2. Len(buffer) + Len(front) = Units
    BY <1>1
  <2> QED BY <2>1, <2>2
<1> HIDE DEF filled
<1>5. filled \in [1 .. Units -> Parts]
  BY <1>4, LenProperties
<1>6. ASSUME NEW m \in 1 .. Units
      PROVE  filled[m] = Travelling[m]
  <2>1. m \in 1 .. Len(buffer) + Len(stream)
    BY <1>2, <1>3
  <2>2. CASE m <= Len(buffer)
    BY <1>2, <1>4, <2>1, <2>2
  <2>3. CASE ~(m <= Len(buffer))
    <3>1. m - Len(buffer) \in 1 .. n
      BY <1>2, <1>3, <2>3
    <3> QED BY <1>1, <1>2, <1>4, <2>1, <2>3, <3>1
  <2> QED BY <2>2, <2>3
<1>7. Len(rest) = Len(Travelling) - Units /\ Units <= Len(Travelling) /\ Len(rest) <= Len(stream)
  <2> DEFINE B == Len(buffer)
             S == Len(stream)
             R == Len(rest)
             V == Len(Travelling)
  <2>1. /\ B \in Int /\ S \in Int /\ Units \in Int /\ n \in Int /\ 0 <= n
        /\ n <= S /\ B + n = Units /\ V = B + S /\ R = S - n
    BY <1>1, <1>2, <1>3
  <2> HIDE DEF B, S, R, V
  <2>2. R = V - Units /\ Units <= V /\ R <= S
    BY <2>1
  <2> QED BY <2>2 DEF B, S, R, V
<1>8. ASSUME NEW m \in 1 .. Len(rest)
      PROVE  rest[m] = Travelling[Units + m]
  <2>1. /\ m \in 1 .. Len(stream) - n
        /\ Units + m \in 1 .. Len(buffer) + Len(stream)
        /\ ~(Units + m <= Len(buffer))
        /\ (Units + m) - Len(buffer) = n + m
    <3> DEFINE B == Len(buffer)
               S == Len(stream)
    <3>1. /\ B \in Int /\ S \in Int /\ Units \in Int /\ n \in Int /\ 0 <= n /\ 0 <= B
          /\ n <= S /\ B + n = Units /\ m \in 1 .. S - n
      BY <1>1, <1>2, <1>3
    <3> HIDE DEF B, S
    <3>2. /\ m \in Int /\ Units + m \in 1 .. B + S /\ ~(Units + m <= B)
          /\ (Units + m) - B = n + m
      BY <3>1
    <3> QED BY <3>1, <3>2 DEF B, S
  <2>2. Travelling[Units + m] = stream[(Units + m) - Len(buffer)]
    BY <1>2, <2>1
  <2> QED BY <1>1, <2>1, <2>2
<1> QED BY <1>1, <1>5, <1>6, <1>7, <1>8 DEF filled, front, rest

\* read, while parts are still missing.
LEMMA ReadSomeKeeps ==
    ASSUME PipeInv, NEW n \in 1 .. Units, Read(n), Len(buffer) + n < Units
    PROVE  PipeInv'
<1> DEFINE front == SubSeq(stream, 1, n)
           rest == SubSeq(stream, n + 1, Len(stream))
           filled == buffer \o front
<1>1. PipeTypeOK /\ WriterKept /\ Units \in Nat /\ SocketRoom \in Nat /\ n \in Nat
  BY PipeAssumption DEF PipeInv
<1>2. n <= Len(stream) /\ stream' = rest
  BY DEF Read
<1>3. /\ front \in Seq(Parts) /\ Len(front) = n
      /\ rest \in Seq(Parts) /\ Len(rest) = Len(stream) - n
      /\ filled \o rest = Travelling
  BY <1>1, <1>2, ReadOn
<1>4. buffer \in Seq(Parts) /\ Len(buffer) \in Nat /\ Len(stream) \in Nat
  BY <1>1, TravellingFields
<1>5. filled \in Seq(Parts) /\ Len(filled) = Len(buffer) + n
  <2> HIDE DEF front
  <2>1. buffer \in Seq(Parts) /\ front \in Seq(Parts)
    BY <1>3, <1>4
  <2> QED BY <1>3, <2>1, ConcatProperties
<1>6. /\ buffer' = filled /\ UNCHANGED <<shifter, broadcasts, pcVars, link, isPaused, watchVars>>
  BY <1>5 DEF Read
<1> HIDE DEF front, rest, filled
<1>7. Travelling' = Travelling /\ UNCHANGED <<broadcasts, display>>
  <2>1. Travelling' = buffer' \o stream'
    BY DEF Travelling
  <2> QED BY <1>2, <1>3, <1>6, <2>1 DEF watchVars
<1>8. Len(rest) <= SocketRoom
  BY <1>1, <1>3, <1>4 DEF PipeTypeOK
<1>9. PipeTypeOK'
  BY <1>1, <1>2, <1>3, <1>5, <1>6, <1>8 DEF PipeTypeOK, pcVars, watchVars
<1>10. WriterKept' /\ picture <= picture' /\ bitbuf <= bitbuf'
  BY <1>1, <1>6, <1>7 DEF WriterKept, pcVars, PipeTypeOK
<1> QED BY <1>7, <1>9, <1>10, Unmoved

\* read, when the frame is complete: it is the oldest under way, and whole.
LEMMA ReadLastKeeps ==
    ASSUME PipeInv, NEW n \in 1 .. Units, Read(n), Len(buffer) + n = Units
    PROVE  PipeInv'
<1> DEFINE front == SubSeq(stream, 1, n)
           rest == SubSeq(stream, n + 1, Len(stream))
           filled == buffer \o front
           B == Len(broadcasts)
<1>1. /\ PipeTypeOK /\ WriterKept /\ InOrder /\ NoTornFrame /\ Framed(Travelling)
      /\ Units \in Nat \ {0} /\ SocketRoom \in Nat
  BY PipeAssumption DEF PipeInv
<1>2. n <= Len(stream) /\ stream' = rest /\ link # "none"
  BY DEF Read, Shifting
<1>3. /\ Units <= Len(Travelling)
      /\ filled \in [1 .. Units -> Parts]
      /\ \A m \in 1 .. Units : filled[m] = Travelling[m]
      /\ rest \in Seq(Parts) /\ Len(rest) = Len(Travelling) - Units
      /\ Len(rest) <= Len(stream)
      /\ \A m \in 1 .. Len(rest) : rest[m] = Travelling[Units + m]
  BY <1>1, <1>2, ReadWhole
<1>4. /\ Travelling \in Seq(Parts) /\ Len(Travelling) \in Nat
      /\ buffer \in Seq(Parts) /\ Len(buffer) \in Nat /\ Len(stream) \in Nat
  BY <1>1, TravellingFields
<1>5. Len(filled) = Units
  <2>1. front \in Seq(Parts) /\ Len(front) = n
    BY <1>1, <1>2, ReadOn
  <2> HIDE DEF front
  <2>2. buffer \in Seq(Parts) /\ front \in Seq(Parts)
    BY <1>4, <2>1
  <2> QED BY <2>1, <2>2, ConcatProperties
<1>6. /\ broadcasts' = Append(broadcasts, filled) /\ buffer' = <<>> /\ shifter' = "check"
      /\ UNCHANGED <<pcVars, link, isPaused, watchVars>>
  BY <1>1, <1>5 DEF Read
<1> HIDE DEF front, rest, filled
<1>7. Travelling' = rest
  <2>1. Travelling' = buffer' \o stream'
    BY DEF Travelling
  <2> QED BY <1>2, <1>3, <1>6, <2>1, ConcatEmptySeq
<1>8. /\ \A m \in 1 .. Units : filled[m] = [picture |-> Travelling[1].picture, part |-> m]
      /\ Framed(rest)
  <2>1. \A m \in 1 .. Units : Travelling[m] = [picture |-> Travelling[1].picture, part |-> m]
    BY <1>1, <1>3, <1>4, FirstFrame
  <2>2. Framed(rest)
    BY <1>1, <1>3, <1>4, FramedRest
  <2> QED BY <1>3, <2>1, <2>2
<1>9. /\ broadcasts' \in Seq([1 .. Units -> Parts]) /\ B \in Nat /\ Len(broadcasts') = B + 1
      /\ \A b \in 1 .. B : broadcasts'[b] = broadcasts[b]
      /\ broadcasts'[B + 1] = filled
  <2>1. broadcasts \in Seq([1 .. Units -> Parts])
    BY <1>1 DEF PipeTypeOK
  <2> QED BY <1>3, <1>6, <2>1, AppendProperties
<1> HIDE DEF B
<1>10. PipeTypeOK'
  <2>1. stream' \in Seq(Parts) /\ Len(stream') <= SocketRoom
    BY <1>1, <1>2, <1>3, <1>4 DEF PipeTypeOK
  <2>2. buffer' \in Seq(Parts) /\ Len(buffer') < Units
    BY <1>1, <1>6
  <2> QED BY <1>1, <1>6, <1>9, <2>1, <2>2 DEF PipeTypeOK, pcVars, watchVars
<1>11. WriterKept'
  <2>1. ASSUME link = "up"
        PROVE  Continues(rest, bitbuf, written)
    <3>1. Continues(Travelling, bitbuf, written)
      BY <1>1, <2>1 DEF WriterKept
    <3>2. CASE rest = <<>>
      <4>1. Len(Travelling) = Units /\ Units \in 1 .. Units
        BY <1>1, <1>3, <1>4, <3>2
      <4>2. Travelling[Units].part = Units
        BY <1>3, <1>8, <4>1
      <4>3. written < Units /\ written \in 0 .. Units
        BY <1>1 DEF WriterKept, PipeTypeOK
      <4>4. written = 0
        BY <1>1, <3>1, <4>1, <4>2, <4>3 DEF Continues
      <4> QED BY <3>2, <4>4 DEF Continues
    <3>3. CASE rest # <<>>
      <4>1. Len(rest) \in 1 .. Len(rest) /\ Units + Len(rest) = Len(Travelling) /\ Travelling # <<>>
        <5> DEFINE R == Len(rest)
                   V == Len(Travelling)
        <5>1. R \in Nat /\ R # 0 /\ R = V - Units /\ V \in Nat /\ Units \in Nat \ {0}
          BY <1>1, <1>3, <1>4, <3>3
        <5>2. Travelling = <<>> => V = 0
          OBVIOUS
        <5> HIDE DEF R, V
        <5>3. R \in 1 .. R /\ Units + R = V /\ V # 0
          BY <5>1
        <5> QED BY <5>2, <5>3 DEF R, V
      <4>2. rest[Len(rest)] = Travelling[Len(Travelling)]
        BY <1>3, <4>1
      <4> QED BY <3>1, <3>3, <4>1, <4>2 DEF Continues
    <3> QED BY <3>2, <3>3
  <2> QED BY <1>1, <1>2, <1>6, <1>7, <2>1 DEF WriterKept, pcVars
<1>12. InOrder'
  <2> DEFINE p == Travelling[1].picture
             T == Travelling
  <2>1. filled[1].picture = p /\ 1 \in 1 .. Len(T) /\ p \in 1 .. MaxPictures
    <3>1. 1 \in 1 .. Units /\ 1 \in 1 .. Len(T)
      BY <1>1, <1>3, <1>4
    <3>2. filled[1] = [picture |-> p, part |-> 1]
      BY <1>8, <3>1
    <3> QED BY <1>1, <3>1, <3>2, TravellingFields
  <2>2. \A m \in 1 .. Len(rest) : /\ Units + m \in 1 .. Len(T) /\ 1 <= Units + m
                                  /\ rest[m] = T[Units + m]
    BY <1>1, <1>3, <1>4
  <2>3. \A m \in 1 .. Len(rest) : /\ rest[m].picture <= bitbuf /\ p <= rest[m].picture
    BY <1>1, <2>1, <2>2 DEF InOrder, Framed, Ascending
  <2>4. \A x : (\A m \in 1 .. Len(T) : x <= T[m].picture)
                   => (\A m \in 1 .. Len(rest) : x <= rest[m].picture) /\ x <= p
    BY <2>1, <2>2
  <2>5. p <= bitbuf /\ p <= p
    BY <1>1, <2>1 DEF InOrder
  <2> DEFINE q(b) == broadcasts'[b][1].picture
  <2>6. /\ q(B + 1) = p /\ \A b \in 1 .. B : q(b) = broadcasts[b][1].picture
    BY <1>9, <2>1
  <2>7. /\ \A b \in 1 .. B : /\ q(b) <= bitbuf /\ q(b) <= p
                             /\ \A m \in 1 .. Len(rest) : q(b) <= rest[m].picture
                             /\ \A c \in 1 .. B : b <= c => q(b) <= q(c)
                             /\ display # <<>> => display[1].picture <= q(b)
    <3> HIDE DEF p, q, T
    <3> QED BY <1>1, <2>4, <2>6 DEF InOrder, B, T
  <2>8. display # <<>> => /\ display[1].picture <= bitbuf /\ display[1].picture <= p
                          /\ \A m \in 1 .. Len(rest) : display[1].picture <= rest[m].picture
    BY <1>1, <2>4 DEF InOrder
  <2>9. \A b \in 1 .. B + 1 : b \in 1 .. B \/ b = B + 1
    BY <1>9
  <2>10. \A b \in 1 .. B : ~(B + 1 <= b)
    BY <1>9
  <2>11. bitbuf' = bitbuf /\ display' = display
    BY <1>6 DEF pcVars, watchVars
  <2> HIDE DEF p, T
  <2>12. ASSUME NEW b \in 1 .. B + 1
         PROVE  /\ q(b) <= bitbuf
                /\ \A m \in 1 .. Len(rest) : q(b) <= rest[m].picture
                /\ \A c \in 1 .. B + 1 : b <= c => q(b) <= q(c)
                /\ display # <<>> => display[1].picture <= q(b)
    <3> HIDE DEF q
    <3>1. CASE b \in 1 .. B
      BY <2>6, <2>7, <2>9, <3>1
    <3>2. CASE b = B + 1
      BY <2>3, <2>5, <2>6, <2>8, <2>9, <2>10, <3>2
    <3> QED BY <2>9, <3>1, <3>2
  <2> QED BY <1>7, <1>9, <2>3, <2>8, <2>11, <2>12 DEF InOrder
<1>13. NoTornFrame'
  <2>1. Travelling[1].picture \in 1 .. picture
    <3>1. 1 \in 1 .. Len(Travelling)
      BY <1>1, <1>3, <1>4
    <3>2. /\ Travelling[1].picture \in 1 .. MaxPictures /\ Travelling[1].picture <= bitbuf
          /\ bitbuf <= picture /\ bitbuf \in Int /\ picture \in Int
      BY <1>1, <3>1, TravellingFields DEF InOrder, WriterKept, PipeTypeOK
    <3> QED BY <3>2
  <2>2. Whole(filled, Travelling[1].picture)
    BY <1>8 DEF Whole
  <2>3. \A b \in 1 .. B + 1 : b \in 1 .. B \/ b = B + 1
    BY <1>9
  <2>4. DOMAIN broadcasts = 1 .. B /\ DOMAIN broadcasts' = 1 .. B + 1
    BY <1>1, <1>9 DEF PipeTypeOK, B
  <2>5. \A b \in 1 .. B + 1 : \E p \in 1 .. picture : Whole(broadcasts'[b], p)
    BY <1>1, <1>9, <2>1, <2>2, <2>3, <2>4 DEF NoTornFrame
  <2>6. picture' = picture /\ display' = display
    BY <1>6 DEF pcVars, watchVars
  <2> QED BY <1>1, <2>4, <2>5, <2>6 DEF NoTornFrame, Whole
<1> QED BY <1>7, <1>8, <1>10, <1>11, <1>12, <1>13 DEF PipeInv

\* read, with any number of parts.
LEMMA ReadKeeps ==
    ASSUME PipeInv, NEW n \in 1 .. Units, Read(n)
    PROVE  PipeInv'
<1>1. Len(buffer) \in Nat /\ Units \in Nat /\ n <= Units - Len(buffer)
  BY PipeAssumption, TravellingFields DEF PipeInv, Read
<1>2. Len(buffer) + n < Units \/ Len(buffer) + n = Units
  BY <1>1
<1> QED BY <1>2, ReadSomeKeeps, ReadLastKeeps

\* The stream has ended: the parts read of the last frame are not broadcast.
LEMMA ReadEndKeeps ==
    ASSUME PipeInv, ReadEnd
    PROVE  PipeInv'
<1>1. PipeTypeOK /\ WriterKept /\ InOrder /\ NoTornFrame /\ Units \in Nat \ {0}
  BY PipeAssumption DEF PipeInv
<1>2. /\ link = "down" /\ stream = <<>> /\ buffer' = <<>> /\ shifter' = "check"
      /\ UNCHANGED <<pcVars, link, stream, isPaused, broadcasts, watchVars>>
  BY DEF ReadEnd
<1>3. Travelling' = <<>> /\ Len(Travelling') = 0
  BY <1>2 DEF Travelling
<1>4. PipeTypeOK'
  <2>1. buffer' \in Seq(Parts) /\ Len(buffer') < Units
    BY <1>1, <1>2
  <2> QED BY <1>1, <1>2, <2>1 DEF PipeTypeOK, pcVars, watchVars
<1>5. Framed(Travelling')
  BY <1>3 DEF Framed, FromFirst, NextFrame, Ascending
<1>6. WriterKept'
  BY <1>1, <1>2 DEF WriterKept, pcVars
<1>7. InOrder'
  <2>1. bitbuf' = bitbuf /\ broadcasts' = broadcasts /\ display' = display
    BY <1>2 DEF pcVars, watchVars
  <2>2. \A m \in 1 .. Len(Travelling') : FALSE
    BY <1>3
  <2> QED BY <1>1, <2>1, <2>2 DEF InOrder
<1>8. NoTornFrame'
  BY <1>1, <1>2, WholeStays DEF pcVars, watchVars, PipeTypeOK
<1> QED BY <1>4, <1>5, <1>6, <1>7, <1>8 DEF PipeInv

\* What is delivered is the oldest broadcast.
LEMMA DeliverFields ==
    ASSUME PipeTypeOK, Deliver
    PROVE  /\ Len(broadcasts) \in Nat /\ 1 \in 1 .. Len(broadcasts)
           /\ broadcasts' \in Seq([1 .. Units -> Parts])
           /\ Len(broadcasts') = Len(broadcasts) - 1
           /\ \A b \in 1 .. Len(broadcasts') : /\ broadcasts'[b] = broadcasts[b + 1]
                                               /\ b + 1 \in 1 .. Len(broadcasts)
           /\ \/ display' = display
              \/ display' = broadcasts[1] /\ display' # <<>>
           /\ display' \in [1 .. Units -> Parts] \cup {<<>>}
           /\ UNCHANGED <<pcVars, link, stream, shifter, buffer, isPaused, started>>
<1>1. broadcasts # <<>> /\ broadcasts' = Tail(broadcasts)
  BY DEF Deliver
<1>2. broadcasts \in Seq([1 .. Units -> Parts]) /\ Units \in Nat \ {0}
  BY PipeAssumption DEF PipeTypeOK
<1>3. Len(broadcasts) \in Nat /\ 1 \in 1 .. Len(broadcasts)
  BY <1>1, <1>2
<1>4. /\ broadcasts' \in Seq([1 .. Units -> Parts])
      /\ Len(broadcasts') = Len(broadcasts) - 1
      /\ \A b \in 1 .. Len(broadcasts') : broadcasts'[b] = broadcasts[b + 1]
  BY <1>1, <1>2, HeadTailProperties
<1>5. \A b \in 1 .. Len(broadcasts') : b + 1 \in 1 .. Len(broadcasts)
  BY <1>3, <1>4
<1>6. broadcasts[1] \in [1 .. Units -> Parts] /\ Head(broadcasts) = broadcasts[1]
  BY <1>1, <1>2, <1>3
<1>7. broadcasts[1] # <<>>
  <2>1. DOMAIN broadcasts[1] = 1 .. Units /\ 1 \in 1 .. Units
    BY <1>2, <1>6
  <2>2. DOMAIN <<>> = {}
    OBVIOUS
  <2> QED BY <2>1, <2>2
<1>8. display' = IF started THEN broadcasts[1] ELSE display
  BY <1>6 DEF Deliver
<1>9. display' \in [1 .. Units -> Parts] \cup {<<>>}
  BY <1>6, <1>8 DEF PipeTypeOK
<1> QED BY <1>3, <1>4, <1>5, <1>7, <1>8, <1>9 DEF Deliver

\* Android delivers the broadcasts in their order.
LEMMA DeliverKeeps ==
    ASSUME PipeInv, Deliver
    PROVE  PipeInv'
<1> DEFINE B == Len(broadcasts')
<1>1. /\ PipeTypeOK /\ WriterKept /\ InOrder /\ NoTornFrame /\ Framed(Travelling)
  BY DEF PipeInv
<1>2. /\ 1 \in 1 .. Len(broadcasts)
      /\ broadcasts' \in Seq([1 .. Units -> Parts]) /\ B \in Nat
      /\ \A b \in 1 .. B : broadcasts'[b] = broadcasts[b + 1] /\ b + 1 \in 1 .. Len(broadcasts)
      /\ \/ display' = display
         \/ display' = broadcasts[1] /\ display' # <<>>
      /\ display' \in [1 .. Units -> Parts] \cup {<<>>}
      /\ UNCHANGED <<pcVars, link, stream, shifter, buffer, isPaused, started>>
  BY <1>1, DeliverFields
<1>3. Travelling' = Travelling
  BY <1>2 DEF Travelling
<1>4. PipeTypeOK'
  BY <1>1, <1>2 DEF PipeTypeOK, pcVars
<1>5. WriterKept'
  BY <1>1, <1>2, <1>3 DEF WriterKept, pcVars
<1> HIDE DEF B
<1>6. InOrder'
  <2> DEFINE q(b) == broadcasts[b][1].picture
             r(b) == broadcasts'[b][1].picture
  <2>1. \A b \in 1 .. Len(broadcasts) :
           /\ q(b) <= bitbuf
           /\ \A n \in 1 .. Len(Travelling) : q(b) <= Travelling[n].picture
           /\ \A c \in 1 .. Len(broadcasts) : b <= c => q(b) <= q(c)
           /\ display # <<>> => display[1].picture <= q(b)
    BY <1>1 DEF InOrder
  <2>2. \A b \in 1 .. B : r(b) = q(b + 1) /\ b + 1 \in 1 .. Len(broadcasts) /\ 1 <= b + 1
    BY <1>2
  <2>3. \A b, c \in 1 .. B : b <= c => b + 1 <= c + 1
    BY <1>2
  <2> HIDE DEF q, r
  <2>4. ASSUME NEW b \in 1 .. B
        PROVE  /\ r(b) <= bitbuf
               /\ \A n \in 1 .. Len(Travelling) : r(b) <= Travelling[n].picture
               /\ \A c \in 1 .. B : b <= c => r(b) <= r(c)
               /\ q(1) <= r(b)
               /\ display # <<>> => display[1].picture <= r(b)
    BY <1>2, <2>1, <2>2, <2>3
  <2>5. /\ display' # <<>> /\ display' # display => display'[1].picture = q(1)
        /\ q(1) <= bitbuf /\ \A n \in 1 .. Len(Travelling) : q(1) <= Travelling[n].picture
    BY <1>2, <2>1 DEF q
  <2>6. bitbuf' = bitbuf
    BY <1>2 DEF pcVars
  <2>7. display # <<>> => /\ display[1].picture <= bitbuf
                          /\ \A n \in 1 .. Len(Travelling) : display[1].picture <= Travelling[n].picture
    BY <1>1 DEF InOrder
  <2>8. display' # <<>> =>
            /\ display'[1].picture <= bitbuf
            /\ \A n \in 1 .. Len(Travelling) : display'[1].picture <= Travelling[n].picture
            /\ \A b \in 1 .. B : display'[1].picture <= r(b)
    BY <2>4, <2>5, <2>7
  <2>9. \A n \in 1 .. Len(Travelling) : Travelling[n].picture <= bitbuf
    BY <1>1 DEF InOrder
  <2> QED BY <1>3, <2>4, <2>6, <2>8, <2>9 DEF InOrder, B, r
<1>7. NoTornFrame'
  <2>1. picture' = picture
    BY <1>2 DEF pcVars
  <2>2. DOMAIN broadcasts = 1 .. Len(broadcasts) /\ DOMAIN broadcasts' = 1 .. B
    BY <1>1, <1>2 DEF PipeTypeOK, B
  <2>3. \A b \in 1 .. Len(broadcasts) : \E p \in 1 .. picture : Whole(broadcasts[b], p)
    BY <1>1, <2>2 DEF NoTornFrame
  <2>4. \A b \in 1 .. B : \E p \in 1 .. picture : Whole(broadcasts'[b], p)
    BY <1>2, <2>3
  <2>5. display' # <<>> => \E p \in 1 .. picture : Whole(display', p)
    BY <1>1, <1>2, <2>3 DEF NoTornFrame
  <2> QED BY <2>1, <2>2, <2>4, <2>5 DEF NoTornFrame, Whole
<1> QED BY <1>1, <1>3, <1>4, <1>5, <1>6, <1>7 DEF PipeInv

\* Every step of the pipe keeps the invariant, and so does a step that leaves it alone.
LEMMA PipeStep ==
    ASSUME PipeInv, [PipeNext]_pipeVars
    PROVE  PipeInv'
<1>1. CASE Connect \/ ConnectFails
  BY <1>1, ConnectKeeps
<1>2. CASE Blit
  BY <1>2, BlitKeeps
<1>3. CASE Flush
  BY <1>3, FlushKeeps
<1>4. CASE Write
  BY <1>4, WriteKeeps
<1>5. CASE WriteFails
  BY <1>5, WriteFailsKeeps
<1>6. CASE LinkBreaks \/ ReadThrows \/ Check \/ Pause \/ Stop \/ StartStop
  BY <1>6, SwitchesKeep
<1>7. CASE \E n \in 1 .. Units : Read(n)
  BY <1>7, ReadKeeps
<1>8. CASE ReadEnd
  BY <1>8, ReadEndKeeps
<1>9. CASE Deliver
  BY <1>9, DeliverKeeps
<1>10. CASE UNCHANGED pipeVars
  BY <1>10 DEF pipeVars, pcVars, phoneVars, watchVars, PipeInv, PipeTypeOK, Travelling,
               WriterKept, InOrder, NoTornFrame, Whole
<1> QED BY <1>1, <1>2, <1>3, <1>4, <1>5, <1>6, <1>7, <1>8, <1>9, <1>10 DEF PipeNext

\* The way of the frames (drv_BT_flush, DataShifter.run, mImageReceiver) keeps the
\* invariant: what is under way is whole frames in their order.
THEOREM PipeInductive == PipeSpec => []PipeInv
<1>1. PipeInit => PipeInv
  BY PipeInitial
<1>2. PipeInv /\ [PipeNext]_pipeVars => PipeInv'
  BY PipeStep
<1> QED BY <1>1, <1>2, PTL DEF PipeSpec

\* The pipe's state is what its variables are declared to be: neither the socket's
\* buffers nor DataShifter's hold more than there is room for.
THEOREM PipeTypeCorrect == PipeSpec => []PipeTypeOK
<1>1. PipeInv => PipeTypeOK
  BY DEF PipeInv
<1> QED BY <1>1, PipeInductive, PTL

\* What DataShifter broadcasts and the watch shows is never put together from two
\* pictures, whatever read returns and whenever it is paused or broken off.
THEOREM NeverTorn == PipeSpec => []NoTornFrame
<1>1. PipeInv => NoTornFrame
  BY DEF PipeInv
<1> QED BY <1>1, PipeInductive, PTL

-----------------------------------------------------------------------------
(* The pipe implements PictureFeed. *)

\* The picture on the watch, 0 if there is none yet.
Shown == IF display = <<>> THEN 0 ELSE Depicted(display)

\* It is one that was drawn, and the one that the frame's first part is of.
LEMMA ShownDrawn ==
    ASSUME PipeInv
    PROVE  /\ picture \in 1 .. MaxPictures
           /\ display = <<>> => Shown = 0
           /\ display # <<>> => Shown = display[1].picture /\ Shown \in 1 .. picture
<1>1. PipeTypeOK /\ NoTornFrame /\ 1 \in 1 .. Units
  BY PipeAssumption DEF PipeInv
<1>2. picture \in 1 .. MaxPictures
  BY <1>1 DEF PipeTypeOK
<1>3. ASSUME display # <<>>
      PROVE  Shown = display[1].picture /\ Shown \in 1 .. picture
  <2>1. PICK p \in 1 .. picture : Whole(display, p)
    BY <1>1, <1>3 DEF NoTornFrame
  <2>2. display[1].picture = p
    <3>1. display[1] = [picture |-> p, part |-> 1]
      BY <1>1, <2>1 DEF Whole
    <3> QED BY <3>1
  <2>3. Shown = display[1].picture
    BY <1>3, <2>1 DEF Shown, Depicted
  <2> QED BY <2>1, <2>2, <2>3
<1> QED BY <1>2, <1>3 DEF Shown

\* A step shows nothing, a picture no older, or leaves the watch alone while one is drawn.
LEMMA ShowsNoOlder ==
    ASSUME PipeInv, PipeInv', [PipeNext]_pipeVars
    PROVE  [Feed!FeedNext]_<<picture, Shown>>
<1>1. /\ picture \in 1 .. MaxPictures /\ picture' \in 1 .. MaxPictures
      /\ display = <<>> => Shown = 0
      /\ display # <<>> => Shown = display[1].picture /\ Shown \in 1 .. picture
  BY ShownDrawn DEF PipeInv, PipeTypeOK
<1>2. /\ display' = <<>> => Shown' = 0
      /\ display' # <<>> => Shown' = display'[1].picture /\ Shown' \in 1 .. picture'
  <2>1. picture' \in 1 .. MaxPictures /\ (PipeTypeOK /\ NoTornFrame)' /\ 1 \in 1 .. Units
    BY PipeAssumption DEF PipeInv, PipeTypeOK
  <2>2. ASSUME display' # <<>>
        PROVE  Shown' = display'[1].picture /\ Shown' \in 1 .. picture'
    <3>1. PICK p \in 1 .. picture' : Whole(display', p)
      BY <2>1, <2>2 DEF NoTornFrame, Whole
    <3>2. display'[1].picture = p
      <4>1. display'[1] = [picture |-> p, part |-> 1]
        BY <2>1, <3>1 DEF Whole
      <4> QED BY <4>1
    <3>3. Shown' = display'[1].picture
      BY <2>2, <3>1 DEF Shown, Depicted, Whole
    <3> QED BY <3>1, <3>2, <3>3
  <2> QED BY <2>2 DEF Shown
<1>3. CASE Blit
  <2>1. picture < MaxPictures /\ picture' = picture + 1 /\ display' = display
    BY <1>3 DEF Blit, watchVars
  <2>2. Shown' = Shown
    BY <1>1, <1>2, <2>1
  <2> QED BY <2>1, <2>2 DEF Feed!FeedNext, Feed!Draw, Shown
<1>4. CASE Deliver
  <2>1. picture' = picture
    BY <1>4 DEF Deliver, pcVars
  <2>2. /\ 1 \in 1 .. Len(broadcasts)
        /\ display' = display \/ (display' = broadcasts[1] /\ display' # <<>>)
    BY <1>4, DeliverFields DEF PipeInv
  <2>3. CASE display' = display
    BY <1>1, <1>2, <2>1, <2>3
  <2>4. CASE display' = broadcasts[1] /\ display' # <<>>
    <3>1. display # <<>> => display[1].picture <= broadcasts[1][1].picture
      BY <2>2 DEF PipeInv, InOrder
    <3>2. Shown <= Shown' /\ Shown' <= picture /\ Shown \in Int /\ Shown' \in Int /\ picture \in Int
      BY <1>1, <1>2, <2>1, <2>4, <3>1
    <3>3. Shown' \in Shown .. picture
      BY <3>2
    <3> QED BY <2>1, <3>3 DEF Feed!FeedNext, Feed!Show, Shown
  <2> QED BY <2>2, <2>3, <2>4
<1>5. CASE ~Blit /\ ~Deliver
  <2>1. UNCHANGED <<picture, display>>
    BY <1>5 DEF PipeNext, pipeVars, pcVars, phoneVars, watchVars, Connect, ConnectFails, Flush,
                Write, WriteFails, LinkBreaks, Read, ReadEnd, ReadThrows, Check, Pause,
                Stop, StartStop, Pushed
  <2>2. Shown' = Shown
    BY <1>1, <1>2, <2>1
  <2> QED BY <2>1, <2>2
<1> QED BY <1>3, <1>4, <1>5

\* The chain from drv_BT_blit to showBitmap implements PictureFeed: the watch shows
\* whole pictures that the PC has drawn, and none older than the one it showed.
THEOREM PipeFeeds == PipeSpec => FeedSpec
<1>1. PipeInit => Feed!FeedInit
  BY DEF PipeInit, Feed!FeedInit, Feed!Blank
<1>2. PipeInv /\ PipeInv' /\ [PipeNext]_pipeVars => [Feed!FeedNext]_<<picture, Shown>>
  BY ShowsNoOlder
<1> QED BY <1>1, <1>2, PipeInductive, PTL DEF PipeSpec, FeedSpec, Feed!FeedSpec, Shown

-----------------------------------------------------------------------------
(* The inductive invariant of the activity and its server. *)

\* A server that accepted the frame pipe has handed its shifter over; only activities
\* whose server did come to know a shifter.
OneOwner ==
    /\ driver = "start" => owner = 0
    /\ owner # 0 => link # "none" /\ server[owner] = "handed"
    /\ \A a \in dataShifter : server[a] = "handed"

\* A result brings a shifter exactly if the activity came to know it.
OneResult ==
    \A n \in DOMAIN results : results[n].shifter <=> results[n].of \in dataShifter

\* Whoever started a server has one getter for it, until the shifter is known.
OneGetter ==
    /\ \A a \in Activities : Pending(Getter(a)) => a \notin dataShifter /\ server[a] # "none"
    /\ \A m, n \in DOMAIN tasks : tasks[m] = tasks[n] /\ tasks[m] # Register => m = n
    /\ \A a \in Activities :
           server[a] \in {"accepting", "handed"} => Pending(Getter(a)) \/ a \in dataShifter

\* There is one open activity at most, and no server of one that never was.
OneOpen ==
    /\ \A a \in Activities : server[a] # "none" => activity[a] # "none"
    /\ \A a, b \in Activities : activity[a] # "none" /\ b < a => activity[b] = "gone"

\* Getters run, and their results are handled, in the order of the activities.
InTurn ==
    /\ \A m, n \in DOMAIN tasks :
           m < n /\ tasks[m] # Register /\ tasks[n] # Register => tasks[m].of < tasks[n].of
    /\ \A m, n \in DOMAIN results : m < n => results[m].of < results[n].of
    /\ \A m \in DOMAIN results, n \in DOMAIN tasks :
           tasks[n] # Register => results[m].of < tasks[n].of
    /\ \A a \in dataShifter, n \in DOMAIN tasks : tasks[n] # Register => a < tasks[n].of
    /\ \A a \in dataShifter, n \in DOMAIN results : a \notin Waiting => a < results[n].of
    /\ \A a \in Waiting : server[a] # "none"

\* Nobody pauses a shifter before its activity knows it, nor before its result is handled
\* unless too early; from then on the button tells whether it is paused.
ButtonKept ==
    /\ owner \notin dataShifter => ~isPaused /\ ~early
    /\ owner \in dataShifter /\ owner \in Waiting /\ ~early => ~isPaused
    /\ owner \in dataShifter /\ owner \notin Waiting /\ ~early /\ activity[owner] = "open"
           => button = [enabled |-> TRUE, checked |-> ~isPaused]

PhoneInv ==
    /\ PhoneTypeOK
    /\ OneOwner
    /\ OneResult
    /\ OneGetter
    /\ OneOpen
    /\ InTurn
    /\ ButtonKept

-----------------------------------------------------------------------------
(* Queues of tasks and of results. *)

\* Results are of activities.
LEMMA WaitingFields ==
    ASSUME PhoneTypeOK
    PROVE  /\ \A n \in DOMAIN results : results[n].of \in Waiting /\ results[n].of \in Activities
           /\ \A b \in Waiting : b \in Activities
<1>1. results \in Seq([of : Activities, shifter : BOOLEAN])
  BY DEF PhoneTypeOK
<1> DEFINE S == [of : Activities, shifter : BOOLEAN]
<1>2. \A n \in DOMAIN results : results[n] \in S
  <2> HIDE DEF S
  <2>1. results \in Seq(S)
    BY <1>1 DEF S
  <2> QED BY <2>1
<1>3. \A n \in DOMAIN results : results[n].of \in Activities
  BY <1>2
<1> QED BY <1>3 DEF Waiting

\* What a queue holds is its head and what its tail holds.
LEMMA TailHolds ==
    ASSUME NEW S, NEW s \in Seq(S), s # <<>>
    PROVE  /\ Tail(s) \in Seq(S) /\ Head(s) \in S
           /\ Head(s) = s[1] /\ 1 \in DOMAIN s
           /\ \A n \in DOMAIN Tail(s) : n + 1 \in DOMAIN s /\ Tail(s)[n] = s[n + 1] /\ n + 1 # 1
           /\ \A n \in DOMAIN s : n = 1 \/ (n - 1 \in DOMAIN Tail(s) /\ s[n] = Tail(s)[n - 1])
           /\ \A m, n \in DOMAIN Tail(s) : m + 1 = n + 1 => m = n
           /\ \A m, n \in DOMAIN Tail(s) : m < n => m + 1 < n + 1
           /\ \A n \in DOMAIN Tail(s) : 1 < n + 1
<1>1. Len(s) \in Nat /\ Len(s) # 0 /\ DOMAIN s = 1 .. Len(s)
  OBVIOUS
<1>2. /\ Head(s) \in S /\ Head(s) = s[1] /\ Tail(s) \in Seq(S)
      /\ Len(Tail(s)) = Len(s) - 1
      /\ \A n \in 1 .. Len(Tail(s)) : Tail(s)[n] = s[n + 1]
  BY HeadTailProperties
<1>3. DOMAIN Tail(s) = 1 .. Len(s) - 1
  BY <1>2
<1> DEFINE L == Len(s)
           t == Tail(s)
<1> HIDE DEF L, t
<1>4. /\ 1 \in 1 .. L
      /\ \A n \in 1 .. L - 1 : n + 1 \in 1 .. L /\ n + 1 # 1
      /\ \A n \in 1 .. L : n = 1 \/ (n - 1 \in 1 .. L - 1 /\ (n - 1) + 1 = n)
      /\ \A m, n \in 1 .. L - 1 : (m + 1 = n + 1 => m = n) /\ (m < n => m + 1 < n + 1)
      /\ \A n \in 1 .. L - 1 : 1 < n + 1
  BY <1>1 DEF L
<1>5. DOMAIN t = 1 .. L - 1 /\ \A n \in 1 .. L - 1 : t[n] = s[n + 1]
  BY <1>2, <1>3 DEF L, t
<1>6. \A n \in 1 .. L : n = 1 \/ (n - 1 \in DOMAIN t /\ s[n] = t[n - 1])
  BY <1>4, <1>5
<1> QED BY <1>1, <1>2, <1>4, <1>5, <1>6 DEF L, t

\* What a queue holds when something was put behind it.
LEMMA AppendHolds ==
    ASSUME NEW S, NEW s \in Seq(S), NEW e \in S
    PROVE  /\ Append(s, e) \in Seq(S)
           /\ DOMAIN s \subseteq DOMAIN Append(s, e)
           /\ \A n \in DOMAIN s : Append(s, e)[n] = s[n]
           /\ Len(s) + 1 \in DOMAIN Append(s, e) /\ Append(s, e)[Len(s) + 1] = e
           /\ Len(s) + 1 \notin DOMAIN s
           /\ \A n \in DOMAIN Append(s, e) : n \in DOMAIN s \/ n = Len(s) + 1
           /\ \A n \in DOMAIN s : ~(Len(s) + 1 < n)
           /\ ~(Len(s) + 1 < Len(s) + 1)
<1>1. Len(s) \in Nat /\ DOMAIN s = 1 .. Len(s)
  OBVIOUS
<1>2. /\ Append(s, e) \in Seq(S)
      /\ Len(Append(s, e)) = Len(s) + 1
      /\ \A n \in 1 .. Len(s) : Append(s, e)[n] = s[n]
      /\ Append(s, e)[Len(s) + 1] = e
  BY AppendProperties
<1>3. DOMAIN Append(s, e) = 1 .. Len(s) + 1
  BY <1>2
<1> QED BY <1>1, <1>2, <1>3

-----------------------------------------------------------------------------
(* The steps of the activity. *)

\* What the activity's own variables are, for a step that leaves the pipe's type correct.
LEMMA PhoneTypeNext ==
    ASSUME PipeTypeOK',
           activity' \in [Activities -> {"none", "open", "gone"}],
           early' \in BOOLEAN,
           button' \in [enabled : BOOLEAN, checked : BOOLEAN],
           server' \in [Activities -> {"none", "accepting", "handed", "failed"}],
           dataShifter' \subseteq Activities,
           tasks' \in Seq(TaskSet), results' \in Seq([of : Activities, shifter : BOOLEAN]),
           registers' \in 0 .. MaxRegisters, owner' \in Activities \cup {0},
           begun' \subseteq Activities, crashed' \in BOOLEAN
    PROVE  PhoneTypeOK'
BY DEF PhoneTypeOK, PipeTypeOK

\* The numbers of activities.
LEMMA ActivityNumbers ==
    /\ \A a \in Activities : a \in Int /\ a # 0
    /\ 0 \notin Activities
    /\ \A a, b \in Activities : a = b \/ a < b \/ b < a
BY PhoneAssumption DEF Activities

\* At first there is one activity, whose button is enabled.
LEMMA PhoneInitial == PhoneInit => PipeInv /\ PhoneInv
<1> SUFFICES ASSUME PhoneInit PROVE PipeInv /\ PhoneInv
  OBVIOUS
<1>1. PipeInv
  BY PipeInitial DEF PhoneInit
<1>2. PhoneTypeOK
  <2>1. tasks \in Seq(TaskSet) /\ results \in Seq([of : Activities, shifter : BOOLEAN])
    BY DEF PhoneInit
  <2>2. registers \in 0 .. MaxRegisters /\ owner \in Activities \cup {0}
    BY PhoneAssumption DEF PhoneInit
  <2> QED BY <1>1, <2>1, <2>2 DEF PipeInv, PhoneInit, PhoneTypeOK
<1>3. OneOwner
  BY ActivityNumbers DEF PhoneInit, OneOwner
<1>4. OneResult
  BY DEF PhoneInit, OneResult
<1>5. OneGetter
  BY DEF PhoneInit, OneGetter, Pending
<1>6. OneOpen
  <2>1. \A b \in Activities : ~(b < 1)
    BY PhoneAssumption DEF Activities
  <2> QED BY <2>1 DEF PhoneInit, OneOpen
<1>7. InTurn
  BY DEF PhoneInit, InTurn, Waiting
<1>8. ButtonKept
  BY DEF PhoneInit, PipeInit, ButtonKept
<1> QED BY <1>1, <1>2, <1>3, <1>4, <1>5, <1>6, <1>7, <1>8 DEF PhoneInv

\* What the activity, its server and its tasks do to the frame pipe is a step of the
\* pipe or none: a shifter that is paused, resumed, stopped or killed has a link.
LEMMA PhoneIsPipe ==
    ASSUME PhoneInv, PhoneNext
    PROVE  [PipeNext]_pipeVars
<1>0. /\ isPaused \in BOOLEAN /\ button.checked \in BOOLEAN
      /\ link \in {"none", "up", "down"} /\ shifter \in {"read", "check", "paused", "done"}
      /\ \A a \in dataShifter : a \in Activities /\ a # 0
      /\ \A a \in dataShifter : a = owner => link # "none"
  BY ActivityNumbers DEF PhoneInv, PhoneTypeOK, PipeTypeOK, OneOwner
<1>1. ASSUME NEW a \in Activities, NEW paired \in BOOLEAN, ToggleRealServer(a, paired)
      PROVE  [PipeNext]_pipeVars
  <2>1. CASE a \notin dataShifter \/ a # owner
    BY <1>1, <2>1 DEF ToggleRealServer, pipeVars, phoneVars
  <2>2. CASE a \in dataShifter /\ a = owner
    <3>1. isPaused' = ~(~button.checked) /\ link # "none"
      BY <1>0, <1>1, <2>2 DEF ToggleRealServer
    <3>2. isPaused' = isPaused \/ isPaused' = ~isPaused
      BY <1>0, <3>1
    <3>3. CASE isPaused' = isPaused
      BY <1>1, <3>3 DEF ToggleRealServer, pipeVars, phoneVars
    <3>4. CASE isPaused' = ~isPaused
      <4>1. Pause
        BY <1>1, <3>1, <3>4 DEF ToggleRealServer, Pause
      <4> QED BY <4>1 DEF PipeNext
    <3> QED BY <3>2, <3>3, <3>4
  <2> QED BY <2>1, <2>2
<1>2. ASSUME NEW a \in Activities, Accept(a)
      PROVE  [PipeNext]_pipeVars
  BY <1>2 DEF Accept, PipeNext
<1>3. ASSUME NEW a \in Activities,
             AcceptOther(a) \/ AcceptFails(a) \/ Begin(a) \/ GetterEnds(a) \/ OnCreate(a)
      PROVE  [PipeNext]_pipeVars
  BY <1>3 DEF AcceptOther, AcceptFails, Begin, GetterEnds, OnCreate
<1>4. ASSUME NEW a \in Activities, OnDestroy(a)
      PROVE  [PipeNext]_pipeVars
  <2>1. UNCHANGED <<pcVars, stream, buffer, isPaused, broadcasts, watchVars>>
    BY <1>4 DEF OnDestroy
  <2>2. \/ UNCHANGED <<shifter, link>>
        \/ shifter' = "done" /\ link' = "down" /\ link # "none"
    BY <1>0, <1>4 DEF OnDestroy, Crash
  <2>3. CASE UNCHANGED <<shifter, link>>
    BY <2>1, <2>3 DEF pipeVars, phoneVars
  <2>4. CASE shifter' = "done" /\ link' = "down" /\ link # "none"
    <3>1. CASE shifter # "done"
      BY <2>1, <2>4, <3>1 DEF Stop, PipeNext
    <3>2. CASE shifter = "done" /\ link = "up"
      BY <2>1, <2>4, <3>2 DEF LinkBreaks, PipeNext, phoneVars
    <3>3. CASE shifter = "done" /\ link = "down"
      BY <2>1, <2>4, <3>3 DEF pipeVars, phoneVars
    <3> QED BY <1>0, <2>4, <3>1, <3>2, <3>3
  <2> QED BY <2>2, <2>3, <2>4
<1>5. CASE OnPostExecute \/ RequestRegistration \/ RegistrationEnds
  BY <1>5 DEF OnPostExecute, RequestRegistration, RegistrationEnds
<1>6. CASE (PcStep \/ ShifterStep \/ Deliver \/ StartStop) /\ UNCHANGED appVars
  BY <1>6 DEF PcStep, ShifterStep, PipeNext
<1> QED BY <1>1, <1>2, <1>3, <1>4, <1>5, <1>6 DEF PhoneNext

\* The pipe's own steps leave the activity and the pause alone.
LEMMA PipeStepsKeep ==
    ASSUME PhoneInv, PipeTypeOK',
           \/ (PcStep \/ ShifterStep \/ Deliver \/ StartStop) /\ UNCHANGED appVars
           \/ UNCHANGED phoneServerVars
    PROVE  PhoneInv'
<1>1. /\ UNCHANGED appVars /\ isPaused' = isPaused
      /\ driver' = "start" => driver = "start"
      /\ link # "none" => link' # "none"
  <2>1. CASE PcStep /\ UNCHANGED appVars
    BY <2>1 DEF PcStep, ConnectFails, Blit, Flush, Write, WriteFails, LinkBreaks, Pushed,
                pcVars, phoneVars
  <2>2. CASE ShifterStep /\ UNCHANGED appVars
    BY <2>2 DEF ShifterStep, Read, ReadEnd, ReadThrows, Check, pcVars
  <2>3. CASE (Deliver \/ StartStop) /\ UNCHANGED appVars
    BY <2>3 DEF Deliver, StartStop, pcVars, phoneVars
  <2>4. CASE UNCHANGED phoneServerVars
    BY <2>4 DEF phoneServerVars, pipeVars, pcVars, phoneVars
  <2> QED BY <2>1, <2>2, <2>3, <2>4
<1>2. PhoneTypeOK'
  BY <1>1 DEF PhoneInv, PhoneTypeOK, PipeTypeOK, appVars
<1>3. OneOwner'
  BY <1>1 DEF PhoneInv, OneOwner, appVars
<1>4. OneResult' /\ OneOpen'
  BY <1>1 DEF PhoneInv, OneResult, OneOpen, appVars
<1>5. OneGetter'
  BY <1>1 DEF PhoneInv, OneGetter, Pending, appVars
<1>6. ButtonKept' /\ InTurn'
  BY <1>1 DEF PhoneInv, ButtonKept, InTurn, Waiting, appVars
<1> QED BY <1>2, <1>3, <1>4, <1>5, <1>6 DEF PhoneInv

\* toggleRealServer
LEMMA ToggleKeeps ==
    ASSUME PhoneInv, PipeTypeOK', NEW a \in Activities, NEW paired \in BOOLEAN,
           ToggleRealServer(a, paired)
    PROVE  PhoneInv'
<1>1. /\ activity[a] = "open" /\ button.enabled /\ ~crashed
      /\ UNCHANGED <<pcVars, link, stream, shifter, buffer, broadcasts, watchVars,
                     activity, dataShifter, results, registers, owner, begun, crashed>>
      /\ driver' = driver
  BY DEF ToggleRealServer, pcVars
<1>2. PhoneTypeOK /\ OneOwner /\ OneResult /\ OneGetter /\ OneOpen /\ InTurn /\ ButtonKept
  BY DEF PhoneInv
<1>3. \A b \in Activities : activity[b] = "open" => b = a
  BY <1>1, <1>2, ActivityNumbers DEF OneOpen
<1>4. Waiting' = Waiting
  BY <1>1 DEF Waiting
<1>5. owner \in dataShifter => owner \in Activities
  BY <1>2 DEF PhoneTypeOK
<1>6. CASE a \in dataShifter
  <2>1. /\ button' = [enabled |-> TRUE, checked |-> ~button.checked]
        /\ UNCHANGED <<server, tasks>>
        /\ IF a = owner THEN isPaused' = ~(~button.checked) /\ early' = (a \in Waiting)
                        ELSE UNCHANGED <<isPaused, early>>
    BY <1>6 DEF ToggleRealServer
  <2>2. button.checked \in BOOLEAN /\ early \in BOOLEAN
    BY <1>2 DEF PhoneTypeOK
  <2>3. button' \in [enabled : BOOLEAN, checked : BOOLEAN] /\ early' \in BOOLEAN
    <3>1. button' \in [enabled : BOOLEAN, checked : BOOLEAN]
      BY <2>1, <2>2
    <3>2. CASE a = owner
      <4>1. early' = (a \in Waiting)
        BY <2>1, <3>2
      <4> QED BY <3>1, <4>1
    <3>3. CASE a # owner
      <4>1. early' = early
        BY <2>1, <3>3
      <4> QED BY <2>2, <3>1, <4>1
    <3> QED BY <3>2, <3>3
  <2>4. PhoneTypeOK'
    BY <1>1, <1>2, <2>1, <2>3 DEF PhoneTypeOK, PipeTypeOK
  <2>5. OneOwner' /\ OneResult' /\ OneOpen' /\ OneGetter' /\ InTurn'
    BY <1>1, <1>2, <1>4, <2>1 DEF OneOwner, OneResult, OneOpen, OneGetter, InTurn, Pending
  <2>6. ButtonKept'
    <3>1. CASE a = owner
      <4>1. (~button.checked) = (~isPaused')
        <5>1. isPaused' = ~(~button.checked)
          BY <2>1, <3>1
        <5> QED BY <2>2, <5>1
      <4>2. button' = [enabled |-> TRUE, checked |-> ~isPaused']
        <5>1. button' = [enabled |-> TRUE, checked |-> ~button.checked]
          BY <2>1
        <5> QED BY <4>1, <5>1
      <4>3. early' = (owner \in Waiting)
        BY <2>1, <3>1
      <4> QED BY <1>1, <1>4, <1>6, <3>1, <4>2, <4>3 DEF ButtonKept
    <3>2. CASE a # owner
      BY <1>1, <1>2, <1>3, <1>4, <1>5, <2>1, <3>2 DEF ButtonKept
    <3> QED BY <3>1, <3>2
  <2> QED BY <2>4, <2>5, <2>6 DEF PhoneInv
<1>7. CASE a \notin dataShifter
  <2>1. /\ button' = [enabled |-> FALSE, checked |-> FALSE] /\ UNCHANGED <<isPaused, early>>
        /\ \/ UNCHANGED <<server, tasks>>
           \/ /\ server[a] = "none" /\ server' = [server EXCEPT ![a] = "accepting"]
              /\ tasks' = Append(tasks, Getter(a))
    BY <1>7 DEF ToggleRealServer, StartRealServer
  <2>2. button' \in [enabled : BOOLEAN, checked : BOOLEAN]
    BY <2>1
  <2>3. ButtonKept'
    BY <1>1, <1>2, <1>3, <1>4, <1>5, <1>7, <2>1 DEF ButtonKept
  <2>4. CASE UNCHANGED <<server, tasks>>
    <3>1. PhoneTypeOK'
      BY <1>1, <1>2, <2>1, <2>2, <2>4 DEF PhoneTypeOK, PipeTypeOK
    <3>2. OneOwner' /\ OneResult' /\ OneOpen' /\ OneGetter' /\ InTurn'
      BY <1>1, <1>2, <1>4, <2>4 DEF OneOwner, OneResult, OneOpen, OneGetter, InTurn, Pending
    <3> QED BY <2>3, <3>1, <3>2 DEF PhoneInv
  <2>5. CASE /\ server[a] = "none" /\ server' = [server EXCEPT ![a] = "accepting"]
             /\ tasks' = Append(tasks, Getter(a))
    <3>1. tasks \in Seq(TaskSet) /\ Getter(a) \in TaskSet
      BY <1>2 DEF PhoneTypeOK, TaskSet
    <3>2. /\ tasks' \in Seq(TaskSet)
          /\ DOMAIN tasks \subseteq DOMAIN tasks'
          /\ \A n \in DOMAIN tasks : tasks'[n] = tasks[n]
          /\ Len(tasks) + 1 \in DOMAIN tasks' /\ tasks'[Len(tasks) + 1] = Getter(a)
          /\ \A n \in DOMAIN tasks' : n \in DOMAIN tasks \/ n = Len(tasks) + 1
          /\ \A n \in DOMAIN tasks : ~(Len(tasks) + 1 < n)
          /\ ~(Len(tasks) + 1 < Len(tasks) + 1)
      BY <2>5, <3>1, AppendHolds
    <3>3. /\ server'[a] = "accepting" /\ \A b \in Activities : b # a => server'[b] = server[b]
          /\ server' \in [Activities -> {"none", "accepting", "handed", "failed"}]
      BY <1>2, <2>5 DEF PhoneTypeOK
    <3>4. PhoneTypeOK'
      BY <1>1, <1>2, <2>1, <2>2, <3>2, <3>3 DEF PhoneTypeOK, PipeTypeOK
    <3>5. OneOwner'
      BY <1>1, <1>2, <2>5, <3>3, ActivityNumbers DEF OneOwner, PhoneTypeOK
    <3>6. OneResult' /\ OneOpen'
      BY <1>1, <1>2, <3>3 DEF OneResult, OneOpen
    <3>7. OneGetter'
      <4>1. \A b \in Activities : b # a => Getter(b) # Getter(a)
        BY DEF Getter
      <4>2. ~Pending(Getter(a)) /\ Pending(Getter(a))'
        BY <1>2, <2>5, <3>2 DEF OneGetter, Pending
      <4>3. \A b \in Activities : b # a => (Pending(Getter(b))' <=> Pending(Getter(b)))
        BY <3>2, <4>1 DEF Pending
      <4>4. \A m, n \in DOMAIN tasks' : tasks'[m] = tasks'[n] /\ tasks'[m] # Register => m = n
        BY <1>2, <3>2, <4>2 DEF OneGetter, Pending
      <4> QED BY <1>1, <1>2, <1>7, <3>3, <4>2, <4>3, <4>4 DEF OneGetter
    <3>8. \A b \in Activities : server[b] # "none" => b < a
      BY <1>1, <1>2, <2>5, ActivityNumbers DEF OneOpen
    <3>9. \A n \in DOMAIN tasks : tasks[n] # Register => tasks[n].of < a
      <4>1. ASSUME NEW n \in DOMAIN tasks, tasks[n] # Register
            PROVE  tasks[n].of < a
        <5>1. tasks[n] \in TaskSet
          BY <3>1
        <5>2. PICK b \in Activities : tasks[n] = Getter(b)
          BY <4>1, <5>1 DEF TaskSet
        <5>3. server[b] # "none"
          BY <1>2, <5>2 DEF OneGetter, Pending
        <5> QED BY <3>8, <5>2, <5>3 DEF Getter
      <4> QED BY <4>1
    <3>10. \A n \in DOMAIN results : results[n].of \in Waiting /\ results[n].of \in Activities
      BY <1>2, WaitingFields
    <3>11. /\ \A n \in DOMAIN results : results[n].of < a
           /\ \A b \in dataShifter : b < a
      BY <1>2, <3>8, <3>10 DEF InTurn, OneOwner, PhoneTypeOK
    <3>12. Getter(a).of = a
      BY DEF Getter
    <3>13. InTurn'
      <4>1. \A m, n \in DOMAIN tasks' :
               m < n /\ tasks'[m] # Register /\ tasks'[n] # Register => tasks'[m].of < tasks'[n].of
        BY <1>2, <3>2, <3>9, <3>12 DEF InTurn
      <4>2. \A m \in DOMAIN results, n \in DOMAIN tasks' :
               tasks'[n] # Register => results[m].of < tasks'[n].of
        BY <1>2, <3>2, <3>11, <3>12 DEF InTurn
      <4>3. \A b \in dataShifter, n \in DOMAIN tasks' : tasks'[n] # Register => b < tasks'[n].of
        BY <1>2, <3>2, <3>11, <3>12 DEF InTurn
      <4>4. \A b \in Waiting : server'[b] # "none"
        <5>1. \A b \in Waiting : b \in Activities
          BY <3>10 DEF Waiting
        <5> QED BY <1>2, <3>3, <5>1 DEF InTurn
      <4> QED BY <1>1, <1>2, <1>4, <4>1, <4>2, <4>3, <4>4 DEF InTurn
    <3> QED BY <2>3, <3>4, <3>5, <3>6, <3>7, <3>13 DEF PhoneInv
  <2> QED BY <2>1, <2>4, <2>5
<1> QED BY <1>6, <1>7

\* A server's state changes and no task, result or button does.
LEMMA ServerKeeps ==
    ASSUME PhoneInv, NEW a \in Activities, server[a] = "accepting",
           \/ server' = [server EXCEPT ![a] = "handed"]
           \/ server' = [server EXCEPT ![a] = "failed"],
           UNCHANGED <<activity, dataShifter, tasks, results>>
    PROVE  /\ server' \in [Activities -> {"none", "accepting", "handed", "failed"}]
           /\ \A b \in Activities : b # a => server'[b] = server[b]
           /\ \A b \in dataShifter : server'[b] = "handed"
           /\ OneResult' /\ OneGetter' /\ OneOpen' /\ InTurn' /\ Waiting' = Waiting
<1>1. PhoneTypeOK /\ OneOwner /\ OneResult /\ OneGetter /\ OneOpen /\ InTurn
  BY DEF PhoneInv
<1>2. /\ server'[a] \in {"handed", "failed"} /\ \A b \in Activities : b # a => server'[b] = server[b]
      /\ server' \in [Activities -> {"none", "accepting", "handed", "failed"}]
  BY <1>1 DEF PhoneTypeOK
<1>3. Waiting' = Waiting /\ \A b \in Waiting : b \in Activities
  <2>1. Waiting' = Waiting
    BY DEF Waiting
  <2> QED BY <1>1, <2>1, WaitingFields
<1>4. \A b \in dataShifter : b \in Activities /\ b # a
  BY <1>1 DEF OneOwner, PhoneTypeOK
<1>5. OneResult' /\ OneOpen'
  BY <1>1, <1>2 DEF OneResult, OneOpen
<1>6. OneGetter'
  BY <1>1, <1>2 DEF OneGetter, Pending
<1>7. InTurn'
  BY <1>1, <1>2, <1>3 DEF InTurn
<1> QED BY <1>1, <1>2, <1>3, <1>4, <1>5, <1>6, <1>7 DEF OneOwner

\* accept returns the frame pipe: its activity does not know the shifter yet.
LEMMA AcceptKeeps ==
    ASSUME PhoneInv, PipeTypeOK', NEW a \in Activities, Accept(a)
    PROVE  PhoneInv'
<1>1. /\ driver = "start" /\ driver' = "first" /\ link' = "up" /\ isPaused' = isPaused
      /\ server[a] = "accepting" /\ server' = [server EXCEPT ![a] = "handed"]
      /\ owner' = a
      /\ UNCHANGED <<activity, button, dataShifter, tasks, results, registers, begun, crashed, early>>
  BY DEF Accept, Connect, phoneVars
<1>2. PhoneTypeOK /\ OneOwner /\ ButtonKept
  BY DEF PhoneInv
<1>3. owner = 0 /\ 0 \notin dataShifter /\ a \notin dataShifter
  BY <1>1, <1>2, ActivityNumbers DEF OneOwner, PhoneTypeOK
<1>4. ~isPaused /\ ~early
  BY <1>2, <1>3 DEF ButtonKept
<1>5. /\ server' \in [Activities -> {"none", "accepting", "handed", "failed"}]
      /\ \A b \in dataShifter : server'[b] = "handed"
      /\ OneResult' /\ OneGetter' /\ OneOpen' /\ InTurn'
  BY <1>1, ServerKeeps
<1>6. server'[a] = "handed"
  BY <1>1, <1>2 DEF PhoneTypeOK
<1>7. PhoneTypeOK'
  BY <1>1, <1>2, <1>5 DEF PhoneTypeOK, PipeTypeOK
<1>8. OneOwner'
  BY <1>1, <1>5, <1>6 DEF OneOwner
<1>9. ButtonKept'
  BY <1>1, <1>3, <1>4 DEF ButtonKept
<1> QED BY <1>5, <1>7, <1>8, <1>9 DEF PhoneInv

\* accept returns another connection.
LEMMA AcceptOtherKeeps ==
    ASSUME PhoneInv, PipeTypeOK', NEW a \in Activities, AcceptOther(a)
    PROVE  PhoneInv'
<1>1. /\ server[a] = "accepting" /\ server' = [server EXCEPT ![a] = "handed"]
      /\ UNCHANGED <<driver, link, isPaused>>
      /\ UNCHANGED <<activity, button, dataShifter, tasks, results, registers, owner, begun, crashed, early>>
  BY DEF AcceptOther, pipeVars, pcVars, phoneVars
<1>2. PhoneTypeOK /\ OneOwner /\ ButtonKept
  BY DEF PhoneInv
<1>3. /\ server' \in [Activities -> {"none", "accepting", "handed", "failed"}]
      /\ \A b \in dataShifter : server'[b] = "handed"
      /\ OneResult' /\ OneGetter' /\ OneOpen' /\ InTurn' /\ Waiting' = Waiting
  BY <1>1, ServerKeeps
<1>4. PhoneTypeOK'
  BY <1>1, <1>2, <1>3 DEF PhoneTypeOK, PipeTypeOK
<1>5. OneOwner'
  BY <1>1, <1>2, <1>3 DEF OneOwner, PhoneTypeOK
<1>6. ButtonKept'
  BY <1>1, <1>2, <1>3 DEF ButtonKept
<1> QED BY <1>3, <1>4, <1>5, <1>6 DEF PhoneInv

\* accept throws.
LEMMA AcceptFailsKeeps ==
    ASSUME PhoneInv, PipeTypeOK', NEW a \in Activities, AcceptFails(a)
    PROVE  PhoneInv'
<1>1. /\ server[a] = "accepting" /\ server' = [server EXCEPT ![a] = "failed"]
      /\ UNCHANGED <<driver, link, isPaused>>
      /\ UNCHANGED <<activity, button, dataShifter, tasks, results, registers, owner, begun, crashed, early>>
  BY DEF AcceptFails, pipeVars, pcVars, phoneVars
<1>2. PhoneTypeOK /\ OneOwner /\ ButtonKept
  BY DEF PhoneInv
<1>3. /\ server' \in [Activities -> {"none", "accepting", "handed", "failed"}]
      /\ \A b \in Activities : b # a => server'[b] = server[b]
      /\ \A b \in dataShifter : server'[b] = "handed"
      /\ OneResult' /\ OneGetter' /\ OneOpen' /\ InTurn' /\ Waiting' = Waiting
  BY <1>1, ServerKeeps
<1>4. PhoneTypeOK'
  BY <1>1, <1>2, <1>3 DEF PhoneTypeOK, PipeTypeOK
<1>5. OneOwner'
  BY <1>1, <1>2, <1>3 DEF OneOwner, PhoneTypeOK
<1>6. ButtonKept'
  BY <1>1, <1>2, <1>3 DEF ButtonKept
<1> QED BY <1>3, <1>4, <1>5, <1>6 DEF PhoneInv

\* DataShifter.run begins.
LEMMA BeginKeeps ==
    ASSUME PhoneInv, PipeTypeOK', NEW a \in Activities, Begin(a)
    PROVE  PhoneInv'
<1>1. /\ begun' = begun \cup {a}
      /\ UNCHANGED <<driver, link, isPaused>>
      /\ UNCHANGED <<activity, button, server, dataShifter, tasks, results, registers, owner, crashed, early>>
  BY DEF Begin, pipeVars, pcVars, phoneVars
<1>2. PhoneTypeOK /\ OneOwner /\ OneResult /\ OneGetter /\ OneOpen /\ InTurn /\ ButtonKept
  BY DEF PhoneInv
<1>3. PhoneTypeOK'
  BY <1>1, <1>2 DEF PhoneTypeOK, PipeTypeOK
<1>4. OneOwner' /\ OneResult' /\ OneOpen' /\ OneGetter'
  BY <1>1, <1>2 DEF OneOwner, OneResult, OneOpen, OneGetter, Pending
<1>5. ButtonKept' /\ InTurn'
  BY <1>1, <1>2 DEF ButtonKept, InTurn, Waiting
<1> QED BY <1>3, <1>4, <1>5 DEF PhoneInv

\* doInBackground ends: its getter was the only one of its activity, and the first.
LEMMA GetterKeeps ==
    ASSUME PhoneInv, PipeTypeOK', NEW a \in Activities, GetterEnds(a)
    PROVE  PhoneInv'
<1> DEFINE r == [of |-> a, shifter |-> server[a] = "handed"]
<1>1. /\ tasks # <<>> /\ Head(tasks) = Getter(a) /\ server[a] \in {"handed", "failed"}
      /\ dataShifter' = IF server[a] = "handed" THEN dataShifter \cup {a} ELSE dataShifter
      /\ tasks' = Tail(tasks) /\ results' = Append(results, r)
      /\ UNCHANGED <<driver, link, isPaused>>
      /\ UNCHANGED <<activity, button, server, registers, owner, begun, crashed, early>>
  BY DEF GetterEnds, pipeVars, pcVars, phoneVars
<1>2. PhoneTypeOK /\ OneOwner /\ OneResult /\ OneGetter /\ OneOpen /\ InTurn /\ ButtonKept
  BY DEF PhoneInv
<1>3. r \in [of : Activities, shifter : BOOLEAN] /\ r.of = a /\ r.shifter = (server[a] = "handed")
  OBVIOUS
<1> HIDE DEF r
<1>4. /\ tasks' \in Seq(TaskSet) /\ 1 \in DOMAIN tasks /\ tasks[1] = Getter(a)
      /\ \A n \in DOMAIN tasks' : n + 1 \in DOMAIN tasks /\ tasks'[n] = tasks[n + 1] /\ n + 1 # 1
      /\ \A n \in DOMAIN tasks : n = 1 \/ (n - 1 \in DOMAIN tasks' /\ tasks[n] = tasks'[n - 1])
      /\ \A m, n \in DOMAIN tasks' : m + 1 = n + 1 => m = n
      /\ \A m, n \in DOMAIN tasks' : m < n => m + 1 < n + 1
      /\ \A n \in DOMAIN tasks' : 1 < n + 1
  <2>1. tasks \in Seq(TaskSet)
    BY <1>2 DEF PhoneTypeOK
  <2> QED BY <1>1, <2>1, TailHolds
<1>5. /\ results' \in Seq([of : Activities, shifter : BOOLEAN])
      /\ DOMAIN results \subseteq DOMAIN results'
      /\ \A n \in DOMAIN results : results'[n] = results[n]
      /\ Len(results) + 1 \in DOMAIN results' /\ results'[Len(results) + 1] = r
      /\ Len(results) + 1 \notin DOMAIN results
      /\ \A n \in DOMAIN results' : n \in DOMAIN results \/ n = Len(results) + 1
      /\ \A n \in DOMAIN results : ~(Len(results) + 1 < n)
      /\ ~(Len(results) + 1 < Len(results) + 1)
  <2>1. results \in Seq([of : Activities, shifter : BOOLEAN])
    BY <1>2 DEF PhoneTypeOK
  <2> QED BY <1>1, <1>3, <2>1, AppendHolds
<1>6. Getter(a) # Register /\ \A b \in Activities : b # a => Getter(b) # Getter(a)
  BY DEF Getter, Register
<1>7. Pending(Getter(a)) /\ a \notin dataShifter /\ server[a] # "none"
  BY <1>2, <1>4 DEF Pending, OneGetter
<1>8. ~Pending(Getter(a))'
  BY <1>2, <1>4, <1>6 DEF Pending, OneGetter
<1>9. \A b \in Activities : b # a => (Pending(Getter(b))' <=> Pending(Getter(b)))
  BY <1>4, <1>6 DEF Pending
<1>10. PhoneTypeOK'
  <2>1. dataShifter' \subseteq Activities
    BY <1>1, <1>2 DEF PhoneTypeOK
  <2> QED BY <1>1, <1>2, <1>4, <1>5, <2>1 DEF PhoneTypeOK, PipeTypeOK
<1>11. OneOwner'
  BY <1>1, <1>2 DEF OneOwner
<1>12. /\ \A n \in DOMAIN results : results[n].of < a /\ results[n].of # a /\ results[n].of \in Activities
       /\ \A b \in dataShifter : b < a
       /\ \A n \in DOMAIN tasks' : tasks'[n] # Register => a < tasks'[n].of
  <2>1. Getter(a).of = a
    BY DEF Getter
  <2>2. \A n \in DOMAIN results : results[n].of < a /\ results[n].of \in Activities
    BY <1>2, <1>4, <1>6, <2>1, WaitingFields DEF InTurn
  <2>3. \A b \in dataShifter : b < a
    BY <1>2, <1>4, <1>6, <2>1 DEF InTurn
  <2>4. \A n \in DOMAIN tasks' : tasks'[n] # Register => a < tasks'[n].of
    BY <1>2, <1>4, <1>6, <2>1 DEF InTurn
  <2> QED BY <2>2, <2>3, <2>4, ActivityNumbers DEF Activities
<1>13. OneResult'
  BY <1>1, <1>2, <1>3, <1>5, <1>7, <1>12 DEF OneResult
<1>14. OneGetter'
  <2>1. \A b \in Activities : Pending(Getter(b))' => b \notin dataShifter' /\ server'[b] # "none"
    BY <1>1, <1>2, <1>8, <1>9 DEF OneGetter
  <2>2. \A m, n \in DOMAIN tasks' : tasks'[m] = tasks'[n] /\ tasks'[m] # Register => m = n
    BY <1>2, <1>4 DEF OneGetter
  <2>3. \A b \in Activities :
           server'[b] \in {"accepting", "handed"} => Pending(Getter(b))' \/ b \in dataShifter'
    BY <1>1, <1>2, <1>9 DEF OneGetter
  <2> QED BY <2>1, <2>2, <2>3 DEF OneGetter
<1>15. OneOpen'
  BY <1>1, <1>2 DEF OneOpen
<1>16. Waiting' = Waiting \cup {a}
  BY <1>3, <1>5 DEF Waiting
<1>17. InTurn'
  <2>1. \A m, n \in DOMAIN tasks' :
           m < n /\ tasks'[m] # Register /\ tasks'[n] # Register => tasks'[m].of < tasks'[n].of
    BY <1>2, <1>4 DEF InTurn
  <2>2. \A m, n \in DOMAIN results' : m < n => results'[m].of < results'[n].of
    BY <1>2, <1>3, <1>5, <1>12 DEF InTurn
  <2>3. \A m \in DOMAIN results', n \in DOMAIN tasks' :
           tasks'[n] # Register => results'[m].of < tasks'[n].of
    <3>1. ASSUME NEW m \in DOMAIN results', NEW n \in DOMAIN tasks', tasks'[n] # Register
          PROVE  results'[m].of < tasks'[n].of
      <4>1. CASE m \in DOMAIN results
        BY <1>2, <1>4, <1>5, <3>1, <4>1 DEF InTurn
      <4>2. CASE m = Len(results) + 1
        BY <1>3, <1>5, <1>12, <3>1, <4>2
      <4> QED BY <1>5, <3>1, <4>1, <4>2
    <3> QED BY <3>1
  <2>4. \A b \in dataShifter', n \in DOMAIN tasks' : tasks'[n] # Register => b < tasks'[n].of
    BY <1>1, <1>2, <1>4, <1>12 DEF InTurn
  <2>5. \A b \in dataShifter', n \in DOMAIN results' : b \notin Waiting' => b < results'[n].of
    BY <1>1, <1>2, <1>3, <1>5, <1>12, <1>16 DEF InTurn
  <2>6. \A b \in Waiting' : server'[b] # "none"
    BY <1>1, <1>2, <1>7, <1>16 DEF InTurn
  <2> QED BY <2>1, <2>2, <2>3, <2>4, <2>5, <2>6 DEF InTurn
<1>18. ButtonKept'
  BY <1>1, <1>2, <1>7, <1>16 DEF ButtonKept
<1> QED BY <1>10, <1>11, <1>13, <1>14, <1>15, <1>17, <1>18 DEF PhoneInv

\* onPostExecute: an older activity's result comes before the open one's; if that is
\* handled, the shifter is not paused unless the button was used too early.
LEMMA PostKeeps ==
    ASSUME PhoneInv, PipeTypeOK', OnPostExecute
    PROVE  PhoneInv'
<1> DEFINE r == Head(results)
<1>1. /\ results # <<>> /\ results' = Tail(results)
      /\ button' = IF r.shifter THEN [enabled |-> TRUE, checked |-> TRUE] ELSE button
      /\ UNCHANGED <<driver, link, isPaused>>
      /\ UNCHANGED <<activity, server, dataShifter, tasks, registers, owner, begun, crashed, early>>
  BY DEF OnPostExecute, pipeVars, pcVars, phoneVars
<1>2. PhoneTypeOK /\ OneOwner /\ OneResult /\ OneGetter /\ OneOpen /\ InTurn /\ ButtonKept
  BY DEF PhoneInv
<1>3. /\ results' \in Seq([of : Activities, shifter : BOOLEAN])
      /\ r \in [of : Activities, shifter : BOOLEAN]
      /\ 1 \in DOMAIN results /\ results[1] = r
      /\ \A n \in DOMAIN results' :
             n + 1 \in DOMAIN results /\ results'[n] = results[n + 1] /\ n + 1 # 1
      /\ \A n \in DOMAIN results :
             n = 1 \/ (n - 1 \in DOMAIN results' /\ results[n] = results'[n - 1])
      /\ \A m, n \in DOMAIN results' : m < n => m + 1 < n + 1
      /\ \A n \in DOMAIN results' : 1 < n + 1
  <2>1. results \in Seq([of : Activities, shifter : BOOLEAN])
    BY <1>2 DEF PhoneTypeOK
  <2> QED BY <1>1, <2>1, TailHolds
<1> HIDE DEF r
<1>4. button' \in [enabled : BOOLEAN, checked : BOOLEAN]
  BY <1>1, <1>2 DEF PhoneTypeOK
<1>5. PhoneTypeOK'
  BY <1>1, <1>2, <1>3, <1>4 DEF PhoneTypeOK, PipeTypeOK
<1>6. OneOwner' /\ OneOpen' /\ OneGetter'
  BY <1>1, <1>2 DEF OneOwner, OneOpen, OneGetter, Pending
<1>7. OneResult'
  BY <1>1, <1>2, <1>3 DEF OneResult
<1>8. Waiting' \subseteq Waiting /\ Waiting \subseteq Waiting' \cup {r.of} /\ r.of \in Waiting
  BY <1>3 DEF Waiting
<1>9. \A n \in DOMAIN results' : r.of < results'[n].of
  BY <1>2, <1>3 DEF InTurn
<1>10. InTurn'
  <2>1. \A m, n \in DOMAIN results' : m < n => results'[m].of < results'[n].of
    BY <1>2, <1>3 DEF InTurn
  <2>2. \A m \in DOMAIN results', n \in DOMAIN tasks :
           tasks[n] # Register => results'[m].of < tasks[n].of
    BY <1>2, <1>3 DEF InTurn
  <2>3. \A b \in dataShifter, n \in DOMAIN results' : b \notin Waiting' => b < results'[n].of
    BY <1>2, <1>3, <1>8, <1>9 DEF InTurn
  <2> QED BY <1>1, <1>2, <1>8, <2>1, <2>2, <2>3 DEF InTurn
<1>11. ButtonKept'
  <2>1. CASE owner \in dataShifter /\ owner \notin Waiting' /\ ~early /\ activity[owner] = "open"
    <3>1. owner \in Activities /\ r.of \in Activities
      BY <1>2, <1>3, <2>1 DEF PhoneTypeOK
    <3>2. owner \in Waiting
      <4>1. SUFFICES ASSUME owner \notin Waiting PROVE FALSE
        OBVIOUS
      <4>2. owner < r.of
        BY <1>2, <1>3, <2>1, <4>1 DEF InTurn
      <4>3. activity[r.of] # "none"
        BY <1>2, <1>8, <3>1 DEF InTurn, OneOpen
      <4> QED BY <1>2, <2>1, <3>1, <4>2, <4>3 DEF OneOpen
    <3>3. r.of = owner /\ r.shifter
      BY <1>2, <1>3, <1>8, <2>1, <3>2 DEF OneResult
    <3>4. ~isPaused
      BY <1>2, <2>1, <3>2 DEF ButtonKept
    <3>5. button' = [enabled |-> TRUE, checked |-> TRUE] /\ (~isPaused) = TRUE
      BY <1>1, <3>3, <3>4
    <3> QED BY <1>1, <2>1, <3>5 DEF ButtonKept
  <2>2. CASE ~(owner \in dataShifter /\ owner \notin Waiting' /\ ~early /\ activity[owner] = "open")
    BY <1>1, <1>2, <1>8, <2>2 DEF ButtonKept
  <2> QED BY <2>1, <2>2
<1> QED BY <1>5, <1>6, <1>7, <1>10, <1>11 DEF PhoneInv

\* The watch extension service asks for a registration.
LEMMA RequestKeeps ==
    ASSUME PhoneInv, PipeTypeOK', RequestRegistration
    PROVE  PhoneInv'
<1>1. /\ registers < MaxRegisters /\ registers' = registers + 1
      /\ tasks' = Append(tasks, Register)
      /\ UNCHANGED <<driver, link, isPaused>>
      /\ UNCHANGED <<activity, button, server, dataShifter, results, owner, begun, crashed, early>>
  BY DEF RequestRegistration, pipeVars, pcVars, phoneVars
<1>2. PhoneTypeOK /\ OneOwner /\ OneResult /\ OneGetter /\ OneOpen /\ InTurn /\ ButtonKept
  BY DEF PhoneInv
<1>3. /\ tasks' \in Seq(TaskSet)
      /\ DOMAIN tasks \subseteq DOMAIN tasks'
      /\ \A n \in DOMAIN tasks : tasks'[n] = tasks[n]
      /\ tasks'[Len(tasks) + 1] = Register
      /\ \A n \in DOMAIN tasks' : n \in DOMAIN tasks \/ n = Len(tasks) + 1
  <2>1. tasks \in Seq(TaskSet) /\ Register \in TaskSet
    BY <1>2 DEF PhoneTypeOK, TaskSet
  <2> QED BY <1>1, <2>1, AppendHolds
<1>4. \A a \in Activities : Getter(a) # Register
  BY DEF Getter, Register
<1>5. \A a \in Activities : Pending(Getter(a))' <=> Pending(Getter(a))
  BY <1>3, <1>4 DEF Pending
<1>6. registers' \in 0 .. MaxRegisters
  BY <1>1, <1>2, PhoneAssumption DEF PhoneTypeOK
<1>7. PhoneTypeOK'
  BY <1>1, <1>2, <1>3, <1>6 DEF PhoneTypeOK, PipeTypeOK
<1>8. OneOwner' /\ OneResult' /\ OneOpen'
  BY <1>1, <1>2 DEF OneOwner, OneResult, OneOpen
<1>9. OneGetter'
  <2>1. \A m, n \in DOMAIN tasks' : tasks'[m] = tasks'[n] /\ tasks'[m] # Register => m = n
    BY <1>2, <1>3 DEF OneGetter
  <2> QED BY <1>1, <1>2, <1>5, <2>1 DEF OneGetter
<1>10. InTurn'
  <2>1. Waiting' = Waiting
    BY <1>1 DEF Waiting
  <2> QED BY <1>1, <1>2, <1>3, <2>1 DEF InTurn
<1>11. ButtonKept'
  BY <1>1, <1>2 DEF ButtonKept, Waiting
<1> QED BY <1>7, <1>8, <1>9, <1>10, <1>11 DEF PhoneInv

\* A registration ends.
LEMMA RegistrationKeeps ==
    ASSUME PhoneInv, PipeTypeOK', RegistrationEnds
    PROVE  PhoneInv'
<1>1. /\ tasks # <<>> /\ Head(tasks) = Register /\ tasks' = Tail(tasks)
      /\ UNCHANGED <<driver, link, isPaused>>
      /\ UNCHANGED <<activity, button, server, dataShifter, results, registers, owner, begun, crashed, early>>
  BY DEF RegistrationEnds, pipeVars, pcVars, phoneVars
<1>2. PhoneTypeOK /\ OneOwner /\ OneResult /\ OneGetter /\ OneOpen /\ InTurn /\ ButtonKept
  BY DEF PhoneInv
<1>3. /\ tasks' \in Seq(TaskSet) /\ 1 \in DOMAIN tasks /\ tasks[1] = Register
      /\ \A n \in DOMAIN tasks' : n + 1 \in DOMAIN tasks /\ tasks'[n] = tasks[n + 1] /\ n + 1 # 1
      /\ \A n \in DOMAIN tasks : n = 1 \/ (n - 1 \in DOMAIN tasks' /\ tasks[n] = tasks'[n - 1])
      /\ \A m, n \in DOMAIN tasks' : m + 1 = n + 1 => m = n
      /\ \A m, n \in DOMAIN tasks' : m < n => m + 1 < n + 1
  <2>1. tasks \in Seq(TaskSet)
    BY <1>2 DEF PhoneTypeOK
  <2> QED BY <1>1, <2>1, TailHolds
<1>4. \A a \in Activities : Getter(a) # Register
  BY DEF Getter, Register
<1>5. \A a \in Activities : Pending(Getter(a))' <=> Pending(Getter(a))
  BY <1>3, <1>4 DEF Pending
<1>6. PhoneTypeOK'
  BY <1>1, <1>2, <1>3 DEF PhoneTypeOK, PipeTypeOK
<1>7. OneOwner' /\ OneResult' /\ OneOpen'
  BY <1>1, <1>2 DEF OneOwner, OneResult, OneOpen
<1>8. OneGetter'
  <2>1. \A m, n \in DOMAIN tasks' : tasks'[m] = tasks'[n] /\ tasks'[m] # Register => m = n
    BY <1>2, <1>3 DEF OneGetter
  <2> QED BY <1>1, <1>2, <1>5, <2>1 DEF OneGetter
<1>9. InTurn'
  <2>1. Waiting' = Waiting
    BY <1>1 DEF Waiting
  <2> QED BY <1>1, <1>2, <1>3, <2>1 DEF InTurn
<1>10. ButtonKept'
  BY <1>1, <1>2 DEF ButtonKept, Waiting
<1> QED BY <1>6, <1>7, <1>8, <1>9, <1>10 DEF PhoneInv

\* onCreate: the next activity has started no server yet.
LEMMA CreateKeeps ==
    ASSUME PhoneInv, PipeTypeOK', NEW a \in Activities, OnCreate(a)
    PROVE  PhoneInv'
<1>1. /\ activity[a] = "none" /\ \A b \in Activities : b < a => activity[b] = "gone"
      /\ activity' = [activity EXCEPT ![a] = "open"]
      /\ UNCHANGED <<driver, link, isPaused>>
      /\ UNCHANGED <<server, dataShifter, tasks, results, registers, owner, begun, crashed, early>>
  BY DEF OnCreate, pipeVars, pcVars, phoneVars
<1>2. PhoneTypeOK /\ OneOwner /\ OneResult /\ OneGetter /\ OneOpen /\ InTurn /\ ButtonKept
  BY DEF PhoneInv
<1>3. button' \in [enabled : BOOLEAN, checked : BOOLEAN]
  <2>1. button.checked \in BOOLEAN
    BY <1>2 DEF PhoneTypeOK
  <2>2. PICK c \in BOOLEAN : button' = [enabled |-> TRUE, checked |-> c]
    BY <2>1 DEF OnCreate
  <2> QED BY <2>2
<1>4. /\ activity'[a] = "open" /\ \A b \in Activities : b # a => activity'[b] = activity[b]
      /\ activity' \in [Activities -> {"none", "open", "gone"}]
  BY <1>1, <1>2 DEF PhoneTypeOK
<1>5. \A b \in Activities : a < b => activity[b] = "none"
  BY <1>1, <1>2 DEF OneOpen
<1>6. \A b \in Activities : b # a => activity'[b] # "open"
  BY <1>1, <1>4, <1>5, ActivityNumbers
<1>7. PhoneTypeOK'
  BY <1>1, <1>2, <1>3, <1>4 DEF PhoneTypeOK, PipeTypeOK
<1>8. OneOwner' /\ OneResult' /\ OneGetter'
  BY <1>1, <1>2 DEF OneOwner, OneResult, OneGetter, Pending
<1>9. OneOpen'
  <2>1. ASSUME NEW b \in Activities, NEW c \in Activities, activity'[b] # "none", c < b
        PROVE  activity'[c] = "gone"
    <3>1. b = a \/ activity[b] # "none"
      BY <1>4, <2>1
    <3>2. b = a => activity[c] = "gone" /\ c # a
      BY <1>1, <2>1, ActivityNumbers
    <3>3. activity[b] # "none" => activity[c] = "gone" /\ c # a
      BY <1>1, <1>2, <2>1 DEF OneOpen
    <3> QED BY <1>4, <3>1, <3>2, <3>3
  <2> QED BY <1>1, <1>2, <1>4, <2>1 DEF OneOpen
<1>10. InTurn' /\ Waiting' = Waiting
  BY <1>1, <1>2 DEF InTurn, Waiting
<1>11. ButtonKept'
  <2>1. server[a] = "none"
    BY <1>1, <1>2 DEF OneOpen
  <2>2. owner \in dataShifter => owner \in Activities /\ owner # a
    BY <1>2, <2>1 DEF OneOwner, PhoneTypeOK
  <2> QED BY <1>1, <1>2, <1>6, <1>10, <2>2 DEF ButtonKept
<1> QED BY <1>7, <1>8, <1>9, <1>10, <1>11 DEF PhoneInv

\* onDestroy: nobody asks the button of an activity that is gone.
LEMMA DestroyKeeps ==
    ASSUME PhoneInv, PipeTypeOK', NEW a \in Activities, OnDestroy(a)
    PROVE  PhoneInv'
<1>1. /\ activity[a] = "open" /\ activity' = [activity EXCEPT ![a] = "gone"]
      /\ crashed' \in BOOLEAN /\ (link' = link \/ link' = "down")
      /\ UNCHANGED <<driver, isPaused>>
      /\ UNCHANGED <<button, server, dataShifter, tasks, results, registers, owner, begun, early>>
  <2>1. crashed \in BOOLEAN
    BY DEF PhoneInv, PhoneTypeOK
  <2>2. crashed' \in BOOLEAN /\ (link' = link \/ link' = "down")
    BY <2>1 DEF OnDestroy, Crash
  <2> QED BY <2>2 DEF OnDestroy, pcVars
<1>2. PhoneTypeOK /\ OneOwner /\ OneResult /\ OneGetter /\ OneOpen /\ InTurn /\ ButtonKept
  BY DEF PhoneInv
<1>3. /\ activity'[a] = "gone" /\ \A b \in Activities : b # a => activity'[b] = activity[b]
      /\ activity' \in [Activities -> {"none", "open", "gone"}]
  BY <1>1, <1>2 DEF PhoneTypeOK
<1>4. PhoneTypeOK'
  BY <1>1, <1>2, <1>3 DEF PhoneTypeOK, PipeTypeOK
<1>5. OneOwner' /\ OneResult' /\ OneGetter'
  BY <1>1, <1>2 DEF OneOwner, OneResult, OneGetter, Pending
<1>6. OneOpen'
  BY <1>1, <1>2, <1>3 DEF OneOpen
<1>7. InTurn' /\ Waiting' = Waiting
  BY <1>1, <1>2 DEF InTurn, Waiting
<1>8. ButtonKept'
  <2>1. owner \in dataShifter => owner \in Activities
    BY <1>2 DEF PhoneTypeOK
  <2> QED BY <1>1, <1>2, <1>3, <1>7, <2>1 DEF ButtonKept
<1> QED BY <1>4, <1>5, <1>6, <1>7, <1>8 DEF PhoneInv

\* Every step of the phone keeps both invariants.
LEMMA PhoneStep ==
    ASSUME PipeInv, PhoneInv, [PhoneNext]_phoneServerVars
    PROVE  PipeInv' /\ PhoneInv' /\ [PipeNext]_pipeVars
<1>1. [PipeNext]_pipeVars
  BY PhoneIsPipe DEF phoneServerVars
<1>2. PipeInv' /\ PipeTypeOK'
  BY <1>1, PipeStep DEF PipeInv
<1>3. PhoneInv'
  <2>1. CASE \E a \in Activities : \E paired \in BOOLEAN : ToggleRealServer(a, paired)
    BY <1>2, <2>1, ToggleKeeps
  <2>2. CASE \E a \in Activities : Accept(a) \/ AcceptOther(a)
    BY <1>2, <2>2, AcceptKeeps, AcceptOtherKeeps
  <2>3. CASE \E a \in Activities : AcceptFails(a)
    BY <1>2, <2>3, AcceptFailsKeeps
  <2>4. CASE \E a \in Activities : GetterEnds(a)
    BY <1>2, <2>4, GetterKeeps
  <2>5. CASE \E a \in Activities : OnCreate(a)
    BY <1>2, <2>5, CreateKeeps
  <2>6. CASE \E a \in Activities : OnDestroy(a)
    BY <1>2, <2>6, DestroyKeeps
  <2>7. CASE \E a \in Activities : Begin(a)
    BY <1>2, <2>7, BeginKeeps
  <2>8. CASE OnPostExecute
    BY <1>2, <2>8, PostKeeps
  <2>9. CASE RequestRegistration
    BY <1>2, <2>9, RequestKeeps
  <2>10. CASE RegistrationEnds
    BY <1>2, <2>10, RegistrationKeeps
  <2>11. CASE \/ (PcStep \/ ShifterStep \/ Deliver \/ StartStop) /\ UNCHANGED appVars
              \/ UNCHANGED phoneServerVars
    BY <1>2, <2>11, PipeStepsKeep
  <2> QED BY <2>1, <2>2, <2>3, <2>4, <2>5, <2>6, <2>7, <2>8, <2>9, <2>10, <2>11 DEF PhoneNext
<1> QED BY <1>1, <1>2, <1>3

\* MainActivity, its server and its tasks keep the invariants, with any number of
\* activities and registrations.
THEOREM PhoneInductive == PhoneSpec => [](PipeInv /\ PhoneInv)
<1>1. PhoneInit => PipeInv /\ PhoneInv
  BY PhoneInitial
<1>2. PipeInv /\ PhoneInv /\ [PhoneNext]_phoneServerVars => (PipeInv /\ PhoneInv)'
  BY PhoneStep
<1> QED BY <1>1, <1>2, PTL DEF PhoneSpec

\* The phone's state is what its variables are declared to be.
THEOREM PhoneTypeCorrect == PhoneSpec => []PhoneTypeOK
<1>1. PipeInv /\ PhoneInv => PhoneTypeOK
  BY DEF PhoneInv
<1> QED BY <1>1, PhoneInductive, PTL

\* toggleRealServer, the server's thread, the getter and onDestroy do to the frame pipe
\* only what its users may: connect once, pause, resume, stop.
THEOREM PhoneIsPipeUser == PhoneSpec => PhoneUsesPipe
<1>1. PhoneInit => PipeInit
  BY DEF PhoneInit
<1>2. PipeInv /\ PhoneInv /\ [PhoneNext]_phoneServerVars => [PipeNext]_pipeVars
  BY PhoneStep
<1>3. PhoneSpec => PipeSpec
  BY <1>1, <1>2, PhoneInductive, PTL DEF PhoneSpec, PipeSpec
<1> QED BY <1>3 DEF PhoneUsesPipe

\* Hence the watch shows whole pictures in their order whatever becomes of activities.
THEOREM PhoneFeeds == PhoneSpec => FeedSpec
<1>1. PhoneUsesPipe => PipeSpec
  BY DEF PhoneUsesPipe
<1> QED BY <1>1, PhoneIsPipeUser, PipeFeeds, PTL

\* The button of the open activity is checked unless DataShifter is paused, once the
\* activity knows its shifter (MainActivity.java, toggleRealServer and onPostExecute), or
\* from the next press on if it was pressed before its own result was handled.
THEOREM ButtonTruthful == PhoneSpec => []ButtonTellsPause
<1>1. ASSUME PhoneInv
      PROVE  ButtonTellsPause
  <2>1. results = <<>> => Waiting = {}
    BY DEF Waiting
  <2> QED BY <1>1, <2>1 DEF PhoneInv, ButtonKept, ButtonTellsPause
<1> QED BY <1>1, PhoneInductive, PTL

\* onDestroy ends the shifter that its activity's server started, unless the getter has
\* still to hand it over.
THEOREM OrphanOnlyPending == PhoneSpec => NoOrphan
<1>1. ASSUME PhoneInv, PhoneNext, NEW a \in Activities,
             activity[a] = "open", activity'[a] = "gone", owner = a, ~Pending(Getter(a))
      PROVE  shifter' = "done"
  <2>1. PICK b \in Activities : OnDestroy(b) \/ OnCreate(b)
    BY <1>1 DEF PhoneNext, ToggleRealServer, Accept, AcceptOther, AcceptFails, GetterEnds, Begin,
                OnPostExecute, RequestRegistration, RegistrationEnds, appVars
  <2>2. OnDestroy(a)
    BY <1>1, <2>1 DEF OnDestroy, OnCreate, PhoneInv, PhoneTypeOK
  <2>3. a \in dataShifter /\ link # "none"
    <3>1. server[a] = "handed" /\ link # "none"
      BY <1>1, ActivityNumbers DEF PhoneInv, OneOwner
    <3> QED BY <1>1, <3>1 DEF PhoneInv, OneGetter
  <2> QED BY <1>1, <2>2, <2>3 DEF OnDestroy, Crash
<1>2. ASSUME PhoneInv, [PhoneNext]_phoneServerVars, NEW a \in Activities,
             activity[a] = "open", activity'[a] = "gone", owner = a, ~Pending(Getter(a))
      PROVE  shifter' = "done"
  <2>1. ~UNCHANGED phoneServerVars
    BY <1>2 DEF phoneServerVars, appVars
  <2> QED BY <1>1, <1>2, <2>1
<1>3. PhoneInv /\ [PhoneNext]_phoneServerVars =>
          [\A a \in Activities :
              activity[a] = "open" /\ activity'[a] = "gone" /\ owner = a /\ ~Pending(Getter(a))
                  => shifter' = "done"]_phoneServerVars
  BY <1>2
<1> QED BY <1>3, PhoneInductive, PTL DEF PhoneSpec, NoOrphan
=============================================================================
