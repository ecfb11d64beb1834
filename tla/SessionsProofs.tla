---------------------------- MODULE SessionsProofs ----------------------------
(***************************************************************************)
(* The output of a terminal session, for any stream, bounds and number of  *)
(* sessions; and what is installed, for any profiles and bounds.           *)
(*                                                                         *)
(* The threads (Threads): a waiter that has not ended has a session that   *)
(* runs, a start that has not resumed its process, or somebody who told it *)
(* to keep quiet; so an exit comes only to the owner of a running session, *)
(* it is the only one, and the reader has ended by then, with all that was *)
(* written unless a read failed.                                           *)
(*                                                                         *)
(* The bytes (Flow): what is pending is a piece of the stream that ends    *)
(* where the reader is, the carry is the byte before it if that one begins *)
(* a character, and with the transcript before them they are all the       *)
(* bytes, unless some were dropped. What was dropped ends between two      *)
(* characters. So what a drain shows begins and ends between characters,   *)
(* and a transcript of whole characters stays one when it is cut.          *)
(*                                                                         *)
(* The order of packages (Served): the recursion of the depth-first visit  *)
(* has a solution, the union of its partial ones (Part, Joint), because    *)
(* each visit calls only ones that have fewer packages left to enter, or a *)
(* shorter list (Earlier). A visit that meets no cycle adds its list, each *)
(* package once and after what it depends on; the packages being visited   *)
(* lie on a trail of dependencies (Trail), so a cycle that is met is one.  *)
(*                                                                         *)
(* The packages (PackagesInv): what the desktop's staging has copied is    *)
(* good, and with what it still has to copy it covers what its profile     *)
(* requires (Staging), so what it records covers it too, and the gate      *)
(* binds the record to the files (Recorded). A running script holds the    *)
(* mutex, is the only one, has seen exactly the packages before its own,   *)
(* and goes on to install only with the contents the profile names         *)
(* (Logon). What it has seen is marked as installed (SeenMarks), since no  *)
(* package comes twice in the order. The helper (HelperInv): it is called  *)
(* ready only with the program on the path and verified.                   *)
(***************************************************************************)
EXTENDS MCSessions, SequenceTheorems, FiniteSetTheorems, TLAPS

-----------------------------------------------------------------------------
(* The terminal. *)

Byte == 1 .. Len(Stream)
exits == {"exit", "forcedExit"}

\* TypeOK with its flags one by one.
Flags ==
  /\ console \in BOOLEAN /\ ownEnd \in BOOLEAN /\ drainQueued \in BOOLEAN
  /\ stopWriter \in BOOLEAN /\ forced \in BOOLEAN /\ suppress \in BOOLEAN
  /\ lost \in BOOLEAN /\ discarded \in BOOLEAN
Places ==
  /\ main \in {"idle", "starting", "spawning", "resuming", "abandoning",
               "destroying", "gone"}
  /\ state \in {"Idle", "Starting", "Running", "Stopping", "Exited", "Failed"}
  /\ session \in 0 .. MaxSessions
  /\ child \in {"none", "suspended", "running", "exited"}
  /\ written \in 0 .. Len(Stream) /\ read \in 0 .. Len(Stream)
  /\ reader \in {"none", "reading", "ended", "failed"}
  /\ writer \in {"none", "waiting", "writing", "ended"}
  /\ waiter \in {"none", "process", "reader", "ended"}
  /\ pending \in Seq(Byte) /\ Len(pending) <= MaxPendingOutput
  /\ transcript \in Seq(Byte) /\ Len(transcript) <= MaxTranscript
  /\ input \in 0 .. MaxInput
  /\ timers \subseteq 1 .. MaxSessions /\ asked \in 0 .. MaxSessions
  /\ exitStatus \in {"NotExited", "Terminated", "Ended"}

LEMMA TypeParts ==
  /\ TypeOK <=> Flags /\ Places
  /\ Flags' /\ Places' => TypeOK'
BY DEF Flags, Places, TypeOK, Byte

\* The owner of the object is not in its destructor, or past it.
alive == main \notin {"destroying", "gone"}

\* Where the owning thread is, and what the state of the session is then.
Owner ==
  /\ main \in {"spawning", "resuming", "abandoning"} <=> state = "Starting"
  /\ main \in {"spawning", "resuming"} => child = "suspended" /\ ~suppress
  /\ main = "starting" => ~running /\ session < MaxSessions
  /\ running => session >= 1

\* A waiter at work has somebody to tell, or is told to keep quiet; it ends
\* after the reader.
Waiting ==
  /\ waiter \in {"process", "reader"} =>
       \/ main \in {"abandoning", "destroying"} /\ suppress
       \/ main = "idle" /\ state \in {"Running", "Stopping"}
       \/ main = "resuming" /\ waiter = "process"
  /\ waiter = "ended" => reader \in {"ended", "failed"}
  /\ waiter # "none" => reader # "none"

\* The calls queued: one exit at most, of a session that runs.
Calls ==
  /\ mailbox \in Seq({"drain"} \cup exits)
  /\ \A i, j \in DOMAIN mailbox : mailbox[i] \in exits /\ mailbox[j] \in exits => i = j
  /\ \A i \in DOMAIN mailbox : mailbox[i] \in exits =>
       main = "idle" /\ state \in {"Running", "Stopping"} /\ waiter = "ended"

\* A reader that has ended has read what was written, and no more is, or its read failed.
Ended ==
  /\ read <= written
  /\ reader = "ended" => read = written /\ ~console
  /\ state = "Exited" => reader \in {"ended", "failed"}

Threads == Owner /\ Waiting /\ Calls /\ Ended

\* Who is responsible for a forced end.
Blamed ==
  /\ forced /\ ~suppress => asked = session
  /\ \A i \in DOMAIN mailbox : mailbox[i] = "forcedExit" => asked = session

\* The first bytes of the stream, some that end at n, and the one at n if it
\* begins a character.
Bytes(n) == [i \in 1 .. n |-> i]
Piece(s, n) == Len(s) <= n /\ \A i \in 1 .. Len(s) : s[i] = n - Len(s) + i
opened(n) == IF n > 0 /\ Stream[n] = "first" THEN <<n>> ELSE <<>>

\* Characters are whole; the last may be half of one if it is the byte n.
Whole(s, n) ==
  \A i \in DOMAIN s :
    /\ Stream[s[i]] = "second" => i > 1 /\ s[i - 1] = s[i] - 1
    /\ Stream[s[i]] = "first" => \/ i < Len(s) /\ s[i + 1] = s[i] + 1
                                 \/ i = Len(s) /\ s[i] = n

\* What is on its way to the transcript.
Flow ==
  /\ Piece(pending, read)
  /\ discarded => IF pending = <<>> THEN read > 0 /\ Stream[read] = "second"
                  ELSE Stream[pending[1]] # "second"
  /\ ~discarded /\ state # "Exited" => carry = opened(read - Len(pending))
  /\ ~discarded /\ ~lost => transcript \o (carry \o pending) = Bytes(read)
  /\ Whole(transcript, IF state = "Exited" THEN read ELSE 0)
  /\ state = "Exited" => pending = <<>> /\ carry = <<>> /\ ~discarded

\* In the destructor what is read is dropped; the transcript stays.
Rest ==
  /\ Whole(transcript, IF state = "Exited" THEN read ELSE 0)
  /\ state = "Exited" => pending = <<>> /\ carry = <<>> /\ (lost \/ transcript = Bytes(read))

Output == IF alive THEN Flow ELSE Rest

OutputInv == TypeOK /\ Threads /\ Blamed /\ ForcedOnlyByItsStop /\ Output

-----------------------------------------------------------------------------
(* The stream and its pieces. *)

LEMMA StreamFacts ==
  /\ Len(Stream) \in Nat /\ MaxPendingOutput \in Nat \ {0} /\ MaxTranscript \in Nat \ {0}
  /\ \A i \in Byte : Stream[i] = "second" <=> i > 1 /\ Stream[i - 1] = "first"
BY StreamAssumption DEF Byte

LEMMA Associative ==
  ASSUME NEW a \in Seq(Byte), NEW b \in Seq(Byte), NEW c \in Seq(Byte)
  PROVE  a \o (b \o c) = (a \o b) \o c
BY ConcatAssociative

\* keepLast gives a rest of the buffer; if bytes went, the rest does not begin with
\* a second byte, or the byte before it is one.
LEMMA KeptBytes ==
  ASSUME NEW s \in Seq(Byte), NEW bound \in Nat \ {0}
  PROVE  LET k == keepLast(s, bound)
         IN  /\ k \in Seq(Byte) /\ Len(k) <= bound /\ Len(k) <= Len(s)
             /\ Len(s) <= bound => k = s
             /\ \A i \in 1 .. Len(k) : k[i] = s[Len(s) - Len(k) + i]
             /\ Len(s) > bound => /\ Len(k) < Len(s)
                                  /\ \/ k # <<>> /\ Stream[k[1]] # "second"
                                     \/ Stream[s[Len(s) - Len(k)]] = "second"
<1> DEFINE k == keepLast(s, bound)
           kept == SubSeq(s, Len(s) - bound + 1, Len(s))
<1>1. CASE Len(s) <= bound
  BY <1>1 DEF keepLast
<1>2. CASE Len(s) > bound
  <2>1. Len(s) \in Nat /\ DOMAIN s = 1 .. Len(s)
    OBVIOUS
  <2>2. /\ kept \in Seq(Byte) /\ Len(kept) = bound
        /\ \A i \in 1 .. bound : kept[i] = s[Len(s) - bound + i]
    BY <1>2, <2>1, SubSeqProperties
  <2>3. k = IF Stream[kept[1]] = "second" THEN Tail(kept) ELSE kept
    BY <1>2, <2>2 DEF keepLast, IsSecond
  <2> HIDE DEF k, kept
  <2>4. kept # <<>>
    BY <2>2
  <2>5. CASE Stream[kept[1]] = "second"
    <3>1. /\ k \in Seq(Byte) /\ Len(k) = bound - 1
          /\ \A i \in 1 .. Len(k) : k[i] = kept[i + 1]
      BY <2>2, <2>3, <2>4, <2>5, HeadTailProperties
    <3>2. \A i \in 1 .. Len(k) : k[i] = s[Len(s) - Len(k) + i]
      BY <2>1, <2>2, <3>1
    <3>3. kept[1] = s[Len(s) - Len(k)]
      BY <2>1, <2>2, <3>1
    <3> QED
      BY <1>2, <2>1, <2>5, <3>1, <3>2, <3>3 DEF k
  <2>6. CASE Stream[kept[1]] # "second"
    BY <1>2, <2>1, <2>2, <2>3, <2>4, <2>6 DEF k
  <2> QED
    BY <2>5, <2>6
<1>3. Len(s) <= bound \/ Len(s) > bound
  OBVIOUS
<1> QED
  BY <1>1, <1>2, <1>3

\* What is left of a piece of the stream is one, and begins with a character.
LEMMA KeptPiece ==
  ASSUME NEW s \in Seq(Byte), NEW bound \in Nat \ {0}, NEW n \in 0 .. Len(Stream), Piece(s, n)
  PROVE  LET k == keepLast(s, bound)
         IN  /\ Piece(k, n)
             /\ Len(s) > bound => IF k = <<>> THEN n > 0 /\ Stream[n] = "second"
                                  ELSE Stream[k[1]] # "second"
<1> DEFINE k == keepLast(s, bound)
<1>1. /\ k \in Seq(Byte) /\ Len(k) <= bound /\ Len(k) <= Len(s)
      /\ \A i \in 1 .. Len(k) : k[i] = s[Len(s) - Len(k) + i]
      /\ Len(s) > bound => /\ Len(k) < Len(s)
                           /\ \/ k # <<>> /\ Stream[k[1]] # "second"
                              \/ Stream[s[Len(s) - Len(k)]] = "second"
  BY KeptBytes
<1> HIDE DEF k
<1>2. Len(s) \in Nat /\ Len(k) \in Nat /\ Len(Stream) \in Nat /\ n \in Nat
  BY <1>1, StreamFacts
<1>3. Piece(k, n)
  <2> SUFFICES ASSUME NEW i \in 1 .. Len(k) PROVE k[i] = n - Len(k) + i
    BY <1>1, <1>2 DEF Piece
  <2>1. Len(s) - Len(k) + i \in 1 .. Len(s)
    BY <1>1, <1>2
  <2> QED
    BY <1>1, <1>2, <2>1 DEF Piece
<1>4. ASSUME Len(s) > bound, Stream[s[Len(s) - Len(k)]] = "second"
      PROVE  IF k = <<>> THEN n > 0 /\ Stream[n] = "second" ELSE Stream[k[1]] # "second"
  <2> DEFINE d == Len(s) - Len(k)
  <2>1. d \in 1 .. Len(s) /\ s[d] = n - Len(k) /\ n - Len(k) \in Byte
    BY <1>1, <1>2, <1>4 DEF Piece, Byte
  <2>2. CASE k = <<>>
    <3>1. Len(k) = 0
      BY <2>2
    <3>2. s[Len(s) - Len(k)] = n /\ n \in Byte
      BY <1>2, <2>1, <3>1
    <3> QED
      BY <1>4, <2>2, <3>2 DEF Byte
  <2>3. CASE k # <<>>
    <3>1. Len(k) >= 1
      BY <1>1, <1>2, <2>3
    <3>2. k[1] = n - Len(k) + 1 /\ k[1] \in Byte
      BY <1>1, <1>2, <1>3, <3>1 DEF Piece
    <3>3. Stream[k[1] - 1] = "second"
      BY <1>2, <1>4, <2>1, <3>2
    <3>4. Stream[k[1] - 1] # "first"
      BY <3>3
    <3> QED
      BY <2>3, <3>2, <3>4, StreamFacts
  <2> QED
    BY <2>2, <2>3
<1>5. Len(s) > bound => IF k = <<>> THEN n > 0 /\ Stream[n] = "second" ELSE Stream[k[1]] # "second"
  BY <1>1, <1>4
<1> QED
  BY <1>3, <1>5 DEF k

\* What is left of whole characters are whole characters.
LEMMA KeptWhole ==
  ASSUME NEW s \in Seq(Byte), NEW bound \in Nat \ {0}, NEW n, Whole(s, n)
  PROVE  Whole(keepLast(s, bound), n)
<1> DEFINE k == keepLast(s, bound)
<1>1. /\ k \in Seq(Byte) /\ Len(k) <= bound /\ Len(k) <= Len(s)
      /\ Len(s) <= bound => k = s
      /\ \A i \in 1 .. Len(k) : k[i] = s[Len(s) - Len(k) + i]
      /\ Len(s) > bound => /\ Len(k) < Len(s)
                           /\ \/ k # <<>> /\ Stream[k[1]] # "second"
                              \/ Stream[s[Len(s) - Len(k)]] = "second"
  BY KeptBytes
<1> HIDE DEF k
<1>2. CASE Len(s) <= bound
  BY <1>1, <1>2 DEF k
<1>3. CASE Len(s) > bound
  <2> DEFINE d == Len(s) - Len(k)
  <2>1. Len(s) \in Nat /\ Len(k) \in Nat /\ d \in 1 .. Len(s) /\ Len(s) = d + Len(k)
    BY <1>1, <1>3
  <2>2. \A i \in 1 .. Len(k) : k[i] = s[d + i] /\ d + i \in 1 .. Len(s)
    BY <1>1, <2>1
  <2>3. (k # <<>> /\ Stream[k[1]] # "second") \/ Stream[s[d]] = "second"
    BY <1>1, <1>3
  <2> HIDE DEF d
  <2> SUFFICES ASSUME NEW i \in 1 .. Len(k)
               PROVE  /\ Stream[k[i]] = "second" => i > 1 /\ k[i - 1] = k[i] - 1
                      /\ Stream[k[i]] = "first" => \/ i < Len(k) /\ k[i + 1] = k[i] + 1
                                                   \/ i = Len(k) /\ k[i] = n
    BY <1>1 DEF Whole, k
  <2>4. k[i] = s[d + i] /\ d + i \in 1 .. Len(s)
    BY <2>2
  <2>5. ASSUME Stream[k[i]] = "second" PROVE i > 1 /\ k[i - 1] = k[i] - 1
    <3>1. s[d + i - 1] = s[d + i] - 1
      <4> DEFINE j == d + i
      <4>1. j \in DOMAIN s /\ Stream[s[j]] = "second"
        BY <2>1, <2>4, <2>5
      <4> HIDE DEF j
      <4>2. s[j - 1] = s[j] - 1
        BY <4>1 DEF Whole
      <4>3. j - 1 = d + i - 1
        BY <2>1 DEF j
      <4> QED
        BY <4>2, <4>3 DEF j
    <3>2. CASE i > 1
      <4>1. i - 1 \in 1 .. Len(k) /\ d + (i - 1) = d + i - 1
        BY <2>1, <3>2
      <4> QED
        BY <2>2, <2>4, <3>1, <3>2, <4>1
    <3>3. CASE i = 1
      <4>1. s[d] = s[d + 1] - 1 /\ s[d] \in Byte /\ s[d + 1] \in Byte
        BY <2>1, <2>4, <3>1, <3>3
      <4>2. Stream[s[d]] = "second" /\ Stream[s[d + 1]] = "second"
        BY <2>3, <2>4, <2>5, <3>3
      <4> QED
        BY <4>1, <4>2, StreamFacts DEF Byte
    <3> QED
      BY <3>2, <3>3
  <2>6. ASSUME Stream[k[i]] = "first"
        PROVE  (i < Len(k) /\ k[i + 1] = k[i] + 1) \/ (i = Len(k) /\ k[i] = n)
    <3>1. \/ d + i < Len(s) /\ s[d + i + 1] = s[d + i] + 1
          \/ d + i = Len(s) /\ s[d + i] = n
      BY <2>4, <2>6 DEF Whole
    <3>2. CASE d + i = Len(s) /\ s[d + i] = n
      BY <2>1, <2>4, <3>2
    <3>3. CASE d + i < Len(s) /\ s[d + i + 1] = s[d + i] + 1
      <4>1. i + 1 \in 1 .. Len(k) /\ d + (i + 1) = d + i + 1
        BY <2>1, <3>3
      <4> QED
        BY <2>2, <2>4, <3>3, <4>1
    <3> QED
      BY <3>1, <3>2, <3>3
  <2> QED
    BY <2>5, <2>6
<1> QED
  BY <1>1, <1>2, <1>3
LEMMA JoinedWhole ==
  ASSUME NEW s \in Seq(Byte), NEW t \in Seq(Byte), NEW n, Whole(s, 0), Whole(t, n)
  PROVE  Whole(s \o t, n)
<1> DEFINE j == s \o t
           m == Len(s)
<1>1. /\ j \in Seq(Byte) /\ Len(j) = m + Len(t) /\ m \in Nat /\ Len(t) \in Nat
      /\ \A i \in 1 .. m : j[i] = s[i]
      /\ \A i \in 1 .. Len(t) : j[m + i] = t[i]
  BY ConcatProperties
<1>2. /\ \A i \in 1 .. m : s[i] # 0
      /\ \A i \in 1 .. Len(j) : i \in 1 .. m \/ (i - m \in 1 .. Len(t) /\ j[i] = t[i - m])
  <2>1. \A i \in 1 .. m : s[i] # 0
    BY <1>1 DEF Byte
  <2>2. ASSUME NEW i \in 1 .. Len(j), i \notin 1 .. m
        PROVE  i - m \in 1 .. Len(t) /\ j[i] = t[i - m]
    <3>1. i - m \in 1 .. Len(t) /\ m + (i - m) = i
      BY <1>1, <2>2
    <3> QED
      BY <1>1, <3>1
  <2> QED
    BY <2>1, <2>2
<1> SUFFICES Whole(j, n)
  OBVIOUS
<1>0. DOMAIN j = 1 .. Len(j)
  BY <1>1
<1> HIDE DEF j, m
<1> SUFFICES ASSUME NEW i \in 1 .. Len(j)
             PROVE  /\ Stream[j[i]] = "second" => i > 1 /\ j[i - 1] = j[i] - 1
                    /\ Stream[j[i]] = "first" => \/ i < Len(j) /\ j[i + 1] = j[i] + 1
                                                 \/ i = Len(j) /\ j[i] = n
  BY <1>0 DEF Whole
<1>3. CASE i \in 1 .. m
  <2>1. i \in DOMAIN s /\ j[i] = s[i] /\ s[i] # 0
    BY <1>1, <1>2, <1>3 DEF m
  <2>2. ASSUME Stream[j[i]] = "second" PROVE i > 1 /\ j[i - 1] = j[i] - 1
    <3>1. i > 1 /\ s[i - 1] = s[i] - 1
      BY <2>1, <2>2 DEF Whole
    <3>2. i - 1 \in 1 .. m
      BY <1>1, <1>3, <3>1
    <3> QED
      BY <1>1, <2>1, <3>1, <3>2
  <2>3. ASSUME Stream[j[i]] = "first" PROVE i < Len(j) /\ j[i + 1] = j[i] + 1
    <3>1. i < Len(s) /\ s[i + 1] = s[i] + 1
      BY <2>1, <2>3 DEF Whole
    <3>2. i + 1 \in 1 .. m /\ i < Len(j)
      BY <1>1, <1>3, <3>1 DEF m
    <3> QED
      BY <1>1, <2>1, <3>1, <3>2
  <2> QED
    BY <2>2, <2>3
<1>4. CASE i \notin 1 .. m
  <2> DEFINE k == i - m
  <2>1. k \in 1 .. Len(t) /\ j[i] = t[k] /\ i = m + k
    BY <1>1, <1>2, <1>4
  <2>0. k \in DOMAIN t
    BY <2>1
  <2> HIDE DEF k
  <2>2. ASSUME Stream[j[i]] = "second" PROVE i > 1 /\ j[i - 1] = j[i] - 1
    <3>1. k > 1 /\ t[k - 1] = t[k] - 1
      BY <2>0, <2>1, <2>2 DEF Whole
    <3>2. k - 1 \in 1 .. Len(t) /\ m + (k - 1) = i - 1 /\ i > 1
      BY <1>1, <2>1, <3>1
    <3>3. j[m + (k - 1)] = t[k - 1]
      BY <1>1, <3>2
    <3> QED
      BY <2>1, <3>1, <3>2, <3>3
  <2>3. ASSUME Stream[j[i]] = "first"
        PROVE  (i < Len(j) /\ j[i + 1] = j[i] + 1) \/ (i = Len(j) /\ j[i] = n)
    <3>1. (k < Len(t) /\ t[k + 1] = t[k] + 1) \/ (k = Len(t) /\ t[k] = n)
      BY <2>0, <2>1, <2>3 DEF Whole
    <3>2. CASE k = Len(t) /\ t[k] = n
      BY <1>1, <2>1, <3>2
    <3>3. CASE k < Len(t) /\ t[k + 1] = t[k] + 1
      <4>1. k + 1 \in 1 .. Len(t) /\ m + (k + 1) = i + 1 /\ i < Len(j)
        BY <1>1, <2>1, <3>3
      <4>2. j[m + (k + 1)] = t[k + 1]
        BY <1>1, <4>1
      <4> QED
        BY <2>1, <3>3, <4>1, <4>2
    <3> QED
      BY <3>1, <3>2, <3>3
  <2> QED
    BY <2>2, <2>3
<1> QED
  BY <1>3, <1>4

\* A piece that begins with a character is whole, up to where it ends.
LEMMA PieceWhole ==
  ASSUME NEW s \in Seq(Byte), NEW n \in 0 .. Len(Stream), Piece(s, n),
         s # <<>> => Stream[s[1]] # "second"
  PROVE  Whole(s, n) /\ ((s = <<>> \/ Stream[n] # "first") => Whole(s, 0))
<1>1. Len(s) \in Nat /\ Len(Stream) \in Nat /\ n \in Nat /\ DOMAIN s = 1 .. Len(s)
  BY StreamFacts
<1>2. \A i \in 1 .. Len(s) : s[i] = n - Len(s) + i /\ s[i] \in Byte
  BY <1>1 DEF Piece
<1>3. ASSUME NEW i \in 1 .. Len(s), Stream[s[i]] = "second"
      PROVE  i > 1 /\ s[i - 1] = s[i] - 1
  <2>1. i # 1
    <3>1. s # <<>>
      BY <1>1
    <3> QED
      BY <1>3, <3>1
  <2>2. i - 1 \in 1 .. Len(s) /\ i > 1
    BY <1>1, <2>1
  <2> QED
    BY <1>1, <1>2, <2>2
<1>4. ASSUME NEW i \in 1 .. Len(s)
      PROVE  (i < Len(s) /\ s[i + 1] = s[i] + 1) \/ (i = Len(s) /\ s[i] = n)
  <2>1. CASE ~(i < Len(s))
    <3> DEFINE l == Len(s)
    <3>1. i \in 1 .. l /\ l \in Nat /\ ~(i < l) /\ n \in Nat
      BY <1>1, <2>1
    <3>2. s[i] = n - l + i
      BY <1>2
    <3> HIDE DEF l
    <3>3. i = l /\ n - l + i = n
      BY <3>1
    <3> QED
      BY <3>2, <3>3 DEF l
  <2>2. CASE i < Len(s)
    <3>1. i + 1 \in 1 .. Len(s)
      BY <1>1, <2>2
    <3>2. s[i + 1] = n - Len(s) + (i + 1) /\ s[i] = n - Len(s) + i
      BY <1>2, <3>1
    <3>3. s[i + 1] = s[i] + 1
      BY <1>1, <3>2
    <3> QED
      BY <2>2, <3>3
  <2> QED
    BY <2>1, <2>2
<1>5. Whole(s, n)
  BY <1>1, <1>3, <1>4 DEF Whole
<1>6. ASSUME Stream[n] # "first", NEW i \in 1 .. Len(s), Stream[s[i]] = "first"
      PROVE  i < Len(s) /\ s[i + 1] = s[i] + 1
  BY <1>4, <1>6
<1>7. CASE s = <<>>
  BY <1>7 DEF Whole
<1>8. CASE Stream[n] # "first"
  BY <1>1, <1>3, <1>6, <1>8 DEF Whole
<1> QED
  BY <1>5, <1>7, <1>8

\* What a drain shows ends with a character, and it keeps what begins one.
LEMMA Shown ==
  ASSUME NEW s \in Seq(Byte), NEW n \in 0 .. Len(Stream), Piece(s, n), s # <<>>,
         Stream[s[1]] # "second"
  PROVE  LET shown == completePrefix(s)
             rest  == SubSeq(s, Len(shown) + 1, Len(s))
         IN  /\ shown \in Seq(Byte) /\ Whole(shown, 0)
             /\ rest = opened(n) /\ rest \in Seq(Byte) /\ shown \o rest = s
<1> DEFINE shown == completePrefix(s)
           rest  == SubSeq(s, Len(shown) + 1, Len(s))
<1>1. /\ Len(s) \in Nat /\ Len(s) >= 1 /\ s[Len(s)] = n /\ n \in Byte /\ Len(s) <= n
      /\ \A i \in 1 .. Len(s) : s[i] = n - Len(s) + i
  <2>1. Len(s) \in Nat /\ Len(s) >= 1 /\ n \in Nat
    BY StreamFacts
  <2> QED
    BY <2>1 DEF Piece, Byte
<1>2. CASE Stream[n] # "first"
  <2>1. shown = s
    BY <1>1, <1>2 DEF completePrefix, Last
  <2>2. rest = <<>>
    BY <1>1, <2>1, SubSeqEmpty
  <2>3. opened(n) = <<>>
    BY <1>2 DEF opened
  <2>4. Whole(s, 0)
    BY <1>2, PieceWhole
  <2> HIDE DEF rest, shown
  <2>5. s \o <<>> = s /\ <<>> \in Seq(Byte)
    OBVIOUS
  <2>6. shown \in Seq(Byte) /\ Whole(shown, 0) /\ rest = opened(n) /\ rest \in Seq(Byte)
        /\ shown \o rest = s
    BY <2>1, <2>2, <2>3, <2>4, <2>5
  <2> QED
    BY <2>6 DEF rest, shown
<1>3. CASE Stream[n] = "first"
  <2>1. shown = SubSeq(s, 1, Len(s) - 1)
    BY <1>1, <1>3 DEF completePrefix, Last, Front
  <2>2. /\ shown \in Seq(Byte) /\ Len(shown) = Len(s) - 1
        /\ \A i \in 1 .. Len(s) - 1 : shown[i] = s[i]
    <3>1. 1 \in Int /\ Len(s) - 1 \in Int /\ \A i \in 1 .. Len(s) - 1 : s[i] \in Byte
      BY <1>1
    <3>2. /\ shown \in Seq(Byte)
          /\ Len(shown) = IF 1 <= Len(s) - 1 THEN (Len(s) - 1) - 1 + 1 ELSE 0
          /\ \A i \in 1 .. (Len(s) - 1) - 1 + 1 : shown[i] = s[1 + i - 1]
      BY <2>1, <3>1, SubSeqProperties
    <3>3. Len(shown) = Len(s) - 1 /\ (Len(s) - 1) - 1 + 1 = Len(s) - 1
      <4> DEFINE l == Len(s)
      <4>1. l \in Nat /\ l >= 1 /\ Len(shown) = IF 1 <= l - 1 THEN (l - 1) - 1 + 1 ELSE 0
        BY <1>1, <3>2
      <4> HIDE DEF l, shown
      <4>2. Len(shown) = l - 1 /\ (l - 1) - 1 + 1 = l - 1
        BY <4>1
      <4> QED
        BY <4>2 DEF l
    <3>4. ASSUME NEW i \in 1 .. Len(s) - 1 PROVE shown[i] = s[i]
      <4>1. 1 + i - 1 = i
        BY <1>1
      <4> QED
        BY <3>2, <3>3, <4>1
    <3> QED
      BY <3>2, <3>3, <3>4
  <2> HIDE DEF shown
  <2>3. rest \in Seq(Byte) /\ Len(rest) = 1 /\ rest[1] = n
    BY <1>1, <2>2, SubSeqProperties
  <2>4. n > 0 /\ opened(n) = <<n>>
    BY <1>1, <1>3 DEF opened, Byte
  <2> HIDE DEF rest
  <2>5. rest = <<n>>
    BY <2>3
  <2>6. shown \o rest = s
    <3>1. /\ shown \o rest \in Seq(Byte) /\ Len(shown \o rest) = Len(s)
          /\ \A i \in 1 .. Len(s) - 1 : (shown \o rest)[i] = shown[i]
          /\ (shown \o rest)[Len(s)] = rest[1]
      <4>1. /\ shown \o rest \in Seq(Byte) /\ Len(shown \o rest) = Len(shown) + Len(rest)
            /\ \A i \in 1 .. Len(shown) + Len(rest) :
                 (shown \o rest)[i] = IF i <= Len(shown) THEN shown[i] ELSE rest[i - Len(shown)]
        BY <2>2, <2>3, ConcatProperties
      <4>2. Len(shown) + Len(rest) = Len(s) /\ Len(s) - Len(shown) = 1 /\ Len(s) \in 1 .. Len(s)
        BY <1>1, <2>2, <2>3
      <4> QED
        BY <1>1, <2>2, <4>1, <4>2
    <3>2. \A i \in 1 .. Len(s) : (shown \o rest)[i] = s[i]
      BY <1>1, <2>2, <2>3, <3>1
    <3> QED
      BY <3>1, <3>2, SeqEqual
  <2>7. Whole(shown, 0)
    <3>1. n - 1 \in 0 .. Len(Stream) /\ n \in Nat
      BY <1>1 DEF Byte
    <3>2. Piece(shown, n - 1)
      BY <1>1, <2>2, <3>1 DEF Piece
    <3>3. shown # <<>> => Stream[shown[1]] # "second"
      BY <1>1, <2>2
    <3>4. shown = <<>> \/ Stream[n - 1] # "first"
      <4>1. CASE n > 1
        <5>1. Stream[n] # "second"
          BY <1>3
        <5> QED
          BY <1>1, <4>1, <5>1, StreamFacts
      <4>2. CASE n <= 1
        BY <1>1, <2>2, <3>1, <4>2
      <4> QED
        BY <3>1, <4>1, <4>2
    <3> QED
      BY <2>2, <3>1, <3>2, <3>3, <3>4, PieceWhole
  <2> QED
    BY <2>2, <2>3, <2>4, <2>5, <2>6, <2>7 DEF rest, shown
<1> QED
  BY <1>2, <1>3
\* The carry and what is pending are one piece, which begins with a character.
LEMMA Carried ==
  ASSUME NEW s \in Seq(Byte), NEW n \in 0 .. Len(Stream), Piece(s, n), s # <<>>
  PROVE  LET j == opened(n - Len(s)) \o s
         IN  j \in Seq(Byte) /\ Piece(j, n) /\ j # <<>> /\ Stream[j[1]] # "second"
<1> DEFINE m == n - Len(s)
           c == opened(m)
           j == c \o s
<1>1. /\ Len(s) \in Nat /\ Len(s) >= 1 /\ Len(Stream) \in Nat /\ m \in 0 .. Len(Stream) /\ n = m + Len(s)
      /\ \A i \in 1 .. Len(s) : s[i] = m + i
  <2>1. Len(s) \in Nat /\ Len(s) >= 1 /\ Len(Stream) \in Nat /\ n \in Nat
    BY StreamFacts
  <2> QED
    BY <2>1 DEF Piece
<1>2. s[1] = m + 1 /\ m + 1 \in Byte
  BY <1>1 DEF Byte
<1> HIDE DEF m
<1>3. CASE m > 0 /\ Stream[m] = "first"
  <2>1. c = <<m>> /\ c \in Seq(Byte) /\ Len(c) = 1 /\ c[1] = m
    BY <1>1, <1>3 DEF opened, Byte
  <2> HIDE DEF c
  <2>2. /\ j \in Seq(Byte) /\ Len(j) = 1 + Len(s)
        /\ \A i \in 1 .. 1 + Len(s) : j[i] = IF i <= 1 THEN c[i] ELSE s[i - 1]
    BY <2>1, ConcatProperties
  <2> HIDE DEF j
  <2>3. \A i \in 1 .. Len(j) : j[i] = n - Len(j) + i
    <3> SUFFICES ASSUME NEW i \in 1 .. 1 + Len(s) PROVE j[i] = m - 1 + i
      BY <1>1, <2>2
    <3>1. CASE i <= 1
      <4>1. i = 1
        BY <1>1, <3>1
      <4> QED
        BY <1>1, <2>1, <2>2, <4>1
    <3>2. CASE ~(i <= 1)
      <4>1. i - 1 \in 1 .. Len(s) /\ j[i] = s[i - 1]
        BY <1>1, <2>2, <3>2
      <4> QED
        BY <1>1, <4>1
    <3> QED
      BY <3>1, <3>2
  <2>4. Len(j) <= n /\ j # <<>> /\ j[1] = m
    BY <1>1, <1>3, <2>1, <2>2
  <2> QED
    BY <1>3, <2>2, <2>3, <2>4 DEF Piece, j, c, m
<1>4. CASE ~(m > 0 /\ Stream[m] = "first")
  <2>1. c = <<>>
    BY <1>4 DEF opened
  <2>2. j = s
    BY <2>1
  <2>3. Stream[s[1]] # "second"
    BY <1>1, <1>2, <1>4, StreamFacts
  <2> HIDE DEF j, c
  <2>4. j \in Seq(Byte) /\ Piece(j, n) /\ j # <<>> /\ Stream[j[1]] # "second"
    BY <2>2, <2>3
  <2> QED
    BY <2>4 DEF j, c, m
<1> QED
  BY <1>3, <1>4

LEMMA OpenedIsPiece ==
  ASSUME NEW n \in 0 .. Len(Stream)
  PROVE  /\ opened(n) \in Seq(Byte) /\ Piece(opened(n), n) /\ Whole(opened(n), n)
         /\ Piece(<<>>, n)
<1>1. n \in Nat /\ Len(Stream) \in Nat
  BY StreamFacts
<1>2. CASE n > 0 /\ Stream[n] = "first"
  <2>1. opened(n) = <<n>> /\ n \in Byte
    BY <1>1, <1>2 DEF opened, Byte
  <2>2. <<n>> \in Seq(Byte) /\ Len(<<n>>) = 1 /\ <<n>>[1] = n /\ Piece(<<n>>, n)
    BY <1>1, <1>2, <2>1 DEF Piece
  <2>3. Stream[<<n>>[1]] # "second"
    BY <1>2, <2>2
  <2>4. Whole(<<n>>, n)
    BY <2>2, <2>3, PieceWhole
  <2> QED
    BY <1>1, <2>1, <2>2, <2>4 DEF Piece
<1>3. CASE ~(n > 0 /\ Stream[n] = "first")
  BY <1>1, <1>3 DEF opened, Piece, Whole
<1> QED
  BY <1>2, <1>3

\* What a drain does to the transcript and the carry.
LEMMA DrainShows ==
  ASSUME TypeOK, Flow, state # "Exited", NEW lastly \in BOOLEAN, drained(lastly)
  PROVE  /\ pending' = <<>> /\ discarded' = FALSE /\ read' = read /\ lost' \in BOOLEAN
         /\ transcript' \in Seq(Byte) /\ Len(transcript') <= MaxTranscript
         /\ Whole(transcript', IF lastly THEN read ELSE 0)
         /\ carry' = IF lastly THEN <<>> ELSE opened(read)
         /\ ~lost' => transcript' \o carry' = Bytes(read)
<1> DEFINE bytes == IF pending = <<>> THEN <<>> ELSE carried \o pending
           kept  == IF pending = <<>> THEN carried ELSE <<>>
           shown == completePrefix(bytes)
           rest  == kept \o SubSeq(bytes, Len(shown) + 1, Len(bytes))
           added == IF lastly THEN shown \o rest ELSE shown
           all   == transcript \o added
           end   == IF lastly THEN read ELSE 0
<1>1. /\ pending' = <<>> /\ discarded' = FALSE /\ read' = read
      /\ carry' = (IF lastly THEN <<>> ELSE rest)
      /\ transcript' = keepLast(all, MaxTranscript)
      /\ lost' = (lost \/ discarded \/ Len(all) > MaxTranscript)
  BY DEF drained
<1>2. /\ read \in 0 .. Len(Stream) /\ pending \in Seq(Byte) /\ transcript \in Seq(Byte)
      /\ discarded \in BOOLEAN /\ lost \in BOOLEAN /\ Piece(pending, read) /\ Whole(transcript, 0)
      /\ ~discarded => carry = opened(read - Len(pending))
      /\ discarded => IF pending = <<>> THEN read > 0 /\ Stream[read] = "second"
                      ELSE Stream[pending[1]] # "second"
      /\ ~discarded /\ ~lost => transcript \o (carry \o pending) = Bytes(read)
  BY DEF TypeOK, Flow, Byte
<1>3. /\ shown \in Seq(Byte) /\ Whole(shown, 0) /\ rest = opened(read)
      /\ Whole(shown \o rest, read) /\ (~discarded => shown \o rest = carry \o pending)
  <2>1. CASE pending = <<>>
    <3>1. bytes = <<>> /\ kept = carried /\ Len(pending) = 0
      BY <2>1
    <3>2. shown = <<>>
      BY <3>1 DEF completePrefix
    <3>3. carried = opened(read)
      <4>1. CASE discarded
        BY <1>2, <2>1, <4>1 DEF carried, opened
      <4>2. CASE ~discarded
        <5>1. read - Len(pending) = read
          BY <1>2, <3>1, StreamFacts
        <5> QED
          BY <1>2, <4>2, <5>1 DEF carried
      <4> QED
        BY <4>1, <4>2
    <3>4. opened(read) \in Seq(Byte) /\ Whole(opened(read), read)
      BY <1>2, OpenedIsPiece
    <3>5. SubSeq(<<>>, Len(<<>>) + 1, Len(<<>>)) = <<>>
      BY SubSeqEmpty
    <3> HIDE DEF bytes, kept, shown
    <3>6. rest = opened(read)
      <4>1. rest = opened(read) \o <<>>
        BY <3>1, <3>2, <3>3, <3>5
      <4> QED
        BY <3>4, <4>1, ConcatEmptySeq
    <3> HIDE DEF rest
    <3>7. shown \o rest = opened(read)
      BY <3>2, <3>4, <3>6, ConcatEmptySeq
    <3>8. ~discarded => carry \o pending = opened(read)
      BY <2>1, <3>3, <3>4, ConcatEmptySeq DEF carried
    <3>9. shown \in Seq(Byte) /\ Whole(shown, 0)
      BY <3>2 DEF Whole
    <3> QED
      BY <3>4, <3>6, <3>7, <3>8, <3>9
  <2>2. CASE pending # <<>>
    <3>1. bytes = carried \o pending /\ kept = <<>>
      BY <2>2
    <3>2. bytes \in Seq(Byte) /\ Piece(bytes, read) /\ bytes # <<>> /\ Stream[bytes[1]] # "second"
      <4>1. CASE discarded
        <5>1. carried \o pending = pending
          BY <1>2, <4>1, ConcatEmptySeq DEF carried
        <5> HIDE DEF bytes
        <5> QED
          BY <1>2, <2>2, <3>1, <4>1, <5>1
      <4>2. CASE ~discarded
        <5>1. carried = opened(read - Len(pending))
          BY <1>2, <4>2 DEF carried
        <5> HIDE DEF bytes
        <5> QED
          BY <1>2, <2>2, <3>1, <5>1, Carried
      <4> QED
        BY <4>1, <4>2
    <3>3. ~discarded => bytes = carry \o pending
      BY <3>1 DEF carried
    <3> HIDE DEF bytes, kept
    <3> DEFINE left == SubSeq(bytes, Len(shown) + 1, Len(bytes))
    <3>4. /\ shown \in Seq(Byte) /\ Whole(shown, 0)
          /\ left = opened(read) /\ left \in Seq(Byte) /\ shown \o left = bytes
      BY <1>2, <3>2, Shown
    <3>5. Whole(bytes, read)
      BY <1>2, <3>2, PieceWhole
    <3>6. rest = left
      BY <3>1, <3>4, ConcatEmptySeq
    <3> HIDE DEF rest, left, shown
    <3> QED
      BY <3>3, <3>4, <3>5, <3>6
  <2> QED
    BY <2>1, <2>2
<1> HIDE DEF shown, rest, bytes, kept
<1>4. rest \in Seq(Byte) /\ shown \o rest \in Seq(Byte)
  BY <1>2, <1>3, OpenedIsPiece, ConcatProperties
<1>5. added \in Seq(Byte) /\ Whole(added, end)
  BY <1>3, <1>4
<1>6. all \in Seq(Byte)
  BY <1>2, <1>5, ConcatProperties
<1>7. Whole(all, end)
  BY <1>2, <1>5, JoinedWhole
<1>8. /\ transcript' \in Seq(Byte) /\ Len(transcript') <= MaxTranscript
      /\ (Len(all) <= MaxTranscript => transcript' = all)
  <2> HIDE DEF all
  <2> QED
    BY <1>1, <1>6, KeptBytes, StreamFacts
<1>9. Whole(transcript', end)
  <2> HIDE DEF all, end
  <2> QED
    BY <1>1, <1>6, <1>7, KeptWhole, StreamFacts
<1>10. ASSUME ~lost' PROVE transcript' \o carry' = Bytes(read)
  <2>1. ~lost /\ ~discarded /\ transcript' = all
    <3> HIDE DEF all
    <3>1. lost' = (lost \/ discarded \/ Len(all) > MaxTranscript)
      BY <1>1
    <3>2. ~lost /\ ~discarded /\ ~(Len(all) > MaxTranscript)
      BY <1>10, <3>1, Zenon
    <3>3. Len(all) \in Nat /\ MaxTranscript \in Nat
      BY <1>6, StreamFacts
    <3>4. Len(all) <= MaxTranscript
      BY <3>2, <3>3
    <3> QED
      BY <1>8, <3>2, <3>4
  <2>2. transcript \o (shown \o rest) = Bytes(read)
    BY <1>2, <1>3, <2>1
  <2>3. CASE lastly
    <3>1. transcript' = transcript \o (shown \o rest) /\ carry' = <<>>
      BY <1>1, <2>1, <2>3
    <3>2. transcript' \o <<>> = transcript'
      BY <1>8, ConcatEmptySeq
    <3> QED
      BY <2>2, <3>1, <3>2
  <2>4. CASE ~lastly
    <3>1. transcript' = transcript \o shown /\ carry' = rest
      BY <1>1, <2>1, <2>4
    <3>2. (transcript \o shown) \o rest = transcript \o (shown \o rest)
      <4>1. transcript \in Seq(Byte) /\ shown \in Seq(Byte) /\ rest \in Seq(Byte)
        BY <1>2, <1>3, <1>4
      <4> QED
        BY <4>1, ConcatAssociative
    <3> QED
      BY <2>2, <3>1, <3>2
  <2> QED
    BY <2>3, <2>4
<1>11. lost' \in BOOLEAN /\ carry' = IF lastly THEN <<>> ELSE opened(read)
  BY <1>1, <1>3
<1> QED
  BY <1>1, <1>8, <1>9, <1>10, <1>11

\* A drain after the exit shows nothing more.
LEMMA DrainAfterExit ==
  ASSUME TypeOK, Flow, state = "Exited", drained(FALSE)
  PROVE  UNCHANGED <<read, pending, discarded, carry, transcript, lost>>
<1>1. pending = <<>> /\ carry = <<>> /\ discarded = FALSE /\ transcript \in Seq(Byte)
      /\ Len(transcript) <= MaxTranscript /\ lost \in BOOLEAN
  BY DEF Flow, TypeOK, Byte
<1>2. carried = <<>>
  BY <1>1 DEF carried
<1>3. completePrefix(<<>>) = <<>> /\ SubSeq(<<>>, Len(<<>>) + 1, Len(<<>>)) = <<>>
      /\ <<>> \o <<>> = <<>> /\ transcript \o <<>> = transcript
  BY <1>1, SubSeqEmpty, ConcatEmptySeq DEF completePrefix
<1>4. keepLast(transcript, MaxTranscript) = transcript /\ ~(Len(transcript) > MaxTranscript)
  BY <1>1, StreamFacts DEF keepLast
<1> QED
  BY <1>1, <1>2, <1>3, <1>4 DEF drained
-----------------------------------------------------------------------------
(* The steps of a terminal. *)

\* The call that is handled, and those that stay queued.
LEMMA NextCall ==
  ASSUME Calls, mailbox # <<>>
  PROVE  /\ Head(mailbox) \in {"drain"} \cup exits
         /\ Head(mailbox) \in exits =>
              /\ main = "idle" /\ state \in {"Running", "Stopping"} /\ waiter = "ended"
              /\ \A i \in DOMAIN Tail(mailbox) : Tail(mailbox)[i] \notin exits
         /\ Tail(mailbox) \in Seq({"drain"} \cup exits)
         /\ \A i \in DOMAIN Tail(mailbox) :
              i + 1 \in DOMAIN mailbox /\ Tail(mailbox)[i] = mailbox[i + 1]
         /\ \A i, j \in DOMAIN Tail(mailbox) :
              Tail(mailbox)[i] \in exits /\ Tail(mailbox)[j] \in exits => i = j
<1> DEFINE S == {"drain"} \cup exits
           tail == Tail(mailbox)
<1> HIDE DEF S
<1>1. mailbox \in Seq(S) /\ Len(mailbox) \in Nat /\ Len(mailbox) >= 1
  BY DEF Calls, S
<1>2. /\ Head(mailbox) = mailbox[1] /\ tail \in Seq(S) /\ Len(tail) = Len(mailbox) - 1
      /\ \A i \in 1 .. Len(tail) : tail[i] = mailbox[i + 1]
  BY <1>1, HeadTailProperties
<1>3. DOMAIN tail = 1 .. Len(tail) /\ DOMAIN mailbox = 1 .. Len(mailbox)
  BY <1>1, <1>2
<1> HIDE DEF tail
<1>4. \A i \in DOMAIN tail : i + 1 \in DOMAIN mailbox /\ i + 1 # 1 /\ tail[i] = mailbox[i + 1]
  BY <1>1, <1>2, <1>3
<1>5. 1 \in DOMAIN mailbox /\ mailbox[1] \in S
  BY <1>1, <1>3
<1>6. ASSUME mailbox[1] \in exits
      PROVE  /\ main = "idle" /\ state \in {"Running", "Stopping"} /\ waiter = "ended"
             /\ \A i \in DOMAIN tail : tail[i] \notin exits
  BY <1>4, <1>5, <1>6 DEF Calls
<1>7. ASSUME NEW i \in DOMAIN tail, NEW j \in DOMAIN tail, tail[i] \in exits, tail[j] \in exits
      PROVE  i = j
  <2>1. i + 1 = j + 1
    BY <1>4, <1>7 DEF Calls
  <2>2. i \in Nat /\ j \in Nat
    BY <1>2, <1>3
  <2> QED
    BY <2>1, <2>2
<1> QED
  BY <1>2, <1>4, <1>5, <1>6, <1>7 DEF S, tail

\* A call is queued: a drain, or the exit of a session that runs and has none yet.
LEMMA CallQueued ==
  ASSUME Calls, NEW call \in {"drain"} \cup exits,
         call \in exits => \A i \in DOMAIN mailbox : mailbox[i] \notin exits,
         mailbox' = Append(mailbox, call),
         main' = main, state' = state, waiter = "ended" => waiter' = "ended",
         call \in exits => main = "idle" /\ state \in {"Running", "Stopping"} /\ waiter' = "ended"
  PROVE  /\ Calls'
         /\ \A i \in DOMAIN mailbox' : mailbox'[i] = call \/ (i \in DOMAIN mailbox /\ mailbox'[i] = mailbox[i])
<1> DEFINE S == {"drain"} \cup exits
           n == Len(mailbox) + 1
<1>1. mailbox \in Seq(S) /\ Len(mailbox) \in Nat
  BY DEF Calls
<1>2. call \in S
  OBVIOUS
<1> HIDE DEF S
<1>3. /\ mailbox' \in Seq(S) /\ Len(mailbox') = n
      /\ \A i \in 1 .. Len(mailbox) : mailbox'[i] = mailbox[i]
      /\ mailbox'[n] = call
  BY <1>1, <1>2, AppendProperties
<1>4. DOMAIN mailbox' = 1 .. n /\ DOMAIN mailbox = 1 .. Len(mailbox)
  BY <1>1, <1>3
<1>5. \A i \in DOMAIN mailbox' :
        (i = n /\ mailbox'[i] = call) \/ (i \in DOMAIN mailbox /\ mailbox'[i] = mailbox[i])
  BY <1>1, <1>3, <1>4
<1> HIDE DEF n
<1>6. ASSUME NEW i \in DOMAIN mailbox', NEW j \in DOMAIN mailbox',
             mailbox'[i] \in exits, mailbox'[j] \in exits
      PROVE  i = j
  BY <1>5, <1>6 DEF Calls
<1>7. ASSUME NEW i \in DOMAIN mailbox', mailbox'[i] \in exits
      PROVE  main' = "idle" /\ state' \in {"Running", "Stopping"} /\ waiter' = "ended"
  <2>1. PICK k \in DOMAIN mailbox' : k = i
    OBVIOUS
  <2> QED
    BY <1>5, <1>7 DEF Calls
<1>8. Calls'
  BY <1>3, <1>6, <1>7 DEF Calls, S
<1> QED
  BY <1>5, <1>8

LEMMA ThreadsStep ==
  ASSUME TypeOK, Threads, Next
  PROVE  Owner' /\ Waiting' /\ Ended'
<1> USE DEF Threads
<1>0. /\ main \in {"idle", "starting", "spawning", "resuming", "abandoning", "destroying", "gone"}
      /\ state \in {"Idle", "Starting", "Running", "Stopping", "Exited", "Failed"}
      /\ session \in Nat /\ written \in Nat /\ read \in Nat
      /\ reader \in {"none", "reading", "ended", "failed"} /\ waiter \in {"none", "process", "reader", "ended"}
      /\ MaxSessions \in Nat
  BY StreamAssumption DEF TypeOK
<1>1. CASE Start
  BY <1>0, <1>1 DEF Start, native, output, inputs, flags, text,
     Owner, Waiting, Ended, running
<1>2. CASE Prepare
  BY <1>0, <1>2 DEF Prepare, reset, finishedWorkers, ended, native, output, inputs, flags, text,
     Owner, Waiting, Ended, running
<1>3. CASE Spawn
  BY <1>0, <1>3 DEF Spawn, native, output, inputs, flags, text,
     Owner, Waiting, Ended, running
<1>4. CASE Resume
  BY <1>0, <1>4 DEF Resume, native, output, inputs, flags, text,
     Owner, Waiting, Ended, running
<1>5. CASE Abandon
  BY <1>0, <1>5 DEF Abandon, finishedWorkers, ended, native, output, inputs, flags, text,
     Owner, Waiting, Ended, running
<1>6. CASE WriteInput
  BY <1>0, <1>6 DEF WriteInput, native, output, inputs, flags, text,
     Owner, Waiting, Ended, running
<1>7. CASE StopGracefully
  BY <1>0, <1>7 DEF StopGracefully, native, output, inputs, flags, text,
     Owner, Waiting, Ended, running
<1>8. CASE ForceStop
  BY <1>0, <1>8 DEF ForceStop, forceStop, terminate, native, output, inputs, flags, text,
     Owner, Waiting, Ended, running
<1>9. CASE StopTimer
  BY <1>0, <1>9 DEF StopTimer, forceStop, terminate, timerApplies, native, output, inputs, flags, text,
     Owner, Waiting, Ended, running
<1>10. CASE ClearTranscript
  BY <1>0, <1>10 DEF ClearTranscript, native, output, inputs, flags, text,
     Owner, Waiting, Ended, running
<1>11. CASE HandleCall
  <2>1. Head(mailbox) # "drain" => state \in {"Running", "Stopping"} /\ waiter = "ended"
    BY <1>11, NextCall DEF HandleCall, exits
  <2> QED
    BY <1>0, <1>11, <2>1 DEF HandleCall, drained, native, Owner, Waiting, Ended, running
<1>12. CASE Destroy
  BY <1>0, <1>12 DEF Destroy, terminate, native, output, inputs, flags, text,
     Owner, Waiting, Ended, running
<1>13. CASE Destroyed
  BY <1>0, <1>13 DEF Destroyed, finishedWorkers, ended, native, output, inputs, flags, text,
     Owner, Waiting, Ended, running
<1>14. CASE Reading
  BY <1>0, <1>14 DEF Reading, enqueue, native, output, inputs, flags, text,
     Owner, Waiting, Ended, running
<1>15. CASE ReaderEnds
  BY <1>0, <1>15 DEF ReaderEnds, broken, native, output, inputs, flags, text,
     Owner, Waiting, Ended, running
<1>16. CASE WriterTakes
  BY <1>0, <1>16 DEF WriterTakes, native, output, inputs, flags, text,
     Owner, Waiting, Ended, running
<1>17. CASE WriterWrites
  BY <1>0, <1>17 DEF WriterWrites, native, output, inputs, flags, text,
     Owner, Waiting, Ended, running
<1>18. CASE WaiterSeesExit
  BY <1>0, <1>18 DEF WaiterSeesExit, native, output, inputs, flags, text,
     Owner, Waiting, Ended, running
<1>19. CASE WaiterEnds
  BY <1>0, <1>19 DEF WaiterEnds, readerDone, native, output, inputs, flags, text,
     Owner, Waiting, Ended, running
<1>20. CASE ChildWrites
  BY <1>0, <1>20 DEF ChildWrites, native, output, inputs, flags, text,
     Owner, Waiting, Ended, running
<1>21. CASE ChildExits
  BY <1>0, <1>21 DEF ChildExits, native, output, inputs, flags, text,
     Owner, Waiting, Ended, running
<1>22. CASE ReaderFails
  BY <1>0, <1>22 DEF ReaderFails, native, output, inputs, flags, text,
     Owner, Waiting, Ended, running
<1> QED
  BY <1>1, <1>2, <1>3, <1>4, <1>5, <1>6, <1>7, <1>8, <1>9, <1>10, <1>11, <1>12, <1>13, <1>14, <1>15, <1>16, <1>17, <1>18, <1>19, <1>20, <1>21, <1>22 DEF Next
LEMMA MailStep ==
  ASSUME TypeOK, Threads, Blamed, ForcedOnlyByItsStop, Next
  PROVE  Calls' /\ Blamed' /\ ForcedOnlyByItsStop'
<1> USE DEF Threads, ForcedOnlyByItsStop
<1>0. /\ forced \in BOOLEAN /\ suppress \in BOOLEAN /\ session \in Nat
      /\ <<>> \in Seq({"drain"} \cup exits) /\ DOMAIN <<>> = {}
      /\ \A i \in DOMAIN mailbox : mailbox[i] = "forcedExit" => mailbox[i] \in exits
  BY DEF TypeOK, exits
<1>1. CASE Start
  BY <1>0, <1>1 DEF Start, native, output, inputs, flags, text,
     Owner, Waiting, Calls, Blamed, running
<1>2. CASE Prepare
  BY <1>0, <1>2 DEF Prepare, reset, finishedWorkers, ended, native, output, inputs, flags, text,
     Owner, Waiting, Calls, Blamed, running
<1>3. CASE Spawn
  BY <1>0, <1>3 DEF Spawn, native, output, inputs, flags, text,
     Owner, Waiting, Calls, Blamed, running
<1>4. CASE Resume
  BY <1>0, <1>4 DEF Resume, native, output, inputs, flags, text,
     Owner, Waiting, Calls, Blamed, running
<1>5. CASE Abandon
  BY <1>0, <1>5 DEF Abandon, finishedWorkers, ended, native, output, inputs, flags, text,
     Owner, Waiting, Calls, Blamed, running
<1>6. CASE WriteInput
  BY <1>0, <1>6 DEF WriteInput, native, output, inputs, flags, text,
     Owner, Waiting, Calls, Blamed, running
<1>7. CASE StopGracefully
  BY <1>0, <1>7 DEF StopGracefully, native, output, inputs, flags, text,
     Owner, Waiting, Calls, Blamed, running
<1>8. CASE ForceStop
  BY <1>0, <1>8 DEF ForceStop, forceStop, terminate, native, output, inputs, flags, text,
     Owner, Waiting, Calls, Blamed, running
<1>9. CASE StopTimer
  BY <1>0, <1>9 DEF StopTimer, forceStop, terminate, timerApplies, native, output, inputs, flags, text,
     Owner, Waiting, Calls, Blamed, running
<1>10. CASE ClearTranscript
  BY <1>0, <1>10 DEF ClearTranscript, native, output, inputs, flags, text,
     Owner, Waiting, Calls, Blamed, running
<1>11. CASE HandleCall
  <2>1. /\ mailbox # <<>> /\ mailbox' = Tail(mailbox) /\ main' = main /\ waiter' = waiter
        /\ UNCHANGED <<forced, suppress, asked, session>>
    BY <1>11 DEF HandleCall, flags
  <2>2. /\ Head(mailbox) \in {"drain"} \cup exits
        /\ Head(mailbox) \in exits =>
             /\ main = "idle" /\ state \in {"Running", "Stopping"} /\ waiter = "ended"
             /\ \A i \in DOMAIN mailbox' : mailbox'[i] \notin exits
        /\ mailbox' \in Seq({"drain"} \cup exits)
        /\ \A i \in DOMAIN mailbox' : i + 1 \in DOMAIN mailbox /\ mailbox'[i] = mailbox[i + 1]
        /\ \A i, j \in DOMAIN mailbox' :
             mailbox'[i] \in exits /\ mailbox'[j] \in exits => i = j
    BY <2>1, NextCall
  <2>3. Blamed'
    BY <2>1, <2>2 DEF Blamed
  <2>4. CASE Head(mailbox) = "drain"
    <3>1. UNCHANGED <<state, exitStatus>>
      BY <1>11, <2>4 DEF HandleCall
    <3>2. Calls'
      BY <2>1, <2>2, <3>1 DEF Calls
    <3> QED
      BY <2>1, <2>3, <3>1, <3>2
  <2>5. CASE Head(mailbox) # "drain"
    <3>1. /\ Head(mailbox) \in exits
          /\ exitStatus' = IF Head(mailbox) = "forcedExit" THEN "Terminated" ELSE "Ended"
      BY <1>11, <2>2, <2>5 DEF HandleCall
    <3>2. Calls'
      BY <2>2, <3>1 DEF Calls
    <3>3. Head(mailbox) = "forcedExit" => asked = session
      <4>1. mailbox \in Seq({"drain"} \cup exits) /\ 1 \in DOMAIN mailbox /\ Head(mailbox) = mailbox[1]
        BY <2>1 DEF Calls
      <4> QED
        BY <4>1 DEF Blamed
    <3> QED
      BY <2>1, <2>3, <3>1, <3>2, <3>3
  <2> QED
    BY <2>4, <2>5
<1>12. CASE Destroy
  BY <1>0, <1>12 DEF Destroy, terminate, native, output, inputs, flags, text,
     Owner, Waiting, Calls, Blamed, running
<1>13. CASE Destroyed
  BY <1>0, <1>13 DEF Destroyed, finishedWorkers, ended, native, output, inputs, flags, text,
     Owner, Waiting, Calls, Blamed, running
<1>14. CASE Reading
  <2>1. /\ UNCHANGED <<main, state, waiter, forced, suppress, asked, session, exitStatus>>
        /\ mailbox' = mailbox \/ mailbox' = Append(mailbox, "drain")
    BY <1>14 DEF Reading, enqueue, flags
  <2>2. CASE mailbox' = mailbox
    BY <1>0, <2>1, <2>2 DEF Calls, Blamed
  <2>3. CASE mailbox' = Append(mailbox, "drain")
    <3>1. "drain" \notin exits
      BY DEF exits
    <3>2. /\ Calls'
          /\ \A i \in DOMAIN mailbox' :
               mailbox'[i] = "drain" \/ (i \in DOMAIN mailbox /\ mailbox'[i] = mailbox[i])
      BY <2>1, <2>3, <3>1, CallQueued
    <3> QED
      BY <2>1, <3>2 DEF Blamed
  <2> QED
    BY <2>1, <2>2, <2>3
<1>15. CASE ReaderEnds
  BY <1>0, <1>15 DEF ReaderEnds, broken, native, output, inputs, flags, text,
     Owner, Waiting, Calls, Blamed, running
<1>16. CASE WriterTakes
  BY <1>0, <1>16 DEF WriterTakes, native, output, inputs, flags, text,
     Owner, Waiting, Calls, Blamed, running
<1>17. CASE WriterWrites
  BY <1>0, <1>17 DEF WriterWrites, native, output, inputs, flags, text,
     Owner, Waiting, Calls, Blamed, running
<1>18. CASE WaiterSeesExit
  BY <1>0, <1>18 DEF WaiterSeesExit, native, output, inputs, flags, text,
     Owner, Waiting, Calls, Blamed, running
<1>19. CASE WaiterEnds
  <2>1. /\ waiter = "reader" /\ waiter' = "ended"
        /\ UNCHANGED <<main, state, forced, suppress, asked, session, exitStatus>>
        /\ mailbox' = IF suppress THEN mailbox
                      ELSE Append(mailbox, IF forced THEN "forcedExit" ELSE "exit")
    BY <1>19 DEF WaiterEnds, flags
  <2>2. \A i \in DOMAIN mailbox : mailbox[i] \notin exits
    BY <2>1 DEF Calls
  <2>3. CASE suppress
    BY <1>0, <2>1, <2>2, <2>3 DEF Calls, Blamed
  <2>4. CASE ~suppress
    <3> DEFINE call == IF forced THEN "forcedExit" ELSE "exit"
    <3>1. call \in {"drain"} \cup exits /\ mailbox' = Append(mailbox, call)
      BY <2>1, <2>4 DEF exits
    <3>2. main = "idle" /\ state \in {"Running", "Stopping"}
      BY <2>1, <2>4 DEF Waiting
    <3>3. call = "forcedExit" => asked = session
      BY <2>4 DEF Blamed
    <3> HIDE DEF call
    <3>4. /\ Calls'
          /\ \A i \in DOMAIN mailbox' :
               mailbox'[i] = call \/ (i \in DOMAIN mailbox /\ mailbox'[i] = mailbox[i])
      BY <2>1, <2>2, <3>1, <3>2, CallQueued
    <3> QED
      BY <2>1, <3>3, <3>4 DEF Blamed
  <2> QED
    BY <2>3, <2>4
<1>20. CASE ChildWrites
  BY <1>0, <1>20 DEF ChildWrites, native, output, inputs, flags, text,
     Owner, Waiting, Calls, Blamed, running
<1>21. CASE ChildExits
  BY <1>0, <1>21 DEF ChildExits, native, output, inputs, flags, text,
     Owner, Waiting, Calls, Blamed, running
<1>22. CASE ReaderFails
  BY <1>0, <1>22 DEF ReaderFails, native, output, inputs, flags, text,
     Owner, Waiting, Calls, Blamed, running
<1> QED
  BY <1>1, <1>2, <1>3, <1>4, <1>5, <1>6, <1>7, <1>8, <1>9, <1>10, <1>11, <1>12, <1>13, <1>14, <1>15, <1>16, <1>17, <1>18, <1>19, <1>20, <1>21, <1>22 DEF Next
\* What the reader takes joins what is pending.
LEMMA ReadingKeeps ==
  ASSUME TypeOK, read <= written, NEW n \in read + 1 .. written,
         enqueue([i \in 1 .. n - read |-> read + i]), read' = n,
         UNCHANGED <<carry, transcript, lost, state, written>>
  PROVE  /\ pending' \in Seq(Byte) /\ Len(pending') <= MaxPendingOutput /\ discarded' \in BOOLEAN
         /\ Flow /\ state # "Exited" => Flow'
<1> DEFINE bytes == [i \in 1 .. n - read |-> read + i]
           both == pending \o bytes
<1>1. /\ pending' = keepLast(both, MaxPendingOutput)
      /\ discarded' = (discarded \/ Len(both) > MaxPendingOutput)
  BY DEF enqueue
<1>2. /\ read \in Nat /\ written \in Nat /\ Len(Stream) \in Nat /\ written <= Len(Stream)
      /\ n \in 1 .. Len(Stream) /\ n \in Nat /\ read < n /\ n <= written
      /\ pending \in Seq(Byte) /\ Len(pending) \in Nat /\ transcript \in Seq(Byte)
      /\ discarded \in BOOLEAN /\ lost \in BOOLEAN
      /\ MaxPendingOutput \in Nat \ {0}
  BY StreamFacts DEF TypeOK, Byte
<1>3. /\ bytes \in Seq(Byte) /\ Len(bytes) = n - read
      /\ \A i \in 1 .. n - read : bytes[i] = read + i
  <2>1. \A i \in 1 .. n - read : read + i \in Byte
    BY <1>2 DEF Byte
  <2>2. n - read \in Nat
    BY <1>2
  <2> QED
    BY <2>1, <2>2
<1> HIDE DEF bytes
<1>4. /\ both \in Seq(Byte) /\ Len(both) = Len(pending) + (n - read)
      /\ \A i \in 1 .. Len(pending) : both[i] = pending[i]
      /\ \A i \in 1 .. n - read : both[Len(pending) + i] = read + i
  <2>1. /\ both \in Seq(Byte) /\ Len(both) = Len(pending) + Len(bytes)
        /\ \A i \in 1 .. Len(pending) + Len(bytes) :
             both[i] = IF i <= Len(pending) THEN pending[i] ELSE bytes[i - Len(pending)]
    BY <1>2, <1>3, ConcatProperties
  <2> HIDE DEF both
  <2>2. ASSUME NEW i \in 1 .. n - read PROVE both[Len(pending) + i] = read + i
    <3>1. /\ Len(pending) + i \in 1 .. Len(pending) + Len(bytes)
          /\ ~(Len(pending) + i <= Len(pending)) /\ Len(pending) + i - Len(pending) = i
      BY <1>2, <1>3
    <3> QED
      BY <1>3, <2>1, <3>1
  <2>3. ASSUME NEW i \in 1 .. Len(pending) PROVE both[i] = pending[i]
    <3>1. i \in 1 .. Len(pending) + Len(bytes) /\ i <= Len(pending)
      BY <1>2, <1>3
    <3> QED
      BY <2>1, <3>1
  <2> QED
    BY <1>3, <2>1, <2>2, <2>3
<1> HIDE DEF both
<1>5. /\ pending' \in Seq(Byte) /\ Len(pending') <= MaxPendingOutput
      /\ (Len(both) <= MaxPendingOutput => pending' = both)
  BY <1>1, <1>2, <1>4, KeptBytes
<1>6. discarded' \in BOOLEAN
  BY <1>1, <1>2
<1>7. ASSUME Flow, state # "Exited" PROVE Flow'
  <2>1. /\ Piece(pending, read) /\ (~discarded => carry = opened(read - Len(pending)))
        /\ discarded => IF pending = <<>> THEN read > 0 /\ Stream[read] = "second"
                        ELSE Stream[pending[1]] # "second"
        /\ ~discarded /\ ~lost => transcript \o (carry \o pending) = Bytes(read)
        /\ Whole(transcript, 0)
    BY <1>7 DEF Flow
  <2>2. Piece(both, n)
    <3>1. ASSUME NEW i \in 1 .. Len(both) PROVE both[i] = n - Len(both) + i
      <4>1. CASE i \in 1 .. Len(pending)
        <5>1. both[i] = read - Len(pending) + i
          BY <1>4, <2>1, <4>1 DEF Piece
        <5> QED
          BY <1>2, <1>4, <4>1, <5>1
      <4>2. CASE i \notin 1 .. Len(pending)
        <5>1. i - Len(pending) \in 1 .. n - read /\ Len(pending) + (i - Len(pending)) = i
          BY <1>2, <1>4, <3>1, <4>2
        <5>2. both[i] = read + (i - Len(pending))
          BY <1>4, <5>1
        <5> QED
          BY <1>2, <1>4, <5>1, <5>2
      <4> QED
        BY <4>1, <4>2
    <3>2. Len(both) <= n
      BY <1>2, <1>4, <2>1 DEF Piece
    <3> QED
      BY <3>1, <3>2 DEF Piece
  <2>3. /\ Piece(pending', n)
        /\ Len(both) > MaxPendingOutput => IF pending' = <<>> THEN n > 0 /\ Stream[n] = "second"
                                           ELSE Stream[pending'[1]] # "second"
    <3>1. both \in Seq(Byte) /\ MaxPendingOutput \in Nat \ {0} /\ n \in 0 .. Len(Stream)
      BY <1>2, <1>4
    <3> QED
      BY <1>1, <2>2, <3>1, KeptPiece
  <2>4. CASE Len(both) > MaxPendingOutput
    <3>1. discarded'
      BY <1>1, <2>4
    <3> QED
      BY <1>7, <2>1, <2>3, <2>4, <3>1 DEF Flow
  <2>5. CASE Len(both) <= MaxPendingOutput
    <3>1. discarded' = discarded /\ pending' = both
      <4>1. ~(Len(both) > MaxPendingOutput)
        BY <1>2, <1>4, <2>5
      <4> QED
        BY <1>1, <1>2, <1>5, <2>5, <4>1
    <3>2. both # <<>> /\ n - Len(both) = read - Len(pending)
      BY <1>2, <1>4
    <3>3. discarded => Stream[both[1]] # "second"
      <4>1. CASE pending # <<>>
        <5>1. 1 \in 1 .. Len(pending)
          BY <1>2, <4>1
        <5> QED
          BY <1>4, <2>1, <4>1, <5>1
      <4>2. CASE pending = <<>>
        <5>1. Len(pending) = 0 /\ 1 \in 1 .. n - read /\ both[0 + 1] = read + 1
          BY <1>2, <1>4, <4>2
        <5>2. read + 1 \in Byte /\ both[1] = read + 1 /\ read + 1 - 1 = read
          BY <1>2, <5>1 DEF Byte
        <5>3. discarded => Stream[read] # "first"
          BY <2>1, <4>2
        <5>4. Stream[read + 1] = "second" => Stream[read] = "first"
          <6> DEFINE k == read + 1
          <6>1. k \in Byte /\ k - 1 = read
            BY <1>2, <5>2
          <6> HIDE DEF k
          <6>2. Stream[k] = "second" => Stream[k - 1] = "first"
            BY <6>1, StreamFacts
          <6> QED
            BY <6>1, <6>2 DEF k
        <5> QED
          BY <5>2, <5>3, <5>4
      <4> QED
        BY <4>1, <4>2
    <3>4. ~discarded /\ ~lost => transcript \o (carry \o both) = Bytes(n)
      <4> SUFFICES ASSUME ~discarded, ~lost PROVE transcript \o (carry \o both) = Bytes(n)
        OBVIOUS
      <4>1. carry \in Seq(Byte)
        <5>1. read - Len(pending) \in 0 .. Len(Stream)
          BY <1>2, <2>1 DEF Piece
        <5> QED
          BY <2>1, <5>1, OpenedIsPiece
      <4> DEFINE before == carry \o pending
      <4>2. before \in Seq(Byte) /\ carry \o both = before \o bytes
        <5>1. pending \in Seq(Byte) /\ bytes \in Seq(Byte)
          BY <1>2, <1>3
        <5>2. carry \o (pending \o bytes) = (carry \o pending) \o bytes
          BY <4>1, <5>1, Associative
        <5> QED
          BY <4>1, <5>1, <5>2, ConcatProperties DEF both
      <4> HIDE DEF before
      <4>3. transcript \o (before \o bytes) = (transcript \o before) \o bytes
        <5>1. transcript \in Seq(Byte) /\ bytes \in Seq(Byte) /\ before \in Seq(Byte)
          BY <1>2, <1>3, <4>2
        <5> QED
          BY <5>1, ConcatAssociative
      <4>4. transcript \o before = Bytes(read)
        BY <2>1 DEF before
      <4>5. Bytes(read) \o bytes = Bytes(n)
        <5> DEFINE x == Bytes(read)
                   y == Bytes(n)
                   z == x \o bytes
        <5>1. x \in Seq(Nat) /\ Len(x) = read /\ \A i \in 1 .. read : x[i] = i
          BY <1>2 DEF Bytes
        <5>2. y \in Seq(Nat) /\ Len(y) = n /\ \A i \in 1 .. n : y[i] = i
          BY <1>2 DEF Bytes
        <5>3. bytes \in Seq(Nat)
          <6>1. Byte \subseteq Nat
            BY <1>2 DEF Byte
          <6> QED
            BY <1>3, <6>1, SeqMonotonic
        <5> HIDE DEF x, y
        <5>4. /\ z \in Seq(Nat) /\ Len(z) = read + (n - read)
              /\ \A i \in 1 .. read + (n - read) : z[i] = IF i <= read THEN x[i] ELSE bytes[i - read]
          <6>1. /\ z \in Seq(Nat) /\ Len(z) = Len(x) + Len(bytes)
                /\ \A i \in 1 .. Len(x) + Len(bytes) :
                     z[i] = IF i <= Len(x) THEN x[i] ELSE bytes[i - Len(x)]
            BY <5>1, <5>3, ConcatProperties
          <6>2. Len(x) = read /\ Len(bytes) = n - read
            BY <1>3, <5>1
          <6> HIDE DEF z
          <6> QED
            BY <6>1, <6>2
        <5> HIDE DEF z
        <5>5. read + (n - read) = n
          BY <1>2
        <5>6. ASSUME NEW i \in 1 .. n PROVE z[i] = i
          <6>1. CASE i <= read
            BY <1>2, <5>1, <5>4, <5>5, <6>1
          <6>2. CASE ~(i <= read)
            <7>1. i - read \in 1 .. n - read /\ read + (i - read) = i
              BY <1>2, <6>2
            <7> QED
              BY <1>3, <5>4, <5>5, <6>2, <7>1
          <6> QED
            BY <6>1, <6>2
        <5>7. z = y
          BY <5>2, <5>4, <5>5, <5>6, SeqEqual
        <5> QED
          BY <5>7 DEF x, y, z
      <4> QED
        BY <4>2, <4>3, <4>4, <4>5
    <3> QED
      BY <1>7, <2>1, <2>3, <3>1, <3>2, <3>3, <3>4 DEF Flow
  <2> QED
    BY <1>2, <1>4, <2>4, <2>5
<1> QED
  BY <1>5, <1>6, <1>7
\* Calls of the owning thread come before its destructor.
LEMMA CallDrains ==
  ASSUME OutputInv, HandleCall
  PROVE  /\ Flow
         /\ \/ drained(FALSE) /\ UNCHANGED <<state, exitStatus>>
            \/ /\ drained(TRUE) /\ state \in {"Running", "Stopping"}
               /\ state' = "Exited" /\ exitStatus' \in {"Terminated", "Ended"}
<1>1. main = "idle" /\ mailbox # <<>>
  BY DEF HandleCall
<1>2. Flow
  BY <1>1 DEF OutputInv, Output, alive
<1>3. CASE Head(mailbox) = "drain"
  BY <1>2, <1>3 DEF HandleCall
<1>4. CASE Head(mailbox) # "drain"
  <2>1. state \in {"Running", "Stopping"} /\ waiter = "ended"
    BY <1>1, <1>4, NextCall DEF OutputInv, Threads
  <2>2. drained(TRUE) /\ state' = "Exited" /\ exitStatus' \in {"Terminated", "Ended"}
    BY <1>4 DEF HandleCall
  <2> QED
    BY <1>2, <2>1, <2>2
<1> QED
  BY <1>3, <1>4

LEMMA TypeStep ==
  ASSUME OutputInv, Next
  PROVE  TypeOK'
<1> SUFFICES Flags' /\ Places'
  BY TypeParts
<1> USE DEF Flags, Places
<1>0. /\ TypeOK /\ Flags /\ Places /\ Owner /\ read <= written /\ Len(Stream) \in Nat /\ MaxSessions \in Nat
      /\ MaxInput \in Nat \ {0} /\ MaxPendingOutput \in Nat \ {0} /\ MaxTranscript \in Nat \ {0}
      /\ <<>> \in Seq(Byte) /\ Len(<<>>) = 0
  BY StreamAssumption, TypeParts DEF OutputInv, Threads, Ended
<1>1. CASE Start
  BY <1>0, <1>1 DEF Start, native, output, inputs, flags, text,
     Owner, running
<1>2. CASE Prepare
  <2>1. Flags'
    BY <1>0, <1>2 DEF Prepare, reset, finishedWorkers, ended, native, output, inputs, flags, text
  <2>2. Places'
    BY <1>0, <1>2 DEF Prepare, reset, finishedWorkers, ended, native, output, inputs, flags, text,
       Owner, running
  <2> QED
    BY <2>1, <2>2
<1>3. CASE Spawn
  <2>1. Flags'
    BY <1>0, <1>3 DEF Spawn, native, output, inputs, flags, text
  <2>2. Places'
    BY <1>0, <1>3 DEF Spawn, native, output, inputs, flags, text,
       Owner, running
  <2> QED
    BY <2>1, <2>2
<1>4. CASE Resume
  <2>1. Flags'
    BY <1>0, <1>4 DEF Resume, native, output, inputs, flags, text
  <2>2. Places'
    BY <1>0, <1>4 DEF Resume, native, output, inputs, flags, text,
       Owner, running
  <2> QED
    BY <2>1, <2>2
<1>5. CASE Abandon
  <2>1. Flags'
    BY <1>0, <1>5 DEF Abandon, finishedWorkers, ended, native, output, inputs, flags, text
  <2>2. Places'
    BY <1>0, <1>5 DEF Abandon, finishedWorkers, ended, native, output, inputs, flags, text,
       Owner, running
  <2> QED
    BY <2>1, <2>2
<1>6. CASE WriteInput
  BY <1>0, <1>6 DEF WriteInput, native, output, inputs, flags, text,
     Owner, running
<1>7. CASE StopGracefully
  BY <1>0, <1>7 DEF StopGracefully, native, output, inputs, flags, text,
     Owner, running
<1>8. CASE ForceStop
  BY <1>0, <1>8 DEF ForceStop, forceStop, terminate, native, output, inputs, flags, text,
     Owner, running
<1>9. CASE StopTimer
  <2>1. Flags'
    BY <1>0, <1>9 DEF StopTimer, forceStop, terminate, timerApplies, native, output, inputs, flags, text
  <2>2. Places'
    BY <1>0, <1>9 DEF StopTimer, forceStop, terminate, timerApplies, native, output, inputs, flags, text,
       Owner, running
  <2> QED
    BY <2>1, <2>2
<1>10. CASE ClearTranscript
  BY <1>0, <1>10 DEF ClearTranscript, native, output, inputs, flags, text,
     Owner, running
<1>11. CASE HandleCall
  <2>1. UNCHANGED <<main, session, native, reader, writer, waiter, inputs, flags, timers, asked>>
    BY <1>11 DEF HandleCall
  <2>2. /\ pending' \in Seq(Byte) /\ Len(pending') <= MaxPendingOutput
        /\ transcript' \in Seq(Byte) /\ Len(transcript') <= MaxTranscript
        /\ read' \in 0 .. Len(Stream) /\ discarded' \in BOOLEAN /\ drainQueued' \in BOOLEAN /\ lost' \in BOOLEAN
    <3>1. \E lastly \in BOOLEAN : drained(lastly) /\ (state = "Exited" => lastly = FALSE)
      BY <1>11, CallDrains
    <3>2. PICK lastly \in BOOLEAN : drained(lastly) /\ (state = "Exited" => lastly = FALSE)
      BY <3>1
    <3>3. drainQueued' = FALSE /\ Flow
      BY <1>11, <3>2, CallDrains DEF drained
    <3>4. CASE state = "Exited"
      BY <1>0, <3>2, <3>3, <3>4, DrainAfterExit
    <3>5. CASE state # "Exited"
      <4>1. /\ discarded' = FALSE /\ read' = read /\ lost' \in BOOLEAN
            /\ transcript' \in Seq(Byte) /\ Len(transcript') <= MaxTranscript
            /\ pending' = <<>>
        BY <1>0, <3>2, <3>3, <3>5, DrainShows
      <4>2. drainQueued' \in BOOLEAN /\ discarded' \in BOOLEAN
        BY <3>3, <4>1
      <4>3. pending' \in Seq(Byte) /\ Len(pending') <= MaxPendingOutput
        BY <1>0, <4>1
      <4> QED
        BY <1>0, <4>1, <4>2, <4>3
    <3> QED
      BY <3>4, <3>5
  <2>3. /\ state' \in {state, "Exited"} /\ exitStatus' \in {exitStatus, "Terminated", "Ended"}
    BY <1>11, CallDrains
  <2> QED
    BY <1>0, <2>1, <2>2, <2>3 DEF native, inputs, flags
<1>12. CASE Destroy
  BY <1>0, <1>12 DEF Destroy, terminate, native, output, inputs, flags, text,
     Owner, running
<1>13. CASE Destroyed
  BY <1>0, <1>13 DEF Destroyed, finishedWorkers, ended, native, output, inputs, flags, text,
     Owner, running
<1>14. CASE Reading
  <2>1. PICK n \in read + 1 .. written :
          /\ read' = n
          /\ IF main = "destroying" THEN UNCHANGED <<pending, discarded, drainQueued, mailbox>>
             ELSE enqueue([i \in 1 .. n - read |-> read + i])
    BY <1>14 DEF Reading
  <2>2. UNCHANGED <<main, state, session, native, reader, writer, waiter, inputs, flags,
                    timers, text, exitStatus, asked>>
    BY <1>14 DEF Reading
  <2>3. n \in 0 .. Len(Stream)
    BY <1>0, <2>1
  <2>4. /\ pending' \in Seq(Byte) /\ Len(pending') <= MaxPendingOutput
        /\ discarded' \in BOOLEAN /\ drainQueued' \in BOOLEAN
    <3>1. CASE main = "destroying"
      BY <1>0, <2>1, <3>1
    <3>2. CASE main # "destroying"
      <4>1. drainQueued' = TRUE /\ UNCHANGED <<carry, transcript, lost, state, written>>
        BY <2>1, <2>2, <3>2 DEF enqueue, native, text
      <4> QED
        BY <1>0, <2>1, <3>2, <4>1, ReadingKeeps
    <3> QED
      BY <3>1, <3>2
  <2> QED
    BY <1>0, <2>1, <2>2, <2>3, <2>4 DEF native, inputs, flags, text
<1>15. CASE ReaderEnds
  BY <1>0, <1>15 DEF ReaderEnds, broken, native, output, inputs, flags, text,
     Owner, running
<1>16. CASE WriterTakes
  BY <1>0, <1>16 DEF WriterTakes, native, output, inputs, flags, text,
     Owner, running
<1>17. CASE WriterWrites
  BY <1>0, <1>17 DEF WriterWrites, native, output, inputs, flags, text,
     Owner, running
<1>18. CASE WaiterSeesExit
  <2>1. Flags'
    BY <1>0, <1>18 DEF WaiterSeesExit, native, output, inputs, flags, text
  <2>2. Places'
    BY <1>0, <1>18 DEF WaiterSeesExit, native, output, inputs, flags, text,
       Owner, running
  <2> QED
    BY <2>1, <2>2
<1>19. CASE WaiterEnds
  BY <1>0, <1>19 DEF WaiterEnds, readerDone, native, output, inputs, flags, text,
     Owner, running
<1>20. CASE ChildWrites
  BY <1>0, <1>20 DEF ChildWrites, native, output, inputs, flags, text,
     Owner, running
<1>21. CASE ChildExits
  BY <1>0, <1>21 DEF ChildExits, native, output, inputs, flags, text,
     Owner, running
<1>22. CASE ReaderFails
  BY <1>0, <1>22 DEF ReaderFails, native, output, inputs, flags, text,
     Owner, running
<1> QED
  BY <1>1, <1>2, <1>3, <1>4, <1>5, <1>6, <1>7, <1>8, <1>9, <1>10, <1>11, <1>12, <1>13, <1>14, <1>15, <1>16, <1>17, <1>18, <1>19, <1>20, <1>21, <1>22 DEF Next

\* Nothing happens to the output.
LEMMA OutputStays ==
  ASSUME UNCHANGED <<read, pending, discarded, carry, transcript, lost>>,
         state = "Exited" <=> state' = "Exited"
  PROVE  (Flow => Flow') /\ (Rest => Rest')
<1>1. (IF state' = "Exited" THEN read' ELSE 0) = (IF state = "Exited" THEN read ELSE 0)
  OBVIOUS
<1> QED
  BY <1>1 DEF Flow, Rest

LEMMA OutputStep ==
  ASSUME OutputInv, Next
  PROVE  Output'
<1>0. /\ TypeOK /\ Output /\ read <= written /\ (state = "Exited" => reader \in {"ended", "failed"})
      /\ (reader = "ended" => read = written /\ ~console)
      /\ Len(Stream) \in Nat /\ read \in 0 .. Len(Stream) /\ written \in 0 .. Len(Stream)
      /\ transcript \in Seq(Byte) /\ lost \in BOOLEAN /\ discarded \in BOOLEAN
      /\ (main \in {"spawning", "resuming", "abandoning"} => state = "Starting")
  BY StreamFacts DEF OutputInv, TypeOK, Threads, Ended, Owner, Byte
<1>a. ASSUME UNCHANGED <<read, pending, discarded, carry, transcript, lost>>,
             state = "Exited" <=> state' = "Exited",
             alive' <=> alive
      PROVE  Output'
  BY <1>0, <1>a, OutputStays DEF Output
<1>1. CASE Start
  BY <1>0, <1>a, <1>1 DEF Start, native, output, flags, text, alive, running
<1>2. CASE Prepare
  <2>1. /\ pending' = <<>> /\ discarded' = FALSE /\ read' = 0 /\ carry' = <<>> /\ transcript' = <<>>
        /\ main' \in {"idle", "spawning"} /\ state' \in {"Failed", "Starting"}
    BY <1>2 DEF Prepare, reset
  <2>2. Piece(<<>>, 0) /\ opened(0) = <<>> /\ Len(<<>>) = 0 /\ Whole(<<>>, 0)
    BY DEF Piece, opened, Whole
  <2>3. <<>> \o (<<>> \o <<>>) = Bytes(0)
    BY DEF Bytes
  <2> QED
    BY <2>1, <2>2, <2>3 DEF Output, alive, Flow
<1>3. CASE Spawn
  BY <1>0, <1>a, <1>3 DEF Spawn, native, output, flags, text, alive, running
<1>4. CASE Resume
  BY <1>0, <1>a, <1>4 DEF Resume, native, output, flags, text, alive, running
<1>5. CASE Abandon
  BY <1>0, <1>a, <1>5 DEF Abandon, finishedWorkers, ended, native, output, flags, text, alive, running
<1>6. CASE WriteInput
  BY <1>0, <1>a, <1>6 DEF WriteInput, native, output, flags, text, alive, running
<1>7. CASE StopGracefully
  BY <1>0, <1>a, <1>7 DEF StopGracefully, native, output, flags, text, alive, running
<1>8. CASE ForceStop
  BY <1>0, <1>a, <1>8 DEF ForceStop, forceStop, terminate, native, output, flags, text, alive, running
<1>9. CASE StopTimer
  BY <1>0, <1>a, <1>9 DEF StopTimer, forceStop, terminate, timerApplies, native, output, flags, text, alive, running
<1>10. CASE ClearTranscript
  <2>1. /\ transcript' = <<>> /\ lost' = TRUE /\ main = "idle"
        /\ UNCHANGED <<main, state, written, read, pending, discarded, carry>>
    BY <1>10 DEF ClearTranscript, native, output
  <2>2. \A n : Whole(<<>>, n)
    BY DEF Whole
  <2> QED
    BY <1>0, <2>1, <2>2 DEF Output, alive, Flow
<1>11. CASE HandleCall
  <2>1. UNCHANGED <<main, written>> /\ main = "idle"
    BY <1>11 DEF HandleCall, native
  <2>2. Flow
    BY <1>11, CallDrains
  <2>3. CASE drained(FALSE) /\ state = "Exited" /\ state' = state
    <3>1. UNCHANGED <<read, pending, discarded, carry, transcript, lost>>
      BY <1>0, <2>2, <2>3, DrainAfterExit
    <3> QED
      BY <1>a, <2>1, <2>3, <3>1 DEF alive
  <2> DEFINE Shows(lastly) ==
        /\ pending' = <<>> /\ discarded' = FALSE /\ read' = read
        /\ Whole(transcript', IF lastly THEN read ELSE 0)
        /\ carry' = IF lastly THEN <<>> ELSE opened(read)
        /\ transcript' \in Seq(Byte) /\ carry' \in Seq(Byte)
        /\ ~lost' => transcript' \o carry' = Bytes(read)
  <2>4. ASSUME NEW lastly \in BOOLEAN, drained(lastly), state # "Exited" PROVE Shows(lastly)
    <3>1. <<>> \in Seq(Byte) /\ opened(read) \in Seq(Byte)
      BY <1>0, OpenedIsPiece
    <3> QED
      BY <1>0, <2>2, <2>4, <3>1, DrainShows
  <2>5. Len(<<>>) = 0 /\ read - 0 = read /\ Piece(<<>>, read) /\ FALSE \in BOOLEAN /\ TRUE \in BOOLEAN
    BY <1>0 DEF Piece
  <2>6. CASE drained(FALSE) /\ state # "Exited" /\ state' = state
    <3>1. Shows(FALSE)
      BY <2>4, <2>5, <2>6
    <3>2. carry' \o pending' = carry'
      BY <3>1, ConcatEmptySeq
    <3> QED
      BY <2>1, <2>5, <2>6, <3>1, <3>2 DEF Output, alive, Flow
  <2>7. CASE drained(TRUE) /\ state \in {"Running", "Stopping"} /\ state' = "Exited"
    <3>1. Shows(TRUE)
      BY <2>4, <2>5, <2>7
    <3>2. carry' \o pending' = carry'
      BY <3>1, ConcatEmptySeq
    <3> QED
      BY <2>1, <2>5, <2>7, <3>1, <3>2 DEF Output, alive, Flow
  <2> QED
    BY <1>11, <2>3, <2>6, <2>7, CallDrains
<1>12. CASE Destroy
  <2>1. UNCHANGED <<state, written, read, pending, discarded, carry, transcript, lost>>
        /\ main = "idle" /\ main' = "destroying"
    BY <1>12 DEF Destroy, output, text
  <2>2. Flow
    BY <1>0, <2>1 DEF Output, alive
  <2>3. state = "Exited" /\ ~lost => transcript = Bytes(read)
    <3>1. <<>> \o <<>> = <<>> /\ transcript \o <<>> = transcript
      BY <1>0, ConcatEmptySeq
    <3> QED
      BY <2>2, <3>1 DEF Flow
  <2>4. Rest
    BY <2>2, <2>3 DEF Flow, Rest
  <2>5. Rest'
    BY <2>1, <2>4, OutputStays
  <2> QED
    BY <2>1, <2>5 DEF Output, alive
<1>13. CASE Destroyed
  BY <1>0, <1>a, <1>13 DEF Destroyed, finishedWorkers, ended, native, output, flags, text, alive, running
<1>14. CASE Reading
  <2>1. PICK n \in read + 1 .. written :
          /\ read' = n
          /\ main # "destroying" => enqueue([i \in 1 .. n - read |-> read + i])
    BY <1>14 DEF Reading
  <2>2. UNCHANGED <<main, state, written, carry, transcript, lost>> /\ state # "Exited"
    BY <1>0, <1>14 DEF Reading, native, text
  <2>3. CASE alive
    <3>1. Flow'
      BY <1>0, <2>1, <2>2, <2>3, ReadingKeeps DEF Output, alive
    <3> QED
      BY <2>2, <2>3, <3>1 DEF Output, alive
  <2>4. CASE ~alive
    BY <1>0, <2>2, <2>4 DEF Output, alive, Rest
  <2> QED
    BY <2>3, <2>4
<1>15. CASE ReaderEnds
  BY <1>0, <1>a, <1>15 DEF ReaderEnds, broken, native, output, flags, text, alive, running
<1>16. CASE WriterTakes
  BY <1>0, <1>a, <1>16 DEF WriterTakes, native, output, flags, text, alive, running
<1>17. CASE WriterWrites
  BY <1>0, <1>a, <1>17 DEF WriterWrites, native, output, flags, text, alive, running
<1>18. CASE WaiterSeesExit
  BY <1>0, <1>a, <1>18 DEF WaiterSeesExit, native, output, flags, text, alive, running
<1>19. CASE WaiterEnds
  BY <1>0, <1>a, <1>19 DEF WaiterEnds, readerDone, native, output, flags, text, alive, running
<1>20. CASE ChildWrites
  BY <1>0, <1>a, <1>20 DEF ChildWrites, native, output, flags, text, alive, running
<1>21. CASE ChildExits
  BY <1>0, <1>a, <1>21 DEF ChildExits, native, output, flags, text, alive, running
<1>22. CASE ReaderFails
  BY <1>0, <1>a, <1>22 DEF ReaderFails, native, output, flags, text, alive, running
<1> QED
  BY <1>1, <1>2, <1>3, <1>4, <1>5, <1>6, <1>7, <1>8, <1>9, <1>10, <1>11, <1>12, <1>13, <1>14, <1>15, <1>16, <1>17, <1>18, <1>19, <1>20, <1>21, <1>22 DEF Next

-----------------------------------------------------------------------------
(* The theorem. *)

LEMMA OutputBegins == Init => OutputInv
<1> SUFFICES ASSUME Init PROVE OutputInv
  OBVIOUS
<1>0. /\ Len(Stream) \in Nat /\ MaxPendingOutput \in Nat \ {0} /\ MaxTranscript \in Nat \ {0}
      /\ MaxInput \in Nat \ {0} /\ MaxSessions \in Nat
      /\ <<>> \in Seq(1 .. Len(Stream)) /\ <<>> \in Seq({"drain"} \cup exits)
      /\ Len(<<>>) = 0 /\ DOMAIN <<>> = {}
  BY StreamAssumption
<1>1. TypeOK
  <2>1. Flags
    BY DEF Init, Flags
  <2>2. Places
    BY <1>0 DEF Init, Places, Byte
  <2> QED
    BY <2>1, <2>2, TypeParts
<1>2. Threads
  BY <1>0 DEF Init, Threads, Owner, Waiting, Calls, Ended, running
<1>3. Blamed /\ ForcedOnlyByItsStop
  BY <1>0 DEF Init, Blamed, ForcedOnlyByItsStop
<1>4. Output
  <2>1. Piece(<<>>, 0) /\ opened(0) = <<>> /\ Whole(<<>>, 0)
    BY DEF Piece, opened, Whole
  <2>2. <<>> \o (<<>> \o <<>>) = Bytes(0)
    BY DEF Bytes
  <2> QED
    BY <1>0, <2>1, <2>2 DEF Init, Output, alive, Flow
<1> QED
  BY <1>1, <1>2, <1>3, <1>4 DEF OutputInv

LEMMA OutputInvStep == OutputInv /\ [Next]_vars => OutputInv'
<1> SUFFICES ASSUME OutputInv, [Next]_vars PROVE OutputInv'
  OBVIOUS
<1>1. CASE Next
  <2>1. Owner' /\ Waiting' /\ Ended'
    BY <1>1, ThreadsStep DEF OutputInv
  <2>2. Calls' /\ Blamed' /\ ForcedOnlyByItsStop'
    BY <1>1, MailStep DEF OutputInv
  <2>3. TypeOK' /\ Output'
    BY <1>1, TypeStep, OutputStep
  <2> QED
    BY <2>1, <2>2, <2>3 DEF OutputInv, Threads
<1>2. CASE UNCHANGED vars
  <2> USE <1>2 DEF vars, native, output, inputs, flags, text, OutputInv
  <2>1. TypeOK'
    BY DEF TypeOK
  <2>2. Threads'
    BY DEF Threads, Owner, Waiting, Calls, Ended, running
  <2>3. Blamed' /\ ForcedOnlyByItsStop'
    BY DEF Blamed, ForcedOnlyByItsStop
  <2>4. Output'
    BY OutputStays DEF Output, alive
  <2> QED
    BY <2>1, <2>2, <2>3, <2>4
<1> QED
  BY <1>1, <1>2

LEMMA OutputFollows == OutputInv => OutputIsFaithful
<1> SUFFICES ASSUME OutputInv PROVE OutputIsFaithful
  OBVIOUS
<1>1. TypeOK /\ ForcedOnlyByItsStop
  BY DEF OutputInv
<1>2. transcript \in Seq(Byte) /\ DOMAIN transcript = 1 .. Len(transcript)
      /\ Whole(transcript, IF state = "Exited" THEN read ELSE 0)
  BY <1>1 DEF OutputInv, TypeOK, Output, Flow, Rest, Byte
<1>3. WholeCharacters
  <2>1. \A i \in DOMAIN transcript : transcript[i] # 0
    BY <1>2 DEF Byte
  <2> QED
    BY <1>2, <2>1 DEF WholeCharacters, Whole
<1>4. ExitShowsEverything
  <2> SUFFICES ASSUME state = "Exited"
               PROVE  /\ pending = <<>> /\ carry = <<>>
                      /\ read = written \/ reader = "failed"
                      /\ ~lost => transcript = Bytes(read)
    BY DEF ExitShowsEverything, Bytes
  <2>1. read = written \/ reader = "failed"
    BY DEF OutputInv, Threads, Ended
  <2>2. CASE alive
    <3>1. <<>> \o <<>> = <<>> /\ transcript \o <<>> = transcript
      BY <1>2, ConcatEmptySeq
    <3> QED
      BY <2>1, <2>2, <3>1 DEF OutputInv, Output, Flow
  <2>3. CASE ~alive
    BY <2>1, <2>3 DEF OutputInv, Output, Rest
  <2> QED
    BY <2>2, <2>3
<1> QED
  BY <1>1, <1>3, <1>4 DEF OutputIsFaithful

\* What a terminal shows is what was read of its process's output, in whole characters;
\* when the exit is reported it is all of the output, unless a read failed, and bytes dropped
\* or cleared apart; it is reported as terminated only for its own stop.
THEOREM OutputHolds == MCSpec => []OutputIsFaithful
<1>1. MCInit => OutputInv
  BY OutputBegins DEF MCInit
<1>2. OutputInv /\ [MCNext]_<<vars, helper, packages, subject>> => OutputInv'
  BY OutputInvStep DEF MCNext
<1>3. OutputInv => OutputIsFaithful
  BY OutputFollows
<1> QED
  BY <1>1, <1>2, <1>3, PTL DEF MCSpec

-----------------------------------------------------------------------------
(* The packages and the OpenCode helper, for any profiles and numbers of     *)
(* calls, changes, troubles and stagings.                                    *)

ValidProfile == {p \in Profiles : PS!validate(p)}
Entry == UNION {ToSet(p.packages) : p \in ValidProfile}
Script == {PS!generated(p) : p \in ValidProfile}

\* A list has each package after what it depends on.
Sorted(l) == \A i \in 1 .. Len(l) : ToSet(l[i].dependencies) \subseteq {l[j].id : j \in 1 .. i - 1}

\* What lies in the folder of a stager, and what it is about.
Folder == [script : Script \cup {PS!noProfile}, payload : [Names -> PS!contents]]
Stager == {PS!rest} \cup
  [stage : {"script", "payloads"}, of : ValidProfile, left : Seq(Entry), copied : SUBSET Names, hashed : BOOLEAN]
Bench ==
  /\ files \in [PS!Stagers -> Folder] /\ writing \in [PS!Stagers -> Stager]
  /\ \A s \in PS!Stagers : writing[s] # PS!rest /\ writing[s].hashed => writing[s].left # <<>>
  /\ recorded \in [script : Script \cup {PS!noProfile}, payloads : SUBSET Names]
  /\ gated \in {"none", "passed", "stale"}
Imaged ==
  image \in {PS!nothing} \cup
    [by : {"desktop", "command"}, script : Script, checked : BOOLEAN, payload : [Names -> PS!contents]]

\* The payloads a profile requires are among those of the names ns or to come.
covered(p, ns, coming) ==
  \A e \in ToSet(PS!payloads(p)) : PS!payloadRequired(p, e) => e.id \in ns \/ e \in coming

\* The desktop's staging: what was copied is good, and what its profile requires was
\* copied or is to come.
Staging ==
  LET w == writing["desktop"]
  IN  w # PS!rest =>
        /\ covered(w.of, w.copied, ToSet(w.left))
        /\ w.stage = "script" => w.copied = {}
        /\ w.stage = "payloads" => /\ files["desktop"].script = PS!generated(w.of)
                                   /\ \A n \in w.copied : files["desktop"].payload[n] = "good"

\* A recorded bundle is of one staging; one that passed the gate is there as recorded.
Recorded ==
  /\ recorded.script # PS!noProfile =>
       files["desktop"].script # PS!noProfile /\ covered(recorded.script.of, recorded.payloads, {})
  /\ gated = "passed" => recorded.script # PS!noProfile /\ PS!matches

\* A run of the script: alone, with an image, and where it has come to in its list.
contentAt(i, c) ==
  LET n == PS!list[i].id IN IF image.payload[n] # "none" THEN image.payload[n] ELSE c[n]
Goes(r, c) ==
  /\ r.at \in 1 .. Len(PS!list) + 1
  /\ r.seen = {PS!list[j].id : j \in 1 .. r.at - 1}
  /\ r.stage # "verify" => r.at <= Len(PS!list)
  /\ r.stage \in {"install", "installing"} /\ PS!needsPayload(PS!list[r.at]) => contentAt(r.at, c) = "good"
RunState ==
  [stage : {"verify", "payload", "network", "install", "installing"}, at : Nat, attempt : Nat,
   network : BOOLEAN, seen : SUBSET Names]
Logon ==
  /\ runs \in [PS!Starts -> {PS!rest} \cup RunState]
  /\ \A s \in PS!Starts : runs[s] # PS!rest =>
       image # PS!nothing /\ mutex /\ (\A t \in PS!Starts \ {s} : runs[t] = PS!rest) /\ Goes(runs[s], cache)

\* PS!TypeOK one by one.
Stock ==
  /\ profile \in Profiles /\ source \in [Names -> PS!contents] /\ cache \in [Names -> PS!contents]
  /\ marker \in [Names -> {"none", "installing", "installed", "failed", "unreadable"}]
  /\ \A n \in programs : n \in Names
  /\ troubles \in Nat /\ troubles <= MaxTroubles /\ stagings \in Nat /\ stagings <= MaxStagings
Held == task \in BOOLEAN /\ mutex \in BOOLEAN

PackagesInv ==
  Stock /\ Held /\ Bench /\ Imaged /\ Staging /\ Recorded /\ PS!ImageIsComplete /\ Logon

HelperInv ==
  /\ OC!TypeOK /\ OC!ReadyIsVerified
  /\ callers <= calls /\ requests <= calls
  /\ attempt = "verify" => path

\* OC!TypeOK one by one, and what holds with it.
HelperFlags ==
  /\ authorized \in BOOLEAN /\ shuttingDown \in BOOLEAN /\ path \in BOOLEAN /\ verified \in BOOLEAN
  /\ setup = "Ready" => verified /\ path
  /\ attempt = "verify" => path
HelperPlaces ==
  /\ \A p \in machine : p \in OC!programs
  /\ setup \in {"Absent", "Installing", "Verifying", "Ready", "Failed"}
  /\ attempt \in {"none", "winget", "npm", "verify"} /\ request \in {"none", "running", "overdue"}
  /\ calls \in Nat /\ calls <= MaxCalls /\ changes \in Nat /\ changes <= MaxChanges
  /\ callers \in Nat /\ callers <= calls /\ requests \in Nat /\ requests <= calls
HelperFacts == HelperFlags /\ HelperPlaces

LEMMA HelperParts ==
  /\ HelperInv => HelperFacts
  /\ HelperFacts => HelperInv
  /\ HelperFacts' => HelperInv'
<1>1. HelperInv => HelperFacts
  <2> SUFFICES ASSUME HelperInv PROVE HelperFacts
    OBVIOUS
  <2>1. /\ authorized \in BOOLEAN /\ shuttingDown \in BOOLEAN /\ path \in BOOLEAN /\ verified \in BOOLEAN
        /\ \A p \in machine : p \in OC!programs
    BY DEF HelperInv, OC!TypeOK
  <2>2. /\ calls \in 0 .. MaxCalls /\ changes \in 0 .. MaxChanges /\ callers \in 0 .. MaxCalls
        /\ requests \in 0 .. MaxCalls /\ callers <= calls /\ requests <= calls
    BY DEF HelperInv, OC!TypeOK
  <2>3. /\ calls \in Nat /\ calls <= MaxCalls /\ changes \in Nat /\ changes <= MaxChanges
        /\ callers \in Nat /\ requests \in Nat
    BY <2>2, BoundsAssumption
  <2>4. /\ setup \in {"Absent", "Installing", "Verifying", "Ready", "Failed"}
        /\ attempt \in {"none", "winget", "npm", "verify"} /\ request \in {"none", "running", "overdue"}
    BY DEF HelperInv, OC!TypeOK
  <2>5. (setup = "Ready" => verified /\ path) /\ (attempt = "verify" => path)
    BY DEF HelperInv, OC!ReadyIsVerified, OC!ready
  <2> QED
    BY <2>1, <2>2, <2>3, <2>4, <2>5 DEF HelperFacts, HelperFlags, HelperPlaces
<1>2. HelperFacts => HelperInv
  <2> SUFFICES ASSUME HelperFacts PROVE HelperInv
    OBVIOUS
  <2>1. {authorized, shuttingDown, path, verified} \subseteq BOOLEAN /\ machine \subseteq OC!programs
    BY DEF HelperFacts, HelperFlags, HelperPlaces
  <2>2. /\ callers \in 0 .. MaxCalls /\ requests \in 0 .. MaxCalls
        /\ calls \in 0 .. MaxCalls /\ changes \in 0 .. MaxChanges
    BY BoundsAssumption DEF HelperFacts, HelperFlags, HelperPlaces
  <2> QED
    BY <2>1, <2>2 DEF HelperFacts, HelperFlags, HelperPlaces, HelperInv, OC!TypeOK, OC!ReadyIsVerified, OC!ready
<1>3. HelperFacts' => HelperInv'
  <2> SUFFICES ASSUME HelperFacts' PROVE HelperInv'
    OBVIOUS
  <2>1. {authorized', shuttingDown', path', verified'} \subseteq BOOLEAN /\ machine' \subseteq OC!programs
    BY DEF HelperFacts, HelperFlags, HelperPlaces
  <2>2. /\ callers' \in 0 .. MaxCalls /\ requests' \in 0 .. MaxCalls
        /\ calls' \in 0 .. MaxCalls /\ changes' \in 0 .. MaxChanges
    BY BoundsAssumption DEF HelperFacts, HelperFlags, HelperPlaces
  <2> QED
    BY <2>1, <2>2 DEF HelperFacts, HelperFlags, HelperPlaces, HelperInv, OC!TypeOK, OC!ReadyIsVerified, OC!ready
<1> QED
  BY <1>1, <1>2, <1>3

LEMMA HelperBegins == OC!Init => HelperInv
<1> SUFFICES ASSUME OC!Init PROVE HelperFacts
  BY HelperParts
<1>1. HelperFlags
  BY DEF OC!Init, HelperFlags
<1>2. HelperPlaces
  BY BoundsAssumption DEF OC!Init, HelperPlaces
<1> QED
  BY <1>1, <1>2 DEF HelperFacts

\* However an attempt goes on: nobody is ready by that, and no more callers wait.
LEMMA AttemptGoesOn ==
  ASSUME NEW found, NEW waiting \in Nat,
         \/ OC!startVerification(found, waiting) \/ OC!startNpmInstall(found, waiting)
         \/ OC!startAttempt(waiting) \/ OC!finishFailed(waiting)
  PROVE  /\ setup' \in {"Installing", "Verifying", "Failed"} /\ attempt' \in {"none", "winget", "npm", "verify"}
         /\ path' \in BOOLEAN /\ verified' = FALSE /\ callers' \in {0, waiting}
         /\ attempt' = "verify" => path'
<1>1. CASE OC!startVerification(found, waiting) \/ OC!startNpmInstall(found, waiting) \/ OC!finishFailed(waiting)
  BY <1>1 DEF OC!startVerification, OC!startNpmInstall, OC!finishFailed, OC!install
<1>2. CASE OC!startAttempt(waiting)
  BY <1>2 DEF OC!startAttempt, OC!startVerification, OC!finishFailed, OC!install
<1> QED
  BY <1>1, <1>2

LEMMA HelperStep == HelperInv /\ [OC!Next]_helper => HelperInv'
<1> SUFFICES ASSUME HelperInv, [OC!Next]_helper PROVE HelperFacts'
  BY HelperParts
<1>0. HelperFacts
  BY HelperParts
<1>1. CASE UNCHANGED helper
  BY <1>0, <1>1 DEF helper, HelperFacts, HelperFlags, HelperPlaces
<1>2. CASE OC!EnsureReady
  <2>1. /\ calls' = calls + 1 /\ calls < MaxCalls /\ authorized' \in BOOLEAN
        /\ UNCHANGED <<machine, shuttingDown, requests, request, changes>>
        /\ OC!ensureReady \/ UNCHANGED <<setup, attempt, path, callers, verified>>
    BY <1>0, <1>2 DEF OC!EnsureReady, OC!asking, OC!attempts, HelperFacts, HelperFlags, HelperPlaces
  <2>2. callers + 1 \in Nat
    BY <1>0 DEF HelperFacts, HelperFlags, HelperPlaces
  <2>3. /\ setup' \in {"Absent", "Installing", "Verifying", "Ready", "Failed"}
        /\ attempt' \in {"none", "winget", "npm", "verify"}
        /\ path' \in BOOLEAN /\ verified' \in BOOLEAN /\ callers' \in {0, callers, callers + 1}
        /\ attempt' = "verify" => path'
        /\ setup' = "Ready" => verified' /\ path'
    <3>1. CASE UNCHANGED <<setup, attempt, path, callers, verified>>
      BY <1>0, <3>1 DEF HelperFacts, HelperFlags, HelperPlaces
    <3>2. CASE OC!ensureReady
      <4>1. CASE OC!startAttempt(callers + 1)
        BY <2>2, <4>1, AttemptGoesOn
      <4>2. CASE ~OC!startAttempt(callers + 1)
        BY <1>0, <3>2, <4>2 DEF OC!ensureReady, OC!ready, OC!busy, HelperFacts, HelperFlags, HelperPlaces
      <4> QED
        BY <4>1, <4>2
    <3> QED
      BY <2>1, <3>1, <3>2
  <2>4. HelperFlags'
    BY <1>0, <2>1, <2>3 DEF HelperFacts, HelperFlags
  <2>5. HelperPlaces'
    BY <1>0, <2>1, <2>3, BoundsAssumption DEF HelperFacts, HelperPlaces
  <2> QED
    BY <2>4, <2>5 DEF HelperFacts
<1>3. CASE OC!ProcessEnds
  <2>1. /\ UNCHANGED <<authorized, shuttingDown, requests, request, calls, changes>>
        /\ machine' \in {machine, machine \cup {"npm"}, machine \cup {"opencode"}}
        /\ \/ OC!finishFailed(callers) \/ OC!winGetEnds \/ OC!npmEnds
           \/ attempt = "verify" /\ OC!finishReady
    <3>1. /\ UNCHANGED <<authorized, shuttingDown, requests, request, calls, changes>>
          /\ \/ OC!finishFailed(callers) /\ machine' = machine
             \/ machine' \in {machine, machine \cup {"npm"}} /\ OC!winGetEnds
             \/ machine' \in {machine, machine \cup {"opencode"}} /\ OC!npmEnds
             \/ attempt = "verify" /\ OC!finishReady /\ machine' = machine
      BY <1>3 DEF OC!ProcessEnds, OC!asking
    <3> QED
      BY <3>1
  <2>2. callers \in Nat
    BY <1>0 DEF HelperFacts, HelperFlags, HelperPlaces
  <2>3. \A p \in machine' : p \in OC!programs
    BY <1>0, <2>1 DEF HelperFacts, HelperFlags, HelperPlaces, OC!programs
  <2>4. CASE OC!finishFailed(callers) \/ OC!winGetEnds \/ OC!npmEnds
    <3>1. /\ setup' \in {"Installing", "Verifying", "Failed"} /\ attempt' \in {"none", "winget", "npm", "verify"}
          /\ path' \in BOOLEAN /\ verified' = FALSE /\ callers' \in {0, callers}
          /\ attempt' = "verify" => path'
      BY <2>2, <2>4, AttemptGoesOn DEF OC!winGetEnds, OC!npmEnds
    <3>2. HelperFlags'
      BY <1>0, <2>1, <3>1 DEF HelperFacts, HelperFlags
    <3>3. HelperPlaces'
      BY <1>0, <2>1, <2>3, <3>1 DEF HelperFacts, HelperPlaces
    <3> QED
      BY <3>2, <3>3 DEF HelperFacts
  <2>5. CASE attempt = "verify" /\ OC!finishReady
    BY <1>0, <2>1, <2>3, <2>5 DEF HelperFacts, HelperFlags, HelperPlaces, OC!finishReady
  <2> QED
    BY <2>1, <2>4, <2>5
<1>4. CASE OC!MachineChanges
  <2>1. \A p \in machine' : p \in OC!programs
    BY <1>0, <1>4 DEF OC!MachineChanges, HelperFacts, HelperFlags, HelperPlaces
  <2>2. /\ changes' = changes + 1 /\ changes < MaxChanges
        /\ UNCHANGED <<setup, attempt, path, callers, verified, authorized, shuttingDown, requests, request, calls>>
    BY <1>4 DEF OC!MachineChanges, OC!attempts, OC!asking
  <2>3. changes' \in Nat /\ changes' <= MaxChanges
    BY <1>0, <2>2, BoundsAssumption DEF HelperFacts, HelperFlags, HelperPlaces
  <2> QED
    BY <1>0, <2>1, <2>2, <2>3 DEF HelperFacts, HelperFlags, HelperPlaces
<1>5. CASE OC!Shutdown
  BY <1>0, <1>5 DEF OC!Shutdown, HelperFacts, HelperFlags, HelperPlaces
<1>6. CASE OC!RunOpenCode \/ OC!RequestOverdue \/ OC!RequestEnds
  <2>1. /\ UNCHANGED <<machine, setup, attempt, path, callers, verified, authorized, shuttingDown, changes>>
        /\ \/ calls' = calls + 1 /\ calls < MaxCalls /\ requests' \in {requests, requests + 1, requests + 1 - 1, 0}
           \/ calls' = calls /\ requests' \in {requests, 0}
           \/ calls' = calls /\ requests > 0 /\ requests' = requests - 1
        /\ request' \in {request, "none", "running", "overdue"}
    BY <1>0, <1>6 DEF OC!RunOpenCode, OC!RequestOverdue, OC!RequestEnds, OC!processNext, OC!attempts, OC!asking,
                      HelperFacts, HelperFlags, HelperPlaces
  <2>2. /\ calls' \in Nat /\ calls' <= MaxCalls /\ requests' \in Nat /\ requests' <= calls' /\ callers <= calls'
        /\ request' \in {"none", "running", "overdue"}
    BY <1>0, <2>1, BoundsAssumption DEF HelperFacts, HelperFlags, HelperPlaces
  <2> QED
    BY <1>0, <2>1, <2>2 DEF HelperFacts, HelperFlags, HelperPlaces
<1> QED
  BY <1>1, <1>2, <1>3, <1>4, <1>5, <1>6 DEF OC!Next

-----------------------------------------------------------------------------
\* A set of natural numbers has a least member.
LEMMA Least ==
  ASSUME NEW S \in SUBSET Nat, S # {}
  PROVE  \E m \in S : \A k \in S : m <= k
<1>1. SUFFICES ASSUME \A m \in S : \E k \in S : k < m
               PROVE  FALSE
  OBVIOUS
<1>2. PICK n \in S : TRUE
  OBVIOUS
<1> DEFINE above == {m \in 0 .. n : \E k \in S : k <= m}
           down == [m \in above |-> m - 1]
<1>3. IsFiniteSet(above) /\ n \in above
  <2>1. n \in Int /\ 0 \in Int /\ above \in SUBSET (0 .. n) /\ n \in above
    BY <1>2
  <2> HIDE DEF above
  <2>2. IsFiniteSet(0 .. n)
    BY <2>1, FS_Interval
  <2> QED
    BY <2>1, <2>2, FS_Subset
<1>4. down \in Injection(above, above)
  <2>1. ASSUME NEW m \in above PROVE m - 1 \in above
    BY <1>1
  <2> QED
    BY <2>1 DEF Injection, IsInjective
<1>5. down \in Surjection(above, above)
  <2> HIDE DEF down, above
  <2> QED
    BY <1>3, <1>4, FS_Injection
<1>6. PICK m \in above : down[m] = n
  BY <1>3, <1>5 DEF Surjection
<1> QED
  BY <1>6

-----------------------------------------------------------------------------
Ids(p) == PS!identifiers(p)
Needs(p, n) == PS!entry(p, n).dependencies

\* The identifiers are finitely many, and dependencies lead from one to others.
Tidy(p) ==
  /\ IsFiniteSet(Ids(p))
  /\ \A n \in Ids(p) : Needs(p, n) \in Seq(Ids(p))

Mark(p) == [order : Seq(Ids(p)), cycle : BOOLEAN]
Visit(p) == [path : SUBSET Ids(p), list : Seq(Ids(p)), done : Mark(p)]

\* A visit ends, passes over a package that is in the order, closes a cycle, or enters
\* the first package of its list.
Ends(v) == v.list = <<>> \/ v.done.cycle
Met(v) == ~Ends(v) /\ Head(v.list) \in ToSet(v.done.order)
Closes(v) == ~Ends(v) /\ Head(v.list) \notin ToSet(v.done.order) /\ Head(v.list) \in v.path
Enters(v) == ~Ends(v) /\ Head(v.list) \notin ToSet(v.done.order) /\ Head(v.list) \notin v.path

Others(v, d) == [path |-> v.path, list |-> Tail(v.list), done |-> d]
Within(p, v) == [path |-> v.path \cup {Head(v.list)}, list |-> Needs(p, Head(v.list)), done |-> v.done]
Added(v, d) == [d EXCEPT !.order = Append(@, Head(v.list))]
Looped(v) == [v.done EXCEPT !.cycle = TRUE]

\* The calls a visit makes are of packages that leave fewer to enter, or of the rest of
\* its list.
Unvisited(p, v) == Cardinality(Ids(p) \ v.path)
Earlier(p, u, v) ==
  \/ Unvisited(p, u) < Unvisited(p, v)
  \/ Unvisited(p, u) = Unvisited(p, v) /\ Len(u.list) < Len(v.list)

LEMMA VisitTypes ==
  ASSUME NEW p, Tidy(p), NEW v \in Visit(p)
  PROVE  /\ v.path \in SUBSET Ids(p) /\ v.list \in Seq(Ids(p)) /\ Len(v.list) \in Nat
         /\ v.done \in Mark(p) /\ v.done.order \in Seq(Ids(p)) /\ v.done.cycle \in BOOLEAN
         /\ IsFiniteSet(Ids(p) \ v.path) /\ Unvisited(p, v) \in Nat
         /\ Looped(v) \in Mark(p)
         /\ ~Ends(v) => /\ Head(v.list) \in Ids(p) /\ Tail(v.list) \in Seq(Ids(p))
                        /\ Len(Tail(v.list)) < Len(v.list)
                        /\ ToSet(v.list) = {Head(v.list)} \cup ToSet(Tail(v.list))
<1>1. /\ v.path \in SUBSET Ids(p) /\ v.list \in Seq(Ids(p)) /\ Len(v.list) \in Nat
      /\ v.done \in Mark(p) /\ v.done.order \in Seq(Ids(p)) /\ v.done.cycle \in BOOLEAN
  BY DEF Visit, Mark
<1>2. IsFiniteSet(Ids(p) \ v.path) /\ Unvisited(p, v) \in Nat
  <2>1. IsFiniteSet(Ids(p)) /\ Ids(p) \ v.path \in SUBSET Ids(p)
    BY DEF Tidy
  <2> QED
    BY <2>1, FS_Subset, FS_CardinalityType DEF Unvisited
<1>3. Looped(v) \in Mark(p)
  BY <1>1 DEF Looped, Mark
<1>4. ASSUME ~Ends(v)
      PROVE  /\ Head(v.list) \in Ids(p) /\ Tail(v.list) \in Seq(Ids(p))
             /\ Len(Tail(v.list)) < Len(v.list)
             /\ ToSet(v.list) = {Head(v.list)} \cup ToSet(Tail(v.list))
  <2> DEFINE l == v.list
  <2>1. l \in Seq(Ids(p)) /\ l # <<>>
    BY <1>1, <1>4 DEF Ends
  <2> HIDE DEF l
  <2>2. Len(l) \in Nat /\ Len(l) # 0 /\ \A i \in 1 .. Len(l) : l[i] \in Ids(p)
    BY <2>1
  <2>3. Head(l) = l[1] /\ Head(l) \in Ids(p) /\ Tail(l) \in Seq(Ids(p)) /\ Len(Tail(l)) = Len(l) - 1
        /\ \A i \in 1 .. Len(Tail(l)) : Tail(l)[i] = l[i + 1]
    BY <2>1, <2>2
  <2>4. ASSUME NEW i \in 1 .. Len(l)
        PROVE  l[i] = Head(l) \/ l[i] \in ToSet(Tail(l))
    <3>1. CASE i = 1
      BY <2>3, <3>1
    <3>2. CASE i # 1
      <4>1. i - 1 \in 1 .. Len(Tail(l)) /\ Tail(l)[i - 1] = l[(i - 1) + 1] /\ (i - 1) + 1 = i
        BY <2>2, <2>3, <3>2
      <4>2. i - 1 \in DOMAIN Tail(l) /\ Tail(l)[i - 1] = l[i]
        BY <2>3, <4>1
      <4> QED
        BY <4>2 DEF ToSet
    <3> QED
      BY <3>1, <3>2
  <2>5. ASSUME NEW i \in 1 .. Len(Tail(l))
        PROVE  Tail(l)[i] \in ToSet(l)
    BY <2>1, <2>2, <2>3 DEF ToSet
  <2>6. 1 \in DOMAIN l /\ DOMAIN l = 1 .. Len(l) /\ DOMAIN Tail(l) = 1 .. Len(Tail(l))
    BY <2>1, <2>2, <2>3
  <2>7. ToSet(l) = {Head(l)} \cup ToSet(Tail(l))
    BY <2>3, <2>4, <2>5, <2>6 DEF ToSet
  <2> QED
    BY <2>2, <2>3, <2>7 DEF l
<1> QED
  BY <1>1, <1>2, <1>3, <1>4

LEMMA CallsAreEarlier ==
  ASSUME NEW p, Tidy(p), NEW v \in Visit(p), ~Ends(v)
  PROVE  /\ \A d \in Mark(p) : Others(v, d) \in Visit(p) /\ Earlier(p, Others(v, d), v)
         /\ \A d \in Mark(p) : Added(v, d) \in Mark(p)
         /\ Enters(v) => Within(p, v) \in Visit(p) /\ Earlier(p, Within(p, v), v)
<1>1. /\ v.path \in SUBSET Ids(p) /\ v.done \in Mark(p) /\ IsFiniteSet(Ids(p) \ v.path) /\ Unvisited(p, v) \in Nat
      /\ Head(v.list) \in Ids(p) /\ Tail(v.list) \in Seq(Ids(p)) /\ Len(Tail(v.list)) < Len(v.list)
  BY VisitTypes
<1>2. ASSUME NEW d \in Mark(p)
      PROVE  Others(v, d) \in Visit(p) /\ Earlier(p, Others(v, d), v) /\ Added(v, d) \in Mark(p)
  <2>1. Others(v, d) \in Visit(p)
    BY <1>1 DEF Others, Visit
  <2>2. Others(v, d).path = v.path /\ Others(v, d).list = Tail(v.list)
    BY DEF Others
  <2>3. Earlier(p, Others(v, d), v)
    <3>1. Unvisited(p, Others(v, d)) = Unvisited(p, v)
      BY <2>2, Zenon DEF Unvisited
    <3>2. Len(Others(v, d).list) < Len(v.list)
      BY <1>1, <2>2
    <3> QED
      BY <3>1, <3>2 DEF Earlier
  <2>4. Added(v, d) \in Mark(p)
    <3>1. d = [order |-> d.order, cycle |-> d.cycle] /\ d.order \in Seq(Ids(p)) /\ d.cycle \in BOOLEAN
      BY DEF Mark
    <3>2. Append(d.order, Head(v.list)) \in Seq(Ids(p))
      BY <1>1, <3>1
    <3> QED
      BY <3>1, <3>2 DEF Added, Mark
  <2> QED
    BY <2>1, <2>3, <2>4
<1>3. ASSUME Enters(v)
      PROVE  Within(p, v) \in Visit(p) /\ Earlier(p, Within(p, v), v)
  <2>1. Within(p, v) \in Visit(p)
    BY <1>1 DEF Within, Visit, Tidy
  <2> DEFINE n == Head(v.list)
             open == Ids(p) \ v.path
  <2>2. n \in open
    BY <1>1, <1>3 DEF Enters
  <2>3. Unvisited(p, Within(p, v)) = Cardinality(open \ {n})
    <3>1. Within(p, v).path = v.path \cup {n}
      BY DEF Within
    <3>2. Ids(p) \ (v.path \cup {n}) = open \ {n}
      OBVIOUS
    <3> QED
      BY <3>1, <3>2, Zenon DEF Unvisited
  <2>4. Unvisited(p, v) = Cardinality(open) /\ IsFiniteSet(open)
    BY <1>1 DEF Unvisited
  <2> HIDE DEF n, open
  <2>5. Cardinality(open \ {n}) = Cardinality(open) - 1
    BY <2>2, <2>4, FS_RemoveElement
  <2> QED
    BY <1>1, <2>1, <2>3, <2>4, <2>5 DEF Earlier
<1> QED
  BY <1>2, <1>3

\* Any visits have a first among them.
LEMMA FirstVisit ==
  ASSUME NEW p, Tidy(p), NEW S \in SUBSET Visit(p), S # {}
  PROVE  \E v \in S : \A u \in S : ~Earlier(p, u, v)
<1> DEFINE sizes == {Unvisited(p, v) : v \in S}
<1>1. \A v \in S : Unvisited(p, v) \in Nat /\ Len(v.list) \in Nat
  BY VisitTypes
<1>2. PICK m \in sizes : \A k \in sizes : m <= k
  <2>1. sizes \in SUBSET Nat /\ sizes # {}
    BY <1>1
  <2> HIDE DEF sizes
  <2> QED
    BY <2>1, Least
<1> DEFINE lengths == {Len(v.list) : v \in {u \in S : Unvisited(p, u) = m}}
<1>3. PICK l \in lengths : \A k \in lengths : l <= k
  <2>1. lengths \in SUBSET Nat /\ lengths # {}
    BY <1>1, <1>2
  <2> HIDE DEF lengths
  <2> QED
    BY <2>1, Least
<1>4. PICK v \in S : Unvisited(p, v) = m /\ Len(v.list) = l
  BY <1>3
<1>5. ASSUME NEW u \in S, Earlier(p, u, v)
      PROVE  FALSE
  <2>1. Unvisited(p, u) \in Nat /\ Len(u.list) \in Nat /\ m \in Nat /\ l \in Nat
    BY <1>1, <1>4
  <2>2. m <= Unvisited(p, u)
    BY <1>2
  <2>3. Unvisited(p, u) = m /\ Len(u.list) < l
    BY <1>4, <1>5, <2>1, <2>2 DEF Earlier
  <2>4. l <= Len(u.list)
    BY <1>3, <2>3
  <2> QED
    BY <2>1, <2>3, <2>4
<1> QED
  BY <1>4, <1>5

-----------------------------------------------------------------------------
\* f answers as the code does, and has the answers that it needs for that.
Answers(p, f, v) ==
  /\ Ends(v) => f[v] = v.done
  /\ Met(v) => Others(v, v.done) \in DOMAIN f /\ f[v] = f[Others(v, v.done)]
  /\ Closes(v) => f[v] = Looped(v)
  /\ Enters(v) =>
       LET next == Others(v, Added(v, f[Within(p, v)]))
       IN  Within(p, v) \in DOMAIN f /\ next \in DOMAIN f /\ f[v] = f[next]

Part(p, f) ==
  /\ f \in [DOMAIN f -> Mark(p)] /\ DOMAIN f \subseteq Visit(p)
  /\ \A v \in DOMAIN f : Answers(p, f, v)

\* Two parts say the same of a visit both speak of.
LEMMA PartsAgree ==
  ASSUME NEW p, Tidy(p), NEW f, NEW g, Part(p, f), Part(p, g)
  PROVE  \A v \in DOMAIN f \cap DOMAIN g : f[v] = g[v]
<1> DEFINE S == {v \in DOMAIN f \cap DOMAIN g : f[v] # g[v]}
<1> SUFFICES ASSUME S # {} PROVE FALSE
  OBVIOUS
<1>1. PICK v \in S : \A u \in S : ~Earlier(p, u, v)
  <2>1. S \in SUBSET Visit(p)
    BY DEF Part
  <2> HIDE DEF S
  <2> QED
    BY <2>1, FirstVisit
<1>2. v \in Visit(p) /\ Answers(p, f, v) /\ Answers(p, g, v) /\ f[v] # g[v]
  BY DEF Part
<1>3. \A u \in DOMAIN f \cap DOMAIN g : Earlier(p, u, v) => f[u] = g[u]
  BY <1>1
<1>4. CASE Ends(v)
  BY <1>2, <1>4 DEF Answers
<1>5. CASE Met(v)
  <2>1. ~Ends(v) /\ v.done \in Mark(p)
    BY <1>2, <1>5, VisitTypes DEF Met
  <2>2. Earlier(p, Others(v, v.done), v)
    BY <1>2, <2>1, CallsAreEarlier
  <2> QED
    BY <1>2, <1>3, <1>5, <2>2 DEF Answers
<1>6. CASE Closes(v)
  BY <1>2, <1>6 DEF Answers
<1>7. CASE Enters(v)
  <2> DEFINE w == Within(p, v)
  <2>1. ~Ends(v)
    BY <1>7 DEF Enters
  <2>2. w \in DOMAIN f /\ w \in DOMAIN g /\ Earlier(p, w, v)
    BY <1>2, <1>7, <2>1, CallsAreEarlier DEF Answers
  <2>3. f[w] = g[w] /\ f[w] \in Mark(p)
    BY <1>3, <2>2 DEF Part
  <2> DEFINE next == Others(v, Added(v, f[w]))
  <2>4. next \in DOMAIN f /\ next \in DOMAIN g /\ f[v] = f[next] /\ g[v] = g[next]
    BY <1>2, <1>7, <2>3 DEF Answers
  <2>5. Earlier(p, next, v)
    BY <1>2, <2>1, <2>3, CallsAreEarlier
  <2> QED
    BY <1>2, <1>3, <2>4, <2>5
<1> QED
  BY <1>2, <1>4, <1>5, <1>6, <1>7 DEF Met, Closes, Enters

\* What the parts together say.
Covered(p) == {v \in Visit(p) : \E f : Part(p, f) /\ v \in DOMAIN f}
Joint(p) ==
  [v \in Covered(p) |-> CHOOSE r : \E f : Part(p, f) /\ v \in DOMAIN f /\ f[v] = r]

LEMMA JointIsPart ==
  ASSUME NEW p, Tidy(p)
  PROVE  Part(p, Joint(p)) /\ DOMAIN Joint(p) = Covered(p)
<1> DEFINE F == Joint(p)
<1>1. ASSUME NEW f, Part(p, f), NEW v \in DOMAIN f
      PROVE  v \in Covered(p) /\ F[v] = f[v]
  <2>1. v \in Covered(p)
    BY <1>1 DEF Covered, Part
  <2> DEFINE Said(r) == \E g : Part(p, g) /\ v \in DOMAIN g /\ g[v] = r
  <2>2. F[v] = CHOOSE r : Said(r)
    BY <2>1 DEF Joint
  <2>3. Said(f[v])
    BY <1>1
  <2>4. \A r : Said(r) => r = f[v]
    BY <1>1, PartsAgree
  <2> HIDE DEF Said, F
  <2>5. Said(CHOOSE r : Said(r))
    BY <2>3, Zenon
  <2> QED
    BY <2>1, <2>2, <2>4, <2>5
<1>2. DOMAIN F = Covered(p)
  BY DEF Joint
<1>3. ASSUME NEW v \in Covered(p)
      PROVE  F[v] \in Mark(p) /\ Answers(p, F, v)
  <2>1. PICK f : Part(p, f) /\ v \in DOMAIN f
    BY DEF Covered
  <2>2. Answers(p, f, v) /\ f[v] \in Mark(p)
    BY <2>1 DEF Part
  <2>3. \A u \in DOMAIN f : u \in DOMAIN F /\ F[u] = f[u]
    BY <1>1, <1>2, <2>1
  <2> HIDE DEF F
  <2>4. Answers(p, F, v)
    BY <2>1, <2>2, <2>3 DEF Answers
  <2> QED
    BY <2>1, <2>2, <2>3, <2>4
<1>4. F \in [DOMAIN F -> Mark(p)]
  BY <1>2, <1>3 DEF Joint
<1>5. Covered(p) \subseteq Visit(p)
  BY DEF Covered
<1> HIDE DEF F
<1>6. Part(p, F)
  BY <1>2, <1>3, <1>4, <1>5 DEF Part
<1> QED
  BY <1>2, <1>6 DEF F

\* The parts speak of every visit: what calls earlier ones only can be added to a part.
LEMMA EveryVisit ==
  ASSUME NEW p, Tidy(p)
  PROVE  Covered(p) = Visit(p)
<1> DEFINE F == Joint(p)
           S == Visit(p) \ Covered(p)
<1>1. Part(p, F) /\ DOMAIN F = Covered(p)
  BY JointIsPart
<1>2. Covered(p) \subseteq Visit(p)
  BY DEF Covered
<1> SUFFICES ASSUME S # {} PROVE FALSE
  BY <1>2
<1>3. PICK v \in S : \A u \in S : ~Earlier(p, u, v)
  BY FirstVisit
<1>4. \A u \in Visit(p) : Earlier(p, u, v) => u \in DOMAIN F
  BY <1>1, <1>3
<1>5. v \in Visit(p) /\ v \notin DOMAIN F /\ v.done \in Mark(p) /\ Looped(v) \in Mark(p)
  BY <1>1, VisitTypes
<1> DEFINE answer == IF Ends(v) THEN v.done
                     ELSE IF Head(v.list) \in ToSet(v.done.order) THEN F[Others(v, v.done)]
                     ELSE IF Head(v.list) \in v.path THEN Looped(v)
                     ELSE F[Others(v, Added(v, F[Within(p, v)]))]
           G == [u \in DOMAIN F \cup {v} |-> IF u = v THEN answer ELSE F[u]]
<1> HIDE DEF F, S
<1>6. Met(v) => Others(v, v.done) \in DOMAIN F
  BY <1>4, <1>5, CallsAreEarlier DEF Met
<1>7. Enters(v) => Within(p, v) \in DOMAIN F /\ Others(v, Added(v, F[Within(p, v)])) \in DOMAIN F
  <2> SUFFICES ASSUME Enters(v) PROVE Within(p, v) \in DOMAIN F /\ Others(v, Added(v, F[Within(p, v)])) \in DOMAIN F
    OBVIOUS
  <2>1. ~Ends(v)
    BY DEF Enters
  <2>2. Within(p, v) \in DOMAIN F
    BY <1>4, <1>5, <2>1, CallsAreEarlier
  <2>3. F[Within(p, v)] \in Mark(p)
    BY <1>1, <2>2 DEF Part
  <2> QED
    BY <1>4, <1>5, <2>1, <2>2, <2>3, CallsAreEarlier
<1>8. answer \in Mark(p)
  <2>1. \A u \in DOMAIN F : F[u] \in Mark(p)
    BY <1>1 DEF Part
  <2> QED
    BY <1>5, <1>6, <1>7, <2>1 DEF Met, Enters
<1>9. /\ DOMAIN G = DOMAIN F \cup {v} /\ G[v] = answer
      /\ \A u \in DOMAIN F : u \in DOMAIN G /\ G[u] = F[u]
  BY <1>5
<1>10. \A u \in DOMAIN F : Answers(p, F, u)
  BY <1>1 DEF Part
<1>11. Answers(p, G, v)
  <2>1. Ends(v) => G[v] = v.done
    BY <1>9
  <2>2. Met(v) => Others(v, v.done) \in DOMAIN G /\ G[v] = G[Others(v, v.done)]
    BY <1>6, <1>9 DEF Met
  <2>3. Closes(v) => G[v] = Looped(v)
    BY <1>9 DEF Closes
  <2>4. ASSUME Enters(v)
        PROVE  LET next == Others(v, Added(v, G[Within(p, v)]))
               IN  Within(p, v) \in DOMAIN G /\ next \in DOMAIN G /\ G[v] = G[next]
    <3>1. G[Within(p, v)] = F[Within(p, v)] /\ Within(p, v) \in DOMAIN G
      BY <1>7, <1>9, <2>4
    <3>2. answer = F[Others(v, Added(v, F[Within(p, v)]))]
      BY <2>4 DEF Enters
    <3> HIDE DEF G, answer
    <3> QED
      BY <1>7, <1>9, <2>4, <3>1, <3>2
  <2> HIDE DEF G, answer
  <2> QED
    BY <2>1, <2>2, <2>3, <2>4 DEF Answers
<1>12. ASSUME NEW u \in DOMAIN F
       PROVE  Answers(p, G, u)
  <2> HIDE DEF G, answer
  <2> QED
    BY <1>9, <1>10 DEF Answers
<1>13. G \in [DOMAIN G -> Mark(p)]
  <2>1. \A u \in DOMAIN F : F[u] \in Mark(p)
    BY <1>1 DEF Part
  <2> HIDE DEF answer
  <2> QED
    BY <1>8, <2>1
<1>14. Part(p, G)
  <2> HIDE DEF answer, G
  <2> QED
    BY <1>1, <1>2, <1>5, <1>9, <1>11, <1>12, <1>13 DEF Part
<1>15. v \in Covered(p)
  <2> HIDE DEF answer, G
  <2> QED
    BY <1>5, <1>9, <1>14 DEF Covered
<1> QED
  BY <1>1, <1>5, <1>15

-----------------------------------------------------------------------------
\* kept lists the entries at the places, each once.
LEMMA KeptEntries ==
  ASSUME NEW n \in Nat, NEW places \in SUBSET (1..n), NEW l
  PROVE  LET N == Cardinality(places)
         IN  /\ N \in Nat /\ DOMAIN PS!kept(l, places) = 1..N
             /\ \A k \in 1..N : \E i \in places : PS!kept(l, places)[k] = l[i]
<1> DEFINE N == Cardinality(places)
           upTo(p) == {q \in places : q <= p}
           rank == [p \in places |-> Cardinality(upTo(p))]
           f == [k \in 1..N |-> CHOOSE p \in places : PS!Cardinality(upTo(p)) = k]
<1>0. \A S : PS!Cardinality(S) = Cardinality(S)
  BY DEF PS!Cardinality, Cardinality
<1>1. \A p \in places : p \in Int
  OBVIOUS
<1>2. IsFiniteSet(1..n) /\ IsFiniteSet(places) /\ N \in Nat
  <2>1. IsFiniteSet(1..n)
    BY 1 \in Int, n \in Int, FS_Interval
  <2>2. IsFiniteSet(places)
    BY <2>1, FS_Subset, Zenon
  <2> QED
    BY <2>1, <2>2, FS_CardinalityType
<1>3. IsFiniteSet(1..N) /\ Cardinality(1..N) = N
  BY <1>2, FS_Interval
<1>4. ASSUME NEW p \in places
      PROVE  IsFiniteSet(upTo(p)) /\ rank[p] \in 1..N
  <2>1. upTo(p) \in SUBSET places
    OBVIOUS
  <2>2. p \in upTo(p)
    OBVIOUS
  <2> HIDE DEF upTo
  <2>3. IsFiniteSet(upTo(p)) /\ Cardinality(upTo(p)) <= N /\ Cardinality(upTo(p)) \in Nat
    BY <1>2, <2>1, FS_Subset, FS_CardinalityType
  <2>4. Cardinality(upTo(p)) # 0
    BY <2>2, <2>3, FS_EmptySet
  <2> QED
    BY <2>3, <2>4
<1>5. \A p \in places : rank[p] \in Nat
  <2> SUFFICES ASSUME NEW p \in places PROVE rank[p] \in Nat
    OBVIOUS
  <2>1. rank[p] \in 1..N /\ N \in Nat
    BY <1>4, <1>2
  <2> HIDE DEF rank, N
  <2> QED
    BY <2>1
<1>6. ASSUME NEW p \in places, NEW q \in places, p < q
      PROVE  rank[p] < rank[q]
  <2>1. upTo(p) \in SUBSET upTo(q)
    <3>1. ASSUME NEW x \in places, x <= p PROVE x <= q
      <4>1. x \in Int /\ p \in Int /\ q \in Int
        BY <1>1
      <4> QED
        BY <3>1, <4>1, <1>6
    <3> QED
      BY <3>1
  <2>2. q \in upTo(q) /\ q \notin upTo(p)
    BY <1>6
  <2>3. IsFiniteSet(upTo(q)) /\ rank[p] \in Nat /\ rank[q] \in Nat
    BY <1>4, <1>2
  <2>4. rank[p] = Cardinality(upTo(p)) /\ rank[q] = Cardinality(upTo(q))
    OBVIOUS
  <2> HIDE DEF upTo, rank
  <2>5. Cardinality(upTo(p)) <= Cardinality(upTo(q)) /\ Cardinality(upTo(p)) # Cardinality(upTo(q))
    BY <2>1, <2>2, <2>3, FS_Subset, Zenon
  <2> QED
    BY <2>3, <2>4, <2>5
<1>7. rank \in Surjection(places, 1..N)
  <2>1. rank \in [places -> 1..N]
    BY <1>4
  <2>2. \A p, q \in places : rank[p] = rank[q] => p = q
    <3> SUFFICES ASSUME NEW p \in places, NEW q \in places, p # q
                 PROVE  rank[p] # rank[q]
      OBVIOUS
    <3>1. p < q \/ q < p
      BY <1>1
    <3>2. rank[p] \in Nat /\ rank[q] \in Nat
      BY <1>5
    <3> HIDE DEF rank
    <3> QED
      BY <3>1, <3>2, <1>6
  <2> HIDE DEF rank, N
  <2>3. rank \in Injection(places, 1..N)
    BY <2>1, <2>2 DEF Injection, IsInjective
  <2> QED
    BY <1>2, <1>3, <2>3, FS_Injection DEF N
<1>8. ASSUME NEW k \in 1..N
      PROVE  f[k] \in places /\ rank[f[k]] = k
  <2>1. PICK p \in places : rank[p] = k
    <3> HIDE DEF rank, N
    <3> QED
      BY <1>7 DEF Surjection
  <2>2. Cardinality(upTo(p)) = k
    BY <2>1
  <2>3. \A q \in places : rank[q] = Cardinality(upTo(q))
    OBVIOUS
  <2>4. f[k] = CHOOSE q \in places : PS!Cardinality(upTo(q)) = k
    OBVIOUS
  <2> HIDE DEF rank, upTo, f
  <2> QED
    BY <1>0, <2>2, <2>3, <2>4
<1>9. PS!kept(l, places) = [k \in 1..N |-> l[f[k]]]
  <2>1. N = PS!Cardinality(places)
    BY <1>0
  <2>2. PS!kept(l, places) =
          [k \in 1..PS!Cardinality(places) |->
            l[CHOOSE i \in places : PS!Cardinality({j \in places : j <= i}) = k]]
    BY DEF PS!kept
  <2> HIDE DEF N
  <2> QED
    BY <2>1, <2>2
<1> HIDE DEF f, N
<1> QED
  BY <1>2, <1>8, <1>9 DEF N

-----------------------------------------------------------------------------
First(p) ==
  [path |-> {}, list |-> [i \in DOMAIN PS!enabled(p) |-> PS!enabled(p)[i].id],
   done |-> [order |-> <<>>, cycle |-> FALSE]]

\* The equation of dependencyOrder's recursion.
Solves(f, p) ==
  f = [v \in Visit(p) |->
         LET n == Head(v.list)
             others(done) == f[[path |-> v.path, list |-> Tail(v.list), done |-> done]]
             within == f[[path |-> v.path \cup {n}, list |-> PS!entry(p, n).dependencies, done |-> v.done]]
         IN  IF v.list = <<>> \/ v.done.cycle THEN v.done
             ELSE IF n \in PS!ToSet(v.done.order) THEN others(v.done)
             ELSE IF n \in v.path THEN [v.done EXCEPT !.cycle = TRUE]
             ELSE others([within EXCEPT !.order = Append(@, n)])]

Answer(p, f, v) ==
  IF Ends(v) THEN v.done
  ELSE IF Head(v.list) \in ToSet(v.done.order) THEN f[Others(v, v.done)]
  ELSE IF Head(v.list) \in v.path THEN Looped(v)
  ELSE f[Others(v, Added(v, f[Within(p, v)]))]

LEMMA SolvesAnswers ==
  ASSUME NEW p, NEW f
  PROVE  Solves(f, p) <=> f = [v \in Visit(p) |-> Answer(p, f, v)]
<1>1. \A s : PS!ToSet(s) = ToSet(s)
  BY DEF PS!ToSet, ToSet
<1>2. ASSUME NEW v
      PROVE  Answer(p, f, v) =
               LET n == Head(v.list)
                   others(done) == f[[path |-> v.path, list |-> Tail(v.list), done |-> done]]
                   within == f[[path |-> v.path \cup {n}, list |-> PS!entry(p, n).dependencies, done |-> v.done]]
               IN  IF v.list = <<>> \/ v.done.cycle THEN v.done
                   ELSE IF n \in PS!ToSet(v.done.order) THEN others(v.done)
                   ELSE IF n \in v.path THEN [v.done EXCEPT !.cycle = TRUE]
                   ELSE others([within EXCEPT !.order = Append(@, n)])
  BY <1>1 DEF Answer, Ends, Others, Looped, Added, Within, Needs
<1> QED
  BY <1>2, Zenon DEF Solves

\* The recursion has a solution, and what solves it is a part.
LEMMA TheVisit ==
  ASSUME NEW p, Tidy(p)
  PROVE  \E f : Part(p, f) /\ DOMAIN f = Visit(p) /\ PS!visited(p) = f[First(p)]
<1>1. \E f : Solves(f, p)
  <2> DEFINE F == Joint(p)
  <2>1. Part(p, F) /\ DOMAIN F = Visit(p)
    BY JointIsPart, EveryVisit
  <2> HIDE DEF F
  <2>2. ASSUME NEW v \in Visit(p) PROVE F[v] = Answer(p, F, v)
    <3>1. Answers(p, F, v)
      BY <2>1 DEF Part
    <3> QED
      BY <3>1 DEF Answers, Answer, Met, Closes, Enters
  <2>3. F = [v \in Visit(p) |-> Answer(p, F, v)]
    BY <2>1, <2>2 DEF Part
  <2> QED
    BY <2>3, SolvesAnswers
<1> DEFINE f == CHOOSE f : Solves(f, p)
<1>2. PS!visited(p) = f[First(p)]
  BY DEF PS!visited, Solves, First, Visit, Mark, Ids
<1>3. Solves(f, p)
  BY <1>1, Zenon
<1> HIDE DEF f
<1>4. DOMAIN f = Visit(p) /\ \A v \in Visit(p) : f[v] = Answer(p, f, v)
  <2>1. f = [v \in Visit(p) |-> Answer(p, f, v)]
    BY <1>3, SolvesAnswers
  <2> DEFINE g == [v \in Visit(p) |-> Answer(p, f, v)]
  <2>2. DOMAIN g = Visit(p) /\ \A v \in Visit(p) : g[v] = Answer(p, f, v)
    OBVIOUS
  <2>3. f = g
    BY <2>1
  <2> HIDE DEF g
  <2> QED
    BY <2>2, <2>3
<1> DEFINE S == {v \in Visit(p) : f[v] \notin Mark(p)}
<1>5. S = {}
  <2> SUFFICES ASSUME S # {} PROVE FALSE
    OBVIOUS
  <2>1. PICK v \in S : \A u \in S : ~Earlier(p, u, v)
    <3>1. S \in SUBSET Visit(p)
      OBVIOUS
    <3> HIDE DEF S
    <3> QED
      BY <3>1, FirstVisit
  <2>2. v \in Visit(p) /\ f[v] \notin Mark(p) /\ f[v] = Answer(p, f, v)
    BY <1>4
  <2>3. \A u \in Visit(p) : Earlier(p, u, v) => f[u] \in Mark(p)
    BY <2>1
  <2>4. v.done \in Mark(p) /\ Looped(v) \in Mark(p)
    BY <2>2, VisitTypes
  <2>5. ~Ends(v)
    BY <2>2, <2>4 DEF Answer
  <2>6. \A d \in Mark(p) : f[Others(v, d)] \in Mark(p) /\ Added(v, d) \in Mark(p)
    BY <2>2, <2>3, <2>5, CallsAreEarlier
  <2>7. Enters(v)
    BY <2>2, <2>4, <2>5, <2>6 DEF Answer, Enters
  <2>8. f[Within(p, v)] \in Mark(p)
    BY <2>2, <2>3, <2>5, <2>7, CallsAreEarlier
  <2>9. f[v] = f[Others(v, Added(v, f[Within(p, v)]))]
    BY <2>2, <2>7 DEF Answer, Enters
  <2> QED
    BY <2>2, <2>6, <2>8, <2>9
<1>6. ASSUME NEW v \in Visit(p)
      PROVE  f[v] \in Mark(p) /\ Answers(p, f, v)
  <2>1. f[v] \in Mark(p) /\ f[v] = Answer(p, f, v) /\ v.done \in Mark(p)
    BY <1>4, <1>5, VisitTypes
  <2>2. Ends(v) => f[v] = v.done
    BY <2>1 DEF Answer
  <2>3. Met(v) => Others(v, v.done) \in DOMAIN f /\ f[v] = f[Others(v, v.done)]
    BY <1>4, <2>1, CallsAreEarlier DEF Answer, Met
  <2>4. Closes(v) => f[v] = Looped(v)
    BY <2>1 DEF Answer, Closes
  <2>5. ASSUME Enters(v)
        PROVE  LET next == Others(v, Added(v, f[Within(p, v)]))
               IN  Within(p, v) \in DOMAIN f /\ next \in DOMAIN f /\ f[v] = f[next]
    <3>1. ~Ends(v) /\ f[v] = f[Others(v, Added(v, f[Within(p, v)]))]
      BY <2>1, <2>5 DEF Answer, Enters
    <3>2. Within(p, v) \in Visit(p)
      BY <2>5, <3>1, CallsAreEarlier
    <3>3. f[Within(p, v)] \in Mark(p)
      BY <1>5, <3>2
    <3>4. Others(v, Added(v, f[Within(p, v)])) \in Visit(p)
      BY <3>1, <3>3, CallsAreEarlier
    <3> QED
      BY <1>4, <3>1, <3>2, <3>4
  <2> QED
    BY <2>1, <2>2, <2>3, <2>4, <2>5 DEF Answers
<1>7. Part(p, f)
  <2>1. f \in [DOMAIN f -> Mark(p)]
    <3>1. f = [v \in Visit(p) |-> f[v]]
      <4>1. f = [v \in Visit(p) |-> Answer(p, f, v)]
        BY <1>3, SolvesAnswers
      <4> QED
        BY <1>4, <4>1
    <3> QED
      BY <1>4, <1>6, <3>1
  <2> QED
    BY <1>4, <1>6, <2>1 DEF Part
<1> QED
  BY <1>2, <1>4, <1>7

-----------------------------------------------------------------------------
\* An order has each package after its dependencies.
Listed(p, o) == \A i \in 1 .. Len(o) : ToSet(Needs(p, o[i])) \subseteq {o[j] : j \in 1 .. i - 1}
Distinct(o) == \A i, j \in 1 .. Len(o) : o[i] = o[j] => i = j

\* A visit that meets no cycle leaves all of its list in the order, each once and after
\* what it depends on, and adds none of those being visited.
Served(p, f, v) ==
  ~f[v].cycle =>
    /\ ~v.done.cycle /\ ToSet(v.done.order) \subseteq ToSet(f[v].order)
    /\ ToSet(v.list) \subseteq ToSet(f[v].order)
    /\ v.path \cap ToSet(f[v].order) \subseteq ToSet(v.done.order)
    /\ Listed(p, v.done.order) => Listed(p, f[v].order)
    /\ Distinct(v.done.order) => Distinct(f[v].order)

LEMMA AppendedSet ==
  ASSUME NEW S, NEW s \in Seq(S), NEW x \in S
  PROVE  /\ Append(s, x) \in Seq(S) /\ Len(Append(s, x)) = Len(s) + 1 /\ Len(s) \in Nat
         /\ \A i \in 1 .. Len(s) : Append(s, x)[i] = s[i]
         /\ Append(s, x)[Len(s) + 1] = x
         /\ ToSet(Append(s, x)) = ToSet(s) \cup {x}
         /\ ToSet(s) = {s[i] : i \in 1 .. Len(s)}
<1> DEFINE t == Append(s, x)
<1>1. /\ t \in Seq(S) /\ Len(t) = Len(s) + 1 /\ Len(s) \in Nat /\ DOMAIN s = 1 .. Len(s) /\ DOMAIN t = 1 .. Len(t)
      /\ \A i \in 1 .. Len(s) : t[i] = s[i]
      /\ t[Len(s) + 1] = x
  OBVIOUS
<1> HIDE DEF t
<1>2. ToSet(t) = ToSet(s) \cup {x}
  <2>1. \A i \in DOMAIN t : i \in DOMAIN s \/ i = Len(s) + 1
    BY <1>1
  <2>2. \A i \in DOMAIN s : i \in DOMAIN t
    BY <1>1
  <2>3. Len(s) + 1 \in DOMAIN t
    BY <1>1
  <2> QED
    BY <1>1, <2>1, <2>2, <2>3 DEF ToSet
<1> QED
  BY <1>1, <1>2 DEF t, ToSet

LEMMA ListedAppend ==
  ASSUME NEW p, NEW o \in Seq(Ids(p)), NEW n \in Ids(p), Listed(p, o), ToSet(Needs(p, n)) \subseteq ToSet(o)
  PROVE  Listed(p, Append(o, n))
<1> DEFINE t == Append(o, n)
<1>1. /\ Len(t) = Len(o) + 1 /\ Len(o) \in Nat /\ t[Len(o) + 1] = n
      /\ \A i \in 1 .. Len(o) : t[i] = o[i]
      /\ ToSet(o) = {o[i] : i \in 1 .. Len(o)}
  BY AppendedSet
<1> HIDE DEF t
<1> SUFFICES ASSUME NEW i \in 1 .. Len(t), NEW d \in ToSet(Needs(p, t[i]))
             PROVE  \E j \in 1 .. i - 1 : d = t[j]
  BY DEF Listed, t
<1>2. CASE i \in 1 .. Len(o)
  <2>1. PICK j \in 1 .. i - 1 : d = o[j]
    BY <1>1, <1>2 DEF Listed
  <2>2. j \in 1 .. Len(o)
    BY <1>1, <1>2
  <2> QED
    BY <1>1, <2>1, <2>2
<1>3. CASE i = Len(o) + 1
  <2>1. PICK j \in 1 .. Len(o) : d = o[j]
    BY <1>1, <1>3
  <2>2. j \in 1 .. i - 1 /\ t[j] = o[j]
    BY <1>1, <1>3
  <2> QED
    BY <2>1, <2>2
<1> QED
  BY <1>1, <1>2, <1>3

LEMMA DistinctAppend ==
  ASSUME NEW S, NEW o \in Seq(S), NEW n \in S, Distinct(o), n \notin ToSet(o)
  PROVE  Distinct(Append(o, n))
<1> DEFINE t == Append(o, n)
<1>1. /\ Len(t) = Len(o) + 1 /\ Len(o) \in Nat /\ t[Len(o) + 1] = n
      /\ \A i \in 1 .. Len(o) : t[i] = o[i]
      /\ \A i \in 1 .. Len(o) : o[i] # n
  <2>1. ToSet(o) = {o[i] : i \in 1 .. Len(o)}
    BY AppendedSet
  <2> QED
    BY <2>1, AppendedSet
<1> HIDE DEF t
<1>2. \A i \in 1 .. Len(t) : i \in 1 .. Len(o) \/ i = Len(o) + 1
  BY <1>1
<1>3. Distinct(t)
  BY <1>1, <1>2 DEF Distinct
<1> QED
  BY <1>3 DEF t

LEMMA Serves ==
  ASSUME NEW p, Tidy(p), NEW f, Part(p, f), DOMAIN f = Visit(p)
  PROVE  \A v \in Visit(p) : Served(p, f, v)
<1> DEFINE S == {v \in Visit(p) : ~Served(p, f, v)}
<1> SUFFICES ASSUME S # {} PROVE FALSE
  OBVIOUS
<1>1. PICK v \in S : \A u \in S : ~Earlier(p, u, v)
  <2>1. S \in SUBSET Visit(p)
    OBVIOUS
  <2> HIDE DEF S
  <2> QED
    BY <2>1, FirstVisit
<1>2. v \in Visit(p) /\ ~Served(p, f, v) /\ Answers(p, f, v)
  BY DEF Part
<1>3. \A u \in Visit(p) : Earlier(p, u, v) => Served(p, f, u)
  BY <1>1
<1> HIDE DEF S
<1>4. \A u \in Visit(p) : f[u] \in Mark(p) /\ f[u].order \in Seq(Ids(p))
  BY DEF Part, Mark
<1>5. CASE Ends(v)
  <2>1. f[v] = v.done
    BY <1>2, <1>5 DEF Answers
  <2>2. v.list = <<>> => ToSet(v.list) = {}
    BY DEF ToSet
  <2> QED
    BY <1>2, <1>5, <2>1, <2>2 DEF Served, Ends
<1>6. CASE ~Ends(v)
  <2>1. /\ v.done \in Mark(p) /\ v.done.order \in Seq(Ids(p)) /\ ~v.done.cycle /\ Head(v.list) \in Ids(p)
        /\ ToSet(v.list) = {Head(v.list)} \cup ToSet(Tail(v.list))
    BY <1>2, <1>6, VisitTypes DEF Ends
  <2>2. ASSUME NEW d \in Mark(p)
        PROVE  /\ Served(p, f, Others(v, d)) /\ Others(v, d).path = v.path
               /\ Others(v, d).list = Tail(v.list) /\ Others(v, d).done = d
    <3>1. Others(v, d) \in Visit(p) /\ Earlier(p, Others(v, d), v)
      BY <1>2, <1>6, CallsAreEarlier
    <3> QED
      BY <1>3, <3>1 DEF Others
  <2>3. CASE Met(v)
    <3>1. f[v] = f[Others(v, v.done)]
      BY <1>2, <2>3 DEF Answers
    <3>2. Head(v.list) \in ToSet(v.done.order)
      BY <2>3 DEF Met
    <3> QED
      BY <1>2, <2>1, <2>2, <3>1, <3>2 DEF Served
  <2>4. CASE Closes(v)
    <3>1. f[v].cycle
      BY <1>2, <2>1, <2>4 DEF Answers, Looped, Mark
    <3> QED
      BY <1>2, <3>1 DEF Served
  <2>5. CASE Enters(v)
    <3> DEFINE w == Within(p, v)
               n == Head(v.list)
               d == Added(v, f[w])
    <3>1. w \in Visit(p) /\ Earlier(p, w, v) /\ w.list = Needs(p, n) /\ w.done = v.done
          /\ w.path = v.path \cup {n}
      BY <1>2, <1>6, <2>5, CallsAreEarlier DEF Within
    <3>2. Served(p, f, w) /\ f[w] \in Mark(p) /\ f[w].order \in Seq(Ids(p))
      BY <1>3, <1>4, <3>1
    <3>3. d \in Mark(p) /\ f[v] = f[Others(v, d)]
      BY <1>2, <1>6, <2>5, <3>2, CallsAreEarlier DEF Answers
    <3>4. d.order = Append(f[w].order, n) /\ d.cycle = f[w].cycle
      <4>1. f[w] = [order |-> f[w].order, cycle |-> f[w].cycle]
        BY <3>2 DEF Mark
      <4> HIDE DEF w
      <4> QED
        BY <4>1 DEF Added
    <3>5. /\ Served(p, f, Others(v, d)) /\ Others(v, d).path = v.path
          /\ Others(v, d).list = Tail(v.list) /\ Others(v, d).done = d
      BY <2>2, <3>3
    <3> HIDE DEF d, w
    <3> SUFFICES ASSUME ~f[v].cycle
                 PROVE  /\ ToSet(v.done.order) \subseteq ToSet(f[v].order)
                        /\ ToSet(v.list) \subseteq ToSet(f[v].order)
                        /\ v.path \cap ToSet(f[v].order) \subseteq ToSet(v.done.order)
                        /\ Listed(p, v.done.order) => Listed(p, f[v].order)
                        /\ Distinct(v.done.order) => Distinct(f[v].order)
      BY <1>2, <2>1 DEF Served
    <3>6. /\ ~d.cycle /\ ToSet(d.order) \subseteq ToSet(f[v].order)
          /\ ToSet(Tail(v.list)) \subseteq ToSet(f[v].order)
          /\ v.path \cap ToSet(f[v].order) \subseteq ToSet(d.order)
          /\ Listed(p, d.order) => Listed(p, f[v].order)
          /\ Distinct(d.order) => Distinct(f[v].order)
      BY <3>3, <3>5 DEF Served
    <3>7. /\ ToSet(v.done.order) \subseteq ToSet(f[w].order)
          /\ ToSet(Needs(p, n)) \subseteq ToSet(f[w].order)
          /\ (v.path \cup {n}) \cap ToSet(f[w].order) \subseteq ToSet(v.done.order)
          /\ Listed(p, v.done.order) => Listed(p, f[w].order)
          /\ Distinct(v.done.order) => Distinct(f[w].order)
      BY <3>1, <3>2, <3>4, <3>6 DEF Served
    <3>8. ToSet(d.order) = ToSet(f[w].order) \cup {n} /\ n \in Ids(p)
      BY <2>1, <3>2, <3>4, AppendedSet
    <3>9. Listed(p, f[w].order) => Listed(p, d.order)
      BY <3>2, <3>4, <3>7, <3>8, ListedAppend
    <3>10. n \notin v.path /\ n \notin ToSet(v.done.order)
      BY <2>5 DEF Enters
    <3>11. Distinct(f[w].order) => Distinct(d.order)
      BY <3>2, <3>4, <3>7, <3>8, <3>10, DistinctAppend
    <3> QED
      BY <2>1, <3>6, <3>7, <3>8, <3>9, <3>10, <3>11
  <2> QED
    BY <1>6, <2>3, <2>4, <2>5 DEF Met, Closes, Enters
<1> QED
  BY <1>5, <1>6

-----------------------------------------------------------------------------
\* What is kept of a list is a list of its entries.
LEMMA KeptList ==
  ASSUME NEW l, l \in Seq(ToSet(l))
  PROVE  \A places \in SUBSET (DOMAIN l) :
           /\ PS!kept(l, places) \in Seq(ToSet(l))
           /\ \A k \in DOMAIN PS!kept(l, places) : \E i \in places : PS!kept(l, places)[k] = l[i]
           /\ \E N \in Nat : DOMAIN PS!kept(l, places) = 1 .. N
<1>1. Len(l) \in Nat /\ DOMAIN l = 1 .. Len(l) /\ \A i \in 1 .. Len(l) : l[i] \in ToSet(l)
  BY DEF ToSet
<1> SUFFICES ASSUME NEW places \in SUBSET (1 .. Len(l))
             PROVE  /\ PS!kept(l, places) \in Seq(ToSet(l))
                    /\ \A k \in DOMAIN PS!kept(l, places) : \E i \in places : PS!kept(l, places)[k] = l[i]
                    /\ \E N \in Nat : DOMAIN PS!kept(l, places) = 1 .. N
  BY <1>1
<1> DEFINE N == Cardinality(places)
           q == PS!kept(l, places)
<1>2. N \in Nat /\ DOMAIN q = 1 .. N /\ \A k \in 1 .. N : \E i \in places : q[k] = l[i]
  <2>1. \A n \in Nat : places \in SUBSET (1 .. n) =>
          /\ Cardinality(places) \in Nat /\ DOMAIN PS!kept(l, places) = 1 .. Cardinality(places)
          /\ \A k \in 1 .. Cardinality(places) : \E i \in places : PS!kept(l, places)[k] = l[i]
    <3> TAKE n \in Nat
    <3> HAVE places \in SUBSET (1 .. n)
    <3> HIDE DEF N, q
    <3> QED
      BY KeptEntries
  <2> QED
    BY <1>1, <2>1
<1>3. q = [k \in 1 .. N |-> q[k]]
  <2>1. q = [k \in DOMAIN q |-> q[k]]
    BY DEF PS!kept
  <2> QED
    BY <1>2, <2>1
<1>4. \A k \in 1 .. N : q[k] \in ToSet(l)
  BY <1>1, <1>2
<1> HIDE DEF N, q
<1>5. q \in Seq(ToSet(l))
  BY <1>2, <1>3, <1>4
<1> QED
  BY <1>2, <1>5 DEF q

\* What is enabled of a profile, by identifier.
LEMMA EnabledFacts ==
  ASSUME NEW p \in Profiles
  PROVE  /\ PS!enabled(p) \in Seq(ToSet(p.packages)) /\ PS!payloads(p) \in Seq(ToSet(p.packages))
         /\ \A e \in ToSet(PS!enabled(p)) : e \in ToSet(p.packages) /\ e.on
         /\ IsFiniteSet(Ids(p)) /\ Ids(p) \subseteq Names
         /\ Ids(p) = {PS!enabled(p)[i].id : i \in DOMAIN PS!enabled(p)}
         /\ \A n \in Ids(p) : /\ PS!entry(p, n) \in ToSet(p.packages) /\ PS!entry(p, n).on
                               /\ PS!entry(p, n) \in ToSet(PS!enabled(p)) /\ PS!entry(p, n).id = n
<1> DEFINE l == p.packages
           on == {i \in DOMAIN l : l[i].on}
           loaded == {i \in DOMAIN l : l[i].on /\ l[i].payload}
           e == PS!enabled(p)
<1>1. /\ l \in Seq(ToSet(l)) /\ Len(l) \in Nat /\ DOMAIN l = 1 .. Len(l)
      /\ \A x \in ToSet(l) : x.id \in Names
      /\ \A i \in DOMAIN l : l[i] \in ToSet(l)
  <2>1. l \in Seq(ToSet(l)) /\ \A x \in ToSet(l) : x.id \in Names
    BY ProfilesAssumption
  <2> QED
    BY <2>1 DEF ToSet
<1>2. e = PS!kept(l, on) /\ PS!payloads(p) = PS!kept(l, loaded)
  BY DEF PS!enabled, PS!payloads
<1>3. \A places \in SUBSET (DOMAIN l) :
        /\ PS!kept(l, places) \in Seq(ToSet(l))
        /\ \A k \in DOMAIN PS!kept(l, places) : \E i \in places : PS!kept(l, places)[k] = l[i]
        /\ \E N \in Nat : DOMAIN PS!kept(l, places) = 1 .. N
  <2> HIDE DEF l
  <2> QED
    BY <1>1, KeptList
<1>4. on \in SUBSET (DOMAIN l) /\ loaded \in SUBSET (DOMAIN l)
  OBVIOUS
<1> HIDE DEF l, on, loaded, e
<1>5. e \in Seq(ToSet(l)) /\ PS!payloads(p) \in Seq(ToSet(l))
  BY <1>2, <1>3, <1>4, Zenon
<1>6. /\ \A k \in DOMAIN e : \E i \in on : e[k] = l[i]
      /\ \E N \in Nat : DOMAIN e = 1 .. N
  BY <1>2, <1>3, <1>4, Zenon
<1>7. \A k \in DOMAIN e : e[k] \in ToSet(l) /\ e[k].on
  <2>1. \A i \in on : l[i] \in ToSet(l) /\ l[i].on
    BY <1>1 DEF on
  <2> QED
    BY <1>6, <2>1
<1>8. PS!ToSet(e) = ToSet(e) /\ ToSet(e) = {e[k] : k \in DOMAIN e}
  BY DEF PS!ToSet, ToSet
<1>9. Ids(p) = {e[i].id : i \in DOMAIN e}
  BY <1>8 DEF Ids, PS!identifiers, e
<1>10. IsFiniteSet(Ids(p))
  <2>1. PICK N \in Nat : DOMAIN e = 1 .. N
    BY <1>6
  <2>2. IsFiniteSet(1 .. N)
    BY <2>1, FS_Interval
  <2> DEFINE g == [i \in 1 .. N |-> e[i].id]
  <2>3. g \in Surjection(1 .. N, Ids(p))
    BY <1>9, <2>1 DEF Surjection
  <2> HIDE DEF g
  <2> QED
    BY <2>2, <2>3, FS_Surjection
<1>11. \A n \in Ids(p) : PS!entry(p, n) \in ToSet(e) /\ PS!entry(p, n).id = n
  <2> SUFFICES ASSUME NEW n \in Ids(p) PROVE PS!entry(p, n) \in ToSet(e) /\ PS!entry(p, n).id = n
    OBVIOUS
  <2>1. \E x \in ToSet(e) : x.id = n
    BY <1>8, <1>9
  <2>2. PS!entry(p, n) = CHOOSE x \in ToSet(e) : x.id = n
    BY <1>8 DEF PS!entry, e
  <2> QED
    BY <2>1, <2>2
<1>12. \A x \in ToSet(e) : x \in ToSet(l) /\ x.on
  BY <1>7, <1>8
<1>13. Ids(p) \subseteq Names
  BY <1>1, <1>7, <1>9
<1> QED
  BY <1>5, <1>9, <1>10, <1>11, <1>12, <1>13 DEF e, l

\* Dependencies on enabled packages lead from one of these to others.
LEMMA EnabledIsTidy ==
  ASSUME NEW p \in Profiles, \A e \in ToSet(PS!enabled(p)) : ToSet(e.dependencies) \subseteq PS!identifiers(p)
  PROVE  Tidy(p)
<1>1. /\ IsFiniteSet(Ids(p))
      /\ \A n \in Ids(p) : PS!entry(p, n) \in ToSet(p.packages) /\ PS!entry(p, n) \in ToSet(PS!enabled(p))
  BY EnabledFacts
<1>2. ASSUME NEW n \in Ids(p)
      PROVE  Needs(p, n) \in Seq(Ids(p))
  <2> DEFINE s == PS!entry(p, n).dependencies
  <2>1. s \in Seq(Names)
    BY <1>1, ProfilesAssumption
  <2>2. ToSet(s) \subseteq Ids(p)
    BY <1>1 DEF Ids
  <2> HIDE DEF s
  <2>3. Len(s) \in Nat /\ DOMAIN s = 1 .. Len(s) /\ s = [i \in 1 .. Len(s) |-> s[i]]
    BY <2>1
  <2>4. \A i \in 1 .. Len(s) : s[i] \in Ids(p)
    BY <2>2, <2>3 DEF ToSet
  <2>5. s \in Seq(Ids(p))
    BY <2>3, <2>4
  <2> QED
    BY <2>5 DEF Needs, s
<1> QED
  BY <1>1, <1>2 DEF Tidy

\* A valid profile's dependencies are enabled packages of it.
LEMMA ValidIsTidy ==
  ASSUME NEW p \in Profiles, PS!validate(p)
  PROVE  Tidy(p)
<1>1. \A e \in ToSet(PS!enabled(p)) : e \in ToSet(p.packages) /\ e.on
  BY EnabledFacts
<1>2. \A s : PS!ToSet(s) = ToSet(s)
  BY DEF PS!ToSet, ToSet
<1>3. \A e \in ToSet(p.packages) : e.on => ToSet(e.dependencies) \subseteq PS!identifiers(p)
  BY <1>2 DEF PS!validate
<1> QED
  BY <1>1, <1>3, EnabledIsTidy

\* The first visit is of all enabled packages.
LEMMA FirstOfAll ==
  ASSUME NEW p \in Profiles
  PROVE  /\ First(p) \in Visit(p) /\ First(p).path = {} /\ First(p).done.order = <<>>
         /\ ~First(p).done.cycle /\ ToSet(First(p).list) = Ids(p)
<1> DEFINE l == PS!enabled(p)
           ids == [i \in DOMAIN l |-> l[i].id]
<1>1. /\ l \in Seq(ToSet(p.packages)) /\ Len(l) \in Nat /\ DOMAIN l = 1 .. Len(l)
      /\ Ids(p) = {l[i].id : i \in DOMAIN l}
  BY EnabledFacts
<1>2. ids \in Seq(Ids(p)) /\ ToSet(ids) = Ids(p)
  <2> HIDE DEF l
  <2> QED
    BY <1>1 DEF ToSet
<1>3. First(p) = [path |-> {}, list |-> ids, done |-> [order |-> <<>>, cycle |-> FALSE]]
  BY DEF First
<1> HIDE DEF ids
<1> QED
  BY <1>2, <1>3 DEF Visit, Mark

\* The order of any valid profile has every enabled package exactly once, after all that
\* it depends on (PackageStudio::dependencyOrder).
THEOREM OrderIsRight ==
  \A p \in Profiles : PS!validate(p) =>
    LET order == PS!dependencyOrder(p)
    IN  /\ order \in Seq(ToSet(PS!enabled(p)))
        /\ \A e \in ToSet(PS!enabled(p)) : \E i \in DOMAIN order : order[i].id = e.id
        /\ \A i, j \in DOMAIN order : order[i].id = order[j].id => i = j
        /\ \A i \in DOMAIN order : ToSet(order[i].dependencies) \subseteq {order[j].id : j \in 1 .. i - 1}
<1> SUFFICES ASSUME NEW p \in Profiles, PS!validate(p)
             PROVE  LET order == PS!dependencyOrder(p)
                    IN  /\ order \in Seq(ToSet(PS!enabled(p)))
                        /\ \A e \in ToSet(PS!enabled(p)) : \E i \in DOMAIN order : order[i].id = e.id
                        /\ \A i, j \in DOMAIN order : order[i].id = order[j].id => i = j
                        /\ \A i \in DOMAIN order :
                             ToSet(order[i].dependencies) \subseteq {order[j].id : j \in 1 .. i - 1}
  OBVIOUS
<1>1. PICK f : Part(p, f) /\ DOMAIN f = Visit(p) /\ PS!visited(p) = f[First(p)]
  BY ValidIsTidy, TheVisit
<1> DEFINE l == PS!enabled(p)
           v == First(p)
           o == PS!visited(p).order
           order == PS!dependencyOrder(p)
<1>2. /\ l \in Seq(ToSet(p.packages)) /\ Len(l) \in Nat /\ DOMAIN l = 1 .. Len(l)
      /\ Ids(p) = {l[i].id : i \in DOMAIN l}
      /\ \A n \in Ids(p) : PS!entry(p, n).id = n
  BY EnabledFacts
<1>3. v \in Visit(p) /\ v.path = {} /\ v.done.order = <<>> /\ ToSet(v.list) = Ids(p)
  BY FirstOfAll
<1>4. Served(p, f, v) /\ ~f[v].cycle /\ f[v] \in Mark(p)
  <2>1. ~f[v].cycle
    BY <1>1 DEF PS!validate
  <2> QED
    BY <1>1, <1>3, <2>1, ValidIsTidy, Serves DEF Part
<1>5. o \in Seq(Ids(p)) /\ Len(o) \in Nat /\ DOMAIN o = 1 .. Len(o)
  BY <1>1, <1>4 DEF Mark
<1>6. Ids(p) \subseteq ToSet(o) /\ Listed(p, o) /\ Distinct(o)
  <2>1. Listed(p, <<>>) /\ Distinct(<<>>)
    BY DEF Listed, Distinct
  <2> QED
    BY <1>1, <1>3, <1>4, <2>1 DEF Served
<1>7. order = [i \in DOMAIN o |-> PS!entry(p, o[i])]
  BY DEF PS!dependencyOrder
<1>8. \A n \in Ids(p) : PS!entry(p, n) \in ToSet(l)
  <2> SUFFICES ASSUME NEW n \in Ids(p) PROVE PS!entry(p, n) \in ToSet(l)
    OBVIOUS
  <2>1. PS!ToSet(l) = ToSet(l) /\ \E x \in ToSet(l) : x.id = n
    BY <1>2 DEF PS!ToSet, ToSet
  <2> QED
    BY <2>1 DEF PS!entry
<1> HIDE DEF o, order, v
<1>9. DOMAIN order = 1 .. Len(o) /\ \A i \in 1 .. Len(o) : order[i] = PS!entry(p, o[i]) /\ o[i] \in Ids(p)
  BY <1>5, <1>7
<1>10. order \in Seq(ToSet(l))
  BY <1>5, <1>7, <1>8
<1>11. \A i \in 1 .. Len(o) : order[i].id = o[i] /\ order[i].dependencies = Needs(p, o[i])
  BY <1>2, <1>9 DEF Needs
<1>12. ASSUME NEW e \in ToSet(l) PROVE \E i \in DOMAIN order : order[i].id = e.id
  <2>1. e.id \in Ids(p)
    BY <1>2 DEF ToSet
  <2> QED
    BY <1>5, <1>6, <1>9, <1>11, <2>1 DEF ToSet
<1>13. \A i, j \in DOMAIN order : order[i].id = order[j].id => i = j
  BY <1>6, <1>9, <1>11 DEF Distinct
<1>14. ASSUME NEW i \in DOMAIN order, NEW d \in ToSet(order[i].dependencies)
       PROVE  \E j \in 1 .. i - 1 : d = order[j].id
  <2>1. i \in 1 .. Len(o) /\ d \in ToSet(Needs(p, o[i]))
    BY <1>9, <1>11
  <2>2. PICK j \in 1 .. i - 1 : d = o[j]
    BY <1>6, <2>1 DEF Listed
  <2>3. j \in 1 .. Len(o)
    BY <1>5, <2>1
  <2> QED
    BY <1>11, <2>2, <2>3
<1> QED
  BY <1>10, <1>12, <1>13, <1>14 DEF order

-----------------------------------------------------------------------------
\* Some packages each depend on one of them.
Cyclic(p) == \E C \in SUBSET Ids(p) : C # {} /\ \A c \in C : \E d \in C : d \in ToSet(Needs(p, c))

\* t leads through the packages being visited to those of the list.
Trail(p, v, t) ==
  /\ t \in Seq(Ids(p)) /\ ToSet(t) = v.path
  /\ \A i \in 1 .. Len(t) - 1 : t[i + 1] \in ToSet(Needs(p, t[i]))
  /\ t # <<>> => ToSet(v.list) \subseteq ToSet(Needs(p, t[Len(t)]))

\* A package of the list that is being visited closes a cycle of dependencies.
LEMMA ClosedTrail ==
  ASSUME NEW p, NEW v, NEW t, Trail(p, v, t), NEW n \in v.path, n \in ToSet(v.list)
  PROVE  Cyclic(p)
<1>1. t \in Seq(Ids(p)) /\ Len(t) \in Nat /\ DOMAIN t = 1 .. Len(t) /\ n \in ToSet(t)
  BY DEF Trail
<1>2. PICK k \in 1 .. Len(t) : t[k] = n
  BY <1>1 DEF ToSet
<1>3. /\ \A i \in 1 .. Len(t) - 1 : t[i + 1] \in ToSet(Needs(p, t[i]))
      /\ n \in ToSet(Needs(p, t[Len(t)]))
  <2>1. t # <<>>
    BY <1>1, <1>2
  <2> QED
    BY <2>1 DEF Trail
<1> DEFINE C == {t[i] : i \in k .. Len(t)}
<1>4. C \in SUBSET Ids(p) /\ n \in C
  <2>1. \A i \in k .. Len(t) : t[i] \in Ids(p)
    BY <1>1, <1>2
  <2> QED
    BY <1>1, <1>2, <2>1
<1>5. ASSUME NEW c \in C PROVE \E d \in C : d \in ToSet(Needs(p, c))
  <2>1. PICK i \in k .. Len(t) : c = t[i]
    OBVIOUS
  <2>2. CASE i = Len(t)
    BY <1>3, <1>4, <2>1, <2>2
  <2>3. CASE i # Len(t)
    <3>1. i \in 1 .. Len(t) - 1 /\ i + 1 \in k .. Len(t)
      <4>1. Len(t) \in Nat
        BY <1>1
      <4>2. k \in 1 .. Len(t)
        BY <1>2
      <4>3. i \in k .. Len(t)
        BY <2>1
      <4>4. i # Len(t)
        BY <2>3
      <4> QED
        BY <4>1, <4>2, <4>3, <4>4
    <3>2. t[i + 1] \in C /\ t[i + 1] \in ToSet(Needs(p, t[i]))
      BY <1>3, <3>1
    <3> QED
      BY <2>1, <3>2
  <2> QED
    BY <2>2, <2>3
<1> HIDE DEF C
<1> QED
  BY <1>4, <1>5 DEF Cyclic

\* The trail of a package's dependencies is the one to it, and it.
LEMMA LongerTrail ==
  ASSUME NEW p, NEW v, NEW t, Trail(p, v, t), NEW n \in Ids(p), n \in ToSet(v.list),
         NEW w, w.path = v.path \cup {n}, w.list = Needs(p, n)
  PROVE  Trail(p, w, Append(t, n))
<1> DEFINE u == Append(t, n)
<1>1. t \in Seq(Ids(p)) /\ ToSet(t) = v.path /\ Len(t) \in Nat
  BY DEF Trail
<1>2. u \in Seq(Ids(p)) /\ Len(u) = Len(t) + 1 /\ ToSet(u) = w.path /\ u[Len(t) + 1] = n
      /\ \A i \in 1 .. Len(t) : u[i] = t[i]
  <2>1. /\ u \in Seq(Ids(p)) /\ Len(u) = Len(t) + 1 /\ ToSet(u) = ToSet(t) \cup {n}
        /\ \A i \in 1 .. Len(t) : u[i] = t[i]
    BY <1>1, AppendedSet
  <2>2. u[Len(t) + 1] = n
    BY <1>1
  <2> QED
    BY <1>1, <2>1, <2>2
<1> HIDE DEF u
<1>3. ASSUME NEW i \in 1 .. Len(u) - 1
      PROVE  u[i + 1] \in ToSet(Needs(p, u[i]))
  <2>1. i \in 1 .. Len(t) /\ u[i] = t[i] /\ t # <<>>
    BY <1>1, <1>2, <1>3
  <2>2. CASE i = Len(t)
    <3>1. ToSet(v.list) \subseteq ToSet(Needs(p, t[Len(t)]))
      BY <2>1 DEF Trail
    <3> QED
      BY <1>1, <1>2, <2>1, <2>2, <3>1
  <2>3. CASE i # Len(t)
    <3>1. i \in 1 .. Len(t) - 1 /\ i + 1 \in 1 .. Len(t)
      BY <1>1, <2>1, <2>3
    <3>2. u[i + 1] = t[i + 1] /\ t[i + 1] \in ToSet(Needs(p, t[i]))
      BY <1>2, <3>1 DEF Trail
    <3> QED
      BY <2>1, <3>2
  <2> QED
    BY <2>2, <2>3
<1>4. u[Len(u)] = n
  BY <1>2
<1> QED
  BY <1>2, <1>3, <1>4 DEF Trail, u

\* Where there is no cycle none is found.
LEMMA FindsNoOther ==
  ASSUME NEW p, Tidy(p), NEW f, Part(p, f), DOMAIN f = Visit(p), ~Cyclic(p)
  PROVE  \A v \in Visit(p) : (\E t : Trail(p, v, t)) /\ ~v.done.cycle => ~f[v].cycle
<1> DEFINE Fine(v) == (\E t : Trail(p, v, t)) /\ ~v.done.cycle => ~f[v].cycle
           S == {v \in Visit(p) : ~Fine(v)}
<1> SUFFICES ASSUME S # {} PROVE FALSE
  OBVIOUS
<1>1. PICK v \in S : \A u \in S : ~Earlier(p, u, v)
  <2>1. S \in SUBSET Visit(p)
    OBVIOUS
  <2> HIDE DEF S
  <2> QED
    BY <2>1, FirstVisit
<1>2. v \in Visit(p) /\ Answers(p, f, v) /\ ~v.done.cycle /\ f[v].cycle
  BY DEF Part
<1>3. PICK t : Trail(p, v, t)
  BY <1>1
<1>4. \A u \in Visit(p) : Earlier(p, u, v) => Fine(u)
  BY <1>1
<1> HIDE DEF S
<1>5. \A u \in Visit(p) : f[u] \in Mark(p)
  BY DEF Part
<1>6. ~Ends(v)
  BY <1>2 DEF Answers
<1>7. /\ v.done \in Mark(p) /\ Head(v.list) \in Ids(p)
      /\ ToSet(v.list) = {Head(v.list)} \cup ToSet(Tail(v.list))
  BY <1>2, <1>6, VisitTypes
<1>8. ASSUME NEW d \in Mark(p), ~d.cycle
      PROVE  ~f[Others(v, d)].cycle
  <2> DEFINE o == Others(v, d)
  <2>1. o \in Visit(p) /\ Earlier(p, o, v) /\ o.path = v.path /\ o.list = Tail(v.list) /\ o.done = d
    BY <1>2, <1>6, CallsAreEarlier DEF Others
  <2> HIDE DEF o
  <2>2. Trail(p, o, t)
    BY <1>3, <1>7, <2>1 DEF Trail
  <2> QED
    BY <1>4, <1>8, <2>1, <2>2 DEF o
<1>9. ~Met(v)
  BY <1>2, <1>7, <1>8 DEF Answers
<1>10. ~Closes(v)
  BY <1>3, <1>7, ClosedTrail DEF Closes
<1>11. CASE Enters(v)
  <2> DEFINE w == Within(p, v)
             n == Head(v.list)
             d == Added(v, f[w])
  <2>1. w \in Visit(p) /\ Earlier(p, w, v) /\ w.list = Needs(p, n) /\ w.done = v.done
        /\ w.path = v.path \cup {n}
    BY <1>2, <1>6, <1>11, CallsAreEarlier DEF Within
  <2>2. f[w] \in Mark(p)
    BY <1>5, <2>1
  <2>3. d \in Mark(p) /\ f[v] = f[Others(v, d)]
    BY <1>2, <1>6, <1>11, <2>2, CallsAreEarlier DEF Answers
  <2>4. d.cycle = f[w].cycle
    <3>1. f[w] = [order |-> f[w].order, cycle |-> f[w].cycle]
      BY <2>2 DEF Mark
    <3> HIDE DEF w
    <3> QED
      BY <3>1 DEF Added
  <2> HIDE DEF d, w
  <2>5. Trail(p, w, Append(t, n))
    BY <1>3, <1>7, <2>1, LongerTrail
  <2>6. ~f[w].cycle
    BY <1>2, <1>4, <2>1, <2>5
  <2> QED
    BY <1>2, <1>8, <2>3, <2>4, <2>6
<1> QED
  BY <1>6, <1>9, <1>10, <1>11 DEF Met, Closes, Enters

\* The order is refused for a cycle exactly when some enabled packages depend on one another
\* in a circle (PackageStudio::dependencyOrder, "Package dependency cycle").
THEOREM CyclesAreFound ==
  \A p \in Profiles :
    (\A e \in ToSet(PS!enabled(p)) : ToSet(e.dependencies) \subseteq PS!identifiers(p)) =>
      (PS!visited(p).cycle <=>
         \E C \in SUBSET PS!identifiers(p) :
           C # {} /\ \A c \in C : \E d \in C : d \in ToSet(PS!entry(p, c).dependencies))
<1> SUFFICES ASSUME NEW p \in Profiles,
                    \A e \in ToSet(PS!enabled(p)) : ToSet(e.dependencies) \subseteq PS!identifiers(p)
             PROVE  PS!visited(p).cycle <=> Cyclic(p)
  BY DEF Cyclic, Ids, Needs
<1>1. Tidy(p)
  BY EnabledIsTidy
<1>2. PICK f : Part(p, f) /\ DOMAIN f = Visit(p) /\ PS!visited(p) = f[First(p)]
  BY <1>1, TheVisit
<1> DEFINE v == First(p)
           o == f[v].order
<1>3. v \in Visit(p) /\ v.path = {} /\ v.done.order = <<>> /\ ~v.done.cycle /\ ToSet(v.list) = Ids(p)
  BY FirstOfAll
<1> HIDE DEF v
<1>4. ASSUME ~Cyclic(p) PROVE ~f[v].cycle
  <2>1. Trail(p, v, <<>>)
    <3>1. <<>> \in Seq(Ids(p)) /\ Len(<<>>) = 0 /\ ToSet(<<>>) = {}
      BY DEF ToSet
    <3> QED
      BY <1>3, <3>1 DEF Trail
  <2> QED
    BY <1>1, <1>2, <1>3, <1>4, <2>1, FindsNoOther
<1>5. ASSUME ~f[v].cycle PROVE ~Cyclic(p)
  <2>1. Served(p, f, v) /\ f[v] \in Mark(p)
    BY <1>1, <1>2, <1>3, Serves DEF Part
  <2>2. o \in Seq(Ids(p)) /\ Len(o) \in Nat /\ DOMAIN o = 1 .. Len(o)
    BY <2>1 DEF Mark
  <2>3. Ids(p) \subseteq ToSet(o) /\ Listed(p, o)
    <3>1. Listed(p, <<>>)
      BY DEF Listed
    <3> QED
      BY <1>3, <1>5, <2>1, <3>1 DEF Served
  <2> HIDE DEF o
  <2> SUFFICES ASSUME NEW C \in SUBSET Ids(p), C # {}, \A c \in C : \E d \in C : d \in ToSet(Needs(p, c))
               PROVE  FALSE
    BY DEF Cyclic
  <2> DEFINE I == {i \in 1 .. Len(o) : o[i] \in C}
  <2>4. I \in SUBSET Nat /\ I # {}
    BY <2>2, <2>3 DEF ToSet
  <2>5. PICK m \in I : \A i \in I : m <= i
    <3> HIDE DEF I
    <3> QED
      BY <2>4, Least
  <2>6. PICK d \in C : d \in ToSet(Needs(p, o[m]))
    BY <2>5
  <2>7. PICK j \in 1 .. m - 1 : d = o[j]
    BY <2>3, <2>5, <2>6 DEF Listed
  <2>8. j \in I /\ j < m
    BY <2>2, <2>5, <2>7
  <2> QED
    BY <2>2, <2>5, <2>8
<1> QED
  BY <1>2, <1>4, <1>5 DEF v

-----------------------------------------------------------------------------
\* What the staging and the script rely on of a valid profile.
LEMMA ProfileFacts ==
  /\ \A e \in Entry : e.id \in Names
  /\ \A p \in ValidProfile :
       /\ p \in Profiles /\ PS!payloads(p) \in Seq(Entry) /\ PS!dependencyOrder(p) \in Seq(Entry)
       /\ PS!generated(p) \in Script /\ PS!generated(p).of = p /\ PS!generated(p) # PS!noProfile
       /\ PS!generated(p).packages = PS!dependencyOrder(p)
       /\ Sorted(PS!dependencyOrder(p))
<1>1. ASSUME NEW p \in ValidProfile
      PROVE  /\ p \in Profiles /\ \A e \in ToSet(p.packages) : e.id \in Names
             /\ PS!payloads(p) \in Seq(ToSet(p.packages)) /\ PS!dependencyOrder(p) \in Seq(ToSet(p.packages))
             /\ \A i \in DOMAIN PS!dependencyOrder(p) :
                  ToSet(PS!dependencyOrder(p)[i].dependencies) \subseteq
                    {PS!dependencyOrder(p)[j].id : j \in 1 .. i - 1}
  <2>1. p \in Profiles /\ PS!validate(p)
    BY DEF ValidProfile
  <2>2. \A e \in ToSet(p.packages) : e.id \in Names
    BY <2>1, ProfilesAssumption
  <2> DEFINE order == PS!dependencyOrder(p)
             l == PS!enabled(p)
  <2>3. /\ PS!payloads(p) \in Seq(ToSet(p.packages)) /\ l \in Seq(ToSet(p.packages))
    BY <2>1, EnabledFacts
  <2>4. /\ order \in Seq(ToSet(l))
        /\ \A i \in DOMAIN order : ToSet(order[i].dependencies) \subseteq {order[j].id : j \in 1 .. i - 1}
    BY <2>1, OrderIsRight, Zenon
  <2> HIDE DEF order, l
  <2>5. order \in Seq(ToSet(p.packages))
    <3>1. ToSet(l) \subseteq ToSet(p.packages)
      BY <2>3 DEF ToSet
    <3> QED
      BY <2>4, <3>1
  <2> QED
    BY <2>1, <2>2, <2>3, <2>4, <2>5 DEF order
<1>2. \A e \in Entry : e.id \in Names
  BY <1>1 DEF Entry
<1>3. ASSUME NEW p \in ValidProfile
      PROVE  /\ PS!payloads(p) \in Seq(Entry) /\ PS!dependencyOrder(p) \in Seq(Entry)
             /\ Sorted(PS!dependencyOrder(p))
  <2>1. \A e \in ToSet(p.packages) : e \in Entry
    BY DEF Entry
  <2>2. ToSet(p.packages) \subseteq Entry
    BY <2>1
  <2> HIDE DEF Entry
  <2>3. \A q \in Seq(ToSet(p.packages)) : q \in Seq(Entry) /\ DOMAIN q = 1 .. Len(q)
    BY <2>2
  <2>4. DOMAIN PS!dependencyOrder(p) = 1 .. Len(PS!dependencyOrder(p))
    BY <1>1, <2>3
  <2> QED
    BY <1>1, <2>3, <2>4 DEF Sorted
<1>4. ASSUME NEW p \in ValidProfile
      PROVE  /\ PS!generated(p) \in Script /\ PS!generated(p).of = p /\ PS!generated(p) # PS!noProfile
             /\ PS!generated(p).packages = PS!dependencyOrder(p)
  <2>1. PS!generated(p) = [of |-> p, packages |-> PS!dependencyOrder(p)]
    BY DEF PS!generated
  <2>2. DOMAIN PS!generated(p) = {"of", "packages"} /\ DOMAIN PS!noProfile = {"packages"}
    BY <2>1 DEF PS!noProfile
  <2>3. "of" \notin {"packages"}
    OBVIOUS
  <2>4. PS!generated(p) # PS!noProfile
    BY <2>2, <2>3
  <2> QED
    BY <2>1, <2>4 DEF Script
<1> QED
  BY <1>1, <1>2, <1>3, <1>4

\* A script belongs to one profile.
LEMMA ScriptFacts ==
  ASSUME NEW x \in Script
  PROVE  /\ x.of \in ValidProfile /\ x = PS!generated(x.of) /\ x # PS!noProfile
         /\ x.packages \in Seq(Entry) /\ Sorted(x.packages)
<1>1. PICK p \in ValidProfile : x = PS!generated(p)
  BY DEF Script
<1> QED
  BY <1>1, ProfileFacts

\* Nothing that is written is the record that says there is none.
LEMMA States ==
  /\ \A w \in Stager : w # PS!rest => /\ w \in [stage : {"script", "payloads"}, of : ValidProfile,
                                                left : Seq(Entry), copied : SUBSET Names, hashed : BOOLEAN]
                                      /\ w.of \in ValidProfile /\ w.left \in Seq(Entry) /\ w.copied \subseteq Names
  /\ \A w \in Stager : w.stage # "none" => w # PS!rest
  /\ \A r \in {PS!rest} \cup RunState : r.stage # "none" => r # PS!rest
  /\ \A r \in {PS!rest} \cup RunState : r # PS!rest => r \in RunState
  /\ PS!rest \in Stager /\ PS!rest.stage = "none"
BY DEF Stager, PS!rest

LEMMA ImageFacts ==
  ASSUME Imaged, image # PS!nothing
  PROVE  /\ image.script \in Script /\ image.payload \in [Names -> PS!contents]
         /\ PS!list \in Seq(Entry) /\ Len(PS!list) \in Nat /\ Sorted(PS!list)
         /\ \A i \in 1 .. Len(PS!list) : PS!list[i].id \in Names
<1>1. image.script \in Script /\ image.payload \in [Names -> PS!contents]
  BY DEF Imaged
<1>2. PS!list \in Seq(Entry) /\ Sorted(PS!list)
  BY <1>1, ScriptFacts DEF PS!list
<1>3. Len(PS!list) \in Nat /\ \A i \in 1 .. Len(PS!list) : PS!list[i] \in Entry
  BY <1>2
<1> QED
  BY <1>1, <1>2, <1>3, ProfileFacts

-----------------------------------------------------------------------------
LEMMA PackagesBegin == PS!Init => PackagesInv
<1> SUFFICES ASSUME PS!Init PROVE PackagesInv
  OBVIOUS
<1>1. /\ profile \in Profiles /\ source = PS!allGood /\ files = PS!noFiles
      /\ writing = [s \in PS!Stagers |-> PS!rest] /\ recorded = PS!unstaged /\ gated = "none" /\ stagings = 0
      /\ image = PS!nothing /\ task = FALSE /\ programs = {}
      /\ marker = [n \in Names |-> "none"] /\ cache = [n \in Names |-> "none"]
      /\ runs = [s \in PS!Starts |-> PS!rest] /\ mutex = FALSE /\ troubles = 0
  BY DEF PS!Init
<1>2. Stock
  BY <1>1, BoundsAssumption DEF Stock, PS!allGood, PS!contents
<1>3. Held
  BY <1>1 DEF Held
<1>4. Bench
  BY <1>1, States DEF Bench, PS!noFiles, PS!unstaged, Folder, PS!contents
<1>5. Imaged /\ PS!ImageIsComplete
  BY <1>1 DEF Imaged, PS!ImageIsComplete
<1>6. Staging /\ Recorded
  BY <1>1 DEF Staging, Recorded, PS!unstaged, PS!Stagers
<1>7. Logon
  BY <1>1 DEF Logon
<1> QED
  BY <1>2, <1>3, <1>4, <1>5, <1>6, <1>7 DEF PackagesInv

-----------------------------------------------------------------------------
\* On the bench nothing of the machine changes.
LEMMA BenchSteps ==
  ASSUME PackagesInv, image = PS!nothing, UNCHANGED <<image, task, programs, marker, cache, runs, mutex>>,
         Stock', Bench', Staging', Recorded'
  PROVE  PackagesInv'
<1>1. Imaged' /\ PS!ImageIsComplete' /\ Held'
  BY DEF PackagesInv, Imaged, PS!ImageIsComplete, Held
<1>2. Logon'
  BY DEF PackagesInv, Logon
<1> QED
  BY <1>1, <1>2 DEF PackagesInv

\* The command line's staging has its own folder.
LEMMA CommandSteps ==
  ASSUME Bench, Staging, Recorded, NEW w \in Stager, w # PS!rest /\ w.hashed => w.left # <<>>,
         writing' = [writing EXCEPT !["command"] = w],
         files' \in [PS!Stagers -> Folder], files'["desktop"] = files["desktop"],
         UNCHANGED <<recorded, gated>>
  PROVE  Bench' /\ Staging' /\ Recorded'
<1>1. /\ writing \in [PS!Stagers -> Stager] /\ writing'["command"] = w
      /\ writing'["desktop"] = writing["desktop"] /\ writing' \in [PS!Stagers -> Stager]
  BY DEF Bench, PS!Stagers
<1>2. Bench'
  BY <1>1 DEF Bench, PS!Stagers
<1>3. Staging'
  BY <1>1 DEF Staging
<1>4. Recorded'
  BY DEF Recorded, PS!matches
<1> QED
  BY <1>2, <1>3, <1>4

\* The desktop's staging moves: what its folder and its records must be.
LEMMA DesktopSteps ==
  ASSUME Bench, NEW w \in Stager, w # PS!rest /\ w.hashed => w.left # <<>>,
         writing' = [writing EXCEPT !["desktop"] = w],
         files' \in [PS!Stagers -> Folder],
         recorded' \in [script : Script \cup {PS!noProfile}, payloads : SUBSET Names],
         gated' \in {"none", "passed", "stale"}
  PROVE  Bench' /\ writing'["desktop"] = w
<1>1. /\ writing \in [PS!Stagers -> Stager] /\ writing'["desktop"] = w
      /\ writing'["command"] = writing["command"] /\ writing' \in [PS!Stagers -> Stager]
  BY DEF Bench, PS!Stagers
<1>2. Bench'
  BY <1>1 DEF Bench, PS!Stagers
<1> QED
  BY <1>1, <1>2

LEMMA OperatorSteps ==
  ASSUME PackagesInv, PS!Edit \/ PS!Replace \/ PS!Gate
  PROVE  PackagesInv'
<1> USE DEF PackagesInv
<1>1. /\ image = PS!nothing /\ UNCHANGED <<image, task, programs, marker, cache, runs, mutex>>
      /\ UNCHANGED <<files, writing, recorded, stagings>>
  BY DEF PS!Edit, PS!Replace, PS!Gate, PS!preparing, PS!machine
<1>2. Stock'
  <2>1. CASE PS!Edit
    <3>1. profile' \in Profiles /\ UNCHANGED <<source, stagings>> /\ troubles' = troubles + 1 /\ troubles < MaxTroubles
      BY <2>1 DEF PS!Edit, PS!trouble
    <3> QED
      BY <1>1, <3>1, BoundsAssumption DEF Stock
  <2>2. CASE PS!Replace
    <3>a. /\ UNCHANGED <<profile, stagings>> /\ troubles' = troubles + 1 /\ troubles < MaxTroubles
          /\ \E n \in {e.id : e \in PS!ToSet(PS!payloads(profile))} : \E c \in PS!contents :
               source' = [source EXCEPT ![n] = c]
      BY <2>2 DEF PS!Replace, PS!trouble
    <3>1. PICK n \in {e.id : e \in PS!ToSet(PS!payloads(profile))} : \E c \in PS!contents :
               source' = [source EXCEPT ![n] = c]
      BY <3>a
    <3>2. source' \in [Names -> PS!contents]
      BY <3>1 DEF Stock
    <3> QED
      BY <1>1, <3>a, <3>2, BoundsAssumption DEF Stock
  <2>3. CASE PS!Gate
    BY <1>1, <2>3 DEF PS!Gate, Stock
  <2> QED
    BY <2>1, <2>2, <2>3
<1>3. gated' = gated \/ PS!Gate
  BY DEF PS!Edit, PS!Replace
<1>4. Bench'
  BY <1>1, <1>3 DEF Bench, PS!Gate
<1>5. Staging'
  BY <1>1 DEF Staging
<1>6. Recorded'
  BY <1>1, <1>3 DEF Recorded, PS!Gate, PS!matches
<1> QED
  BY <1>1, <1>2, <1>4, <1>5, <1>6, BenchSteps

\* What the steps of a staging leave alone.
LEMMA StagingFrame ==
  ASSUME PackagesInv, NEW s \in PS!Stagers,
         PS!Stage(s) \/ PS!Script(s) \/ PS!Payloads(s) \/ PS!Interrupt(s) \/ PS!Copy \/ PS!Hash \/ PS!CopyHashed
  PROVE  /\ image = PS!nothing /\ UNCHANGED <<image, task, programs, marker, cache, runs, mutex>>
         /\ Stock'
<1> USE DEF PackagesInv
<1>1. /\ image = PS!nothing /\ UNCHANGED <<image, task, programs, marker, cache, runs, mutex, profile, source>>
  BY DEF PS!Stage, PS!Script, PS!Payloads, PS!Interrupt, PS!Copy, PS!Hash, PS!CopyHashed, PS!preparing, PS!machine
<1>2. /\ troubles' = troubles \/ (troubles' = troubles + 1 /\ troubles < MaxTroubles)
      /\ stagings' = stagings \/ (stagings' = stagings + 1 /\ stagings < MaxStagings)
  BY DEF PS!Stage, PS!Script, PS!Payloads, PS!Interrupt, PS!Copy, PS!Hash, PS!CopyHashed, PS!trouble
<1>3. /\ troubles' \in Nat /\ troubles' <= MaxTroubles /\ stagings' \in Nat /\ stagings' <= MaxStagings
  BY <1>2, BoundsAssumption DEF Stock
<1> QED
  BY <1>1, <1>3 DEF Stock

LEMMA StagerFields ==
  ASSUME Bench, NEW s \in PS!Stagers, writing[s] # PS!rest
  PROVE  /\ writing[s].stage \in {"script", "payloads"} /\ writing[s].of \in ValidProfile
         /\ writing[s].left \in Seq(Entry) /\ writing[s].copied \in SUBSET Names
         /\ writing[s].hashed \in BOOLEAN
         /\ writing[s] \in [stage : {"script", "payloads"}, of : ValidProfile, left : Seq(Entry),
                            copied : SUBSET Names, hashed : BOOLEAN]
<1>1. writing[s] \in Stager
  BY DEF Bench
<1>2. writing[s] \in [stage : {"script", "payloads"}, of : ValidProfile, left : Seq(Entry),
                      copied : SUBSET Names, hashed : BOOLEAN]
  BY <1>1, States
<1> QED
  BY <1>2

LEMMA StageKeeps ==
  ASSUME PackagesInv, NEW s \in PS!Stagers, PS!Stage(s)
  PROVE  PackagesInv'
<1> DEFINE w == [stage |-> IF s = "desktop" THEN "script" ELSE "payloads", of |-> profile,
                 left |-> PS!payloads(profile), copied |-> {}, hashed |-> FALSE]
<1>1. /\ image = PS!nothing /\ UNCHANGED <<image, task, programs, marker, cache, runs, mutex>> /\ Stock'
  BY StagingFrame
<1>2. /\ writing' = [writing EXCEPT ![s] = w] /\ UNCHANGED <<files, recorded, gated>> /\ profile \in ValidProfile
  BY DEF PS!Stage, ValidProfile, PackagesInv, Stock
<1>3. /\ w \in Stager /\ w.hashed = FALSE /\ w.of = profile /\ w.copied = {} /\ w.left = PS!payloads(profile)
      /\ w.stage = IF s = "desktop" THEN "script" ELSE "payloads"
  BY <1>2, ProfileFacts DEF Stager
<1> HIDE DEF w
<1>4. Bench /\ Staging /\ Recorded /\ files' \in [PS!Stagers -> Folder]
  BY <1>2 DEF PackagesInv, Bench
<1>5. CASE s = "command"
  <2>1. Bench' /\ Staging' /\ Recorded'
    BY <1>2, <1>3, <1>4, <1>5, CommandSteps
  <2> QED
    BY <1>1, <2>1, BenchSteps
<1>6. CASE s = "desktop"
  <2>1. Bench' /\ writing'["desktop"] = w
    BY <1>2, <1>3, <1>4, <1>6, DesktopSteps DEF Bench
  <2>2. Staging'
    BY <1>3, <1>6, <2>1 DEF Staging, covered
  <2>3. Recorded'
    BY <1>2, <1>4 DEF Recorded, PS!matches
  <2> QED
    BY <1>1, <2>1, <2>2, <2>3, BenchSteps
<1> QED
  BY <1>5, <1>6 DEF PS!Stagers

LEMMA InterruptKeeps ==
  ASSUME PackagesInv, NEW s \in PS!Stagers, PS!Interrupt(s)
  PROVE  PackagesInv'
<1>1. /\ image = PS!nothing /\ UNCHANGED <<image, task, programs, marker, cache, runs, mutex>> /\ Stock'
  BY StagingFrame
<1>2. writing' = [writing EXCEPT ![s] = PS!rest] /\ UNCHANGED <<files, recorded, gated>>
  BY DEF PS!Interrupt
<1>3. Bench /\ Staging /\ Recorded /\ files' \in [PS!Stagers -> Folder]
  BY <1>2 DEF PackagesInv, Bench
<1>4. CASE s = "command"
  <2>1. Bench' /\ Staging' /\ Recorded'
    BY <1>2, <1>3, <1>4, States, CommandSteps
  <2> QED
    BY <1>1, <2>1, BenchSteps
<1>5. CASE s = "desktop"
  <2>1. Bench' /\ writing'["desktop"] = PS!rest
    BY <1>2, <1>3, <1>5, States, DesktopSteps DEF Bench
  <2>2. Staging' /\ Recorded'
    BY <1>2, <1>3, <2>1 DEF Staging, Recorded, PS!matches
  <2> QED
    BY <1>1, <2>1, <2>2, BenchSteps
<1> QED
  BY <1>4, <1>5 DEF PS!Stagers

LEMMA ScriptKeeps ==
  ASSUME PackagesInv, NEW s \in PS!Stagers, PS!Script(s)
  PROVE  PackagesInv'
<1> DEFINE v == writing[s]
           w == IF s = "desktop" THEN [v EXCEPT !.stage = "payloads"] ELSE PS!rest
<1>1. /\ image = PS!nothing /\ UNCHANGED <<image, task, programs, marker, cache, runs, mutex>> /\ Stock'
  BY StagingFrame
<1>2. /\ Bench /\ Staging /\ Recorded /\ files \in [PS!Stagers -> Folder] /\ writing \in [PS!Stagers -> Stager]
      /\ v.stage = "script" /\ v # PS!rest
  <2>1. v.stage = "script" /\ v \in Stager
    BY DEF PS!Script, PackagesInv, Bench
  <2> QED
    BY <2>1, States DEF PackagesInv, Bench
<1>3. /\ v.of \in ValidProfile /\ PS!generated(v.of) \in Script /\ PS!generated(v.of) # PS!noProfile
      /\ v \in [stage : {"script", "payloads"}, of : ValidProfile, left : Seq(Entry),
                copied : SUBSET Names, hashed : BOOLEAN]
  BY <1>2, StagerFields, ProfileFacts
<1>4. /\ writing' = [writing EXCEPT ![s] = w] /\ UNCHANGED recorded /\ gated' = PS!rewritten(s)
      /\ files' = [files EXCEPT ![s].script = PS!generated(v.of)]
  BY <1>2 DEF PS!Script
<1>5. files' \in [PS!Stagers -> Folder] /\ files'[s].script = PS!generated(v.of)
  <2>1. files[s] \in Folder
    BY <1>2
  <2>2. [files[s] EXCEPT !.script = PS!generated(v.of)] \in Folder
        /\ [files[s] EXCEPT !.script = PS!generated(v.of)].script = PS!generated(v.of)
    BY <1>3, <2>1 DEF Folder
  <2> QED
    BY <1>2, <1>4, <2>2
<1>6. CASE s = "command"
  <2>1. w = PS!rest /\ gated' = gated /\ files'["desktop"] = files["desktop"]
    BY <1>2, <1>4, <1>6 DEF PS!rewritten, PS!Stagers
  <2>2. Bench' /\ Staging' /\ Recorded'
    BY <1>2, <1>4, <1>5, <1>6, <2>1, States, CommandSteps
  <2> QED
    BY <1>1, <2>2, BenchSteps
<1>7. CASE s = "desktop"
  <2>1. /\ w \in Stager /\ w.stage = "payloads" /\ w.of = v.of /\ w.left = v.left /\ w.copied = v.copied
        /\ w.hashed = v.hashed /\ w # PS!rest
    BY <1>3, <1>7, States DEF Stager
  <2> HIDE DEF w
  <2>2. gated' \in {"none", "stale"}
    BY <1>2, <1>4, <1>7 DEF PS!rewritten, Bench
  <2>3. /\ v.hashed => v.left # <<>>
        /\ recorded' \in [script : Script \cup {PS!noProfile}, payloads : SUBSET Names]
    BY <1>2, <1>4 DEF Bench
  <2>4. Bench' /\ writing'["desktop"] = w
    BY <1>2, <1>4, <1>5, <1>7, <2>1, <2>2, <2>3, DesktopSteps
  <2>5. covered(v.of, v.copied, ToSet(v.left)) /\ v.copied = {}
    BY <1>2, <1>7 DEF Staging
  <2>6. Staging'
    BY <1>5, <1>7, <2>1, <2>4, <2>5 DEF Staging
  <2>7. Recorded'
    BY <1>2, <1>3, <1>4, <1>5, <1>7, <2>2 DEF Recorded
  <2> QED
    BY <1>1, <2>4, <2>6, <2>7, BenchSteps
<1> QED
  BY <1>6, <1>7 DEF PS!Stagers

LEMMA HashKeeps ==
  ASSUME PackagesInv, PS!Hash
  PROVE  PackagesInv'
<1> DEFINE v == writing["command"]
<1>1. /\ image = PS!nothing /\ UNCHANGED <<image, task, programs, marker, cache, runs, mutex>> /\ Stock'
  BY StagingFrame DEF PS!Stagers
<1>2. Bench /\ Staging /\ Recorded /\ files \in [PS!Stagers -> Folder] /\ v \in Stager
  BY DEF PackagesInv, Bench, PS!Stagers
<1>3. /\ v.stage = "payloads" /\ v.left # <<>> /\ UNCHANGED <<files, recorded, gated>>
      /\ \/ writing' = [writing EXCEPT !["command"] = [v EXCEPT !.hashed = TRUE]]
         \/ writing' = [writing EXCEPT !["command"] = PS!rest]
  BY DEF PS!Hash
<1>4. v # PS!rest /\ "command" \in PS!Stagers
  BY <1>2, <1>3, States DEF PS!Stagers
<1>5. v \in [stage : {"script", "payloads"}, of : ValidProfile, left : Seq(Entry),
             copied : SUBSET Names, hashed : BOOLEAN]
  BY <1>2, <1>4, StagerFields
<1>6. [v EXCEPT !.hashed = TRUE] \in Stager /\ [v EXCEPT !.hashed = TRUE].left = v.left
  BY <1>5 DEF Stager
<1> DEFINE u == [v EXCEPT !.hashed = TRUE]
<1> HIDE DEF u
<1>7. Bench' /\ Staging' /\ Recorded'
  BY <1>2, <1>3, <1>6, States, CommandSteps DEF u
<1> QED
  BY <1>1, <1>7, BenchSteps

\* The head of what is left to copy is a package, the tail what is then left.
LEMMA NextEntry ==
  ASSUME NEW l \in Seq(Entry), l # <<>>
  PROVE  /\ Head(l) \in Entry /\ Head(l).id \in Names /\ Tail(l) \in Seq(Entry)
         /\ \A e \in ToSet(l) : e = Head(l) \/ e \in ToSet(Tail(l))
<1>1. /\ Head(l) = l[1] /\ Len(l) \in Nat /\ Len(l) > 0 /\ Head(l) \in Entry /\ Tail(l) \in Seq(Entry)
      /\ Len(Tail(l)) = Len(l) - 1 /\ \A i \in 1 .. Len(Tail(l)) : Tail(l)[i] = l[i + 1]
  BY HeadTailProperties, EmptySeq
<1>2. ASSUME NEW i \in 1 .. Len(l), i # 1 PROVE l[i] \in ToSet(Tail(l))
  <2>1. i - 1 \in 1 .. Len(Tail(l)) /\ i - 1 + 1 = i
    BY <1>1, <1>2
  <2>2. Tail(l)[i - 1] = l[i] /\ i - 1 \in DOMAIN Tail(l)
    BY <1>1, <2>1
  <2> QED
    BY <2>2 DEF ToSet
<1> QED
  BY <1>1, <1>2, ProfileFacts DEF ToSet

LEMMA CopyHashedKeeps ==
  ASSUME PackagesInv, PS!CopyHashed
  PROVE  PackagesInv'
<1> DEFINE v == writing["command"]  n == Head(v.left).id
           u == [v EXCEPT !.left = Tail(@), !.copied = @ \cup {n}, !.hashed = FALSE]
<1>1. /\ image = PS!nothing /\ UNCHANGED <<image, task, programs, marker, cache, runs, mutex>> /\ Stock'
  BY StagingFrame DEF PS!Stagers
<1>2. Bench /\ Staging /\ Recorded /\ files \in [PS!Stagers -> Folder] /\ v \in Stager /\ Stock
  BY DEF PackagesInv, Bench, PS!Stagers
<1>3. /\ v.stage = "payloads" /\ v.hashed /\ UNCHANGED <<recorded, gated>>
      /\ files' = [files EXCEPT !["command"].payload[n] = source[n]]
      /\ \/ writing' = [writing EXCEPT !["command"] = u]
         \/ writing' = [writing EXCEPT !["command"] = PS!rest]
  BY DEF PS!CopyHashed, PS!next, PS!passed
<1>4. v # PS!rest /\ "command" \in PS!Stagers
  BY <1>2, <1>3, States DEF PS!Stagers
<1>5. v \in [stage : {"script", "payloads"}, of : ValidProfile, left : Seq(Entry),
             copied : SUBSET Names, hashed : BOOLEAN]
  BY <1>2, <1>4, StagerFields
<1>6. v.left # <<>> /\ v.left \in Seq(Entry)
  BY <1>2, <1>3, <1>4, <1>5 DEF Bench
<1>7. n \in Names /\ Tail(v.left) \in Seq(Entry)
  BY <1>6, NextEntry
<1>8. u \in Stager /\ u.hashed = FALSE
  BY <1>5, <1>7 DEF Stager
<1>9. files' \in [PS!Stagers -> Folder] /\ files'["desktop"] = files["desktop"]
  <2>1. files["command"] \in Folder /\ source[n] \in PS!contents
    BY <1>2, <1>4, <1>7 DEF Stock
  <2>2. [files["command"] EXCEPT !.payload[n] = source[n]] \in Folder
    BY <2>1 DEF Folder
  <2> QED
    BY <1>2, <1>3, <2>2 DEF PS!Stagers
<1> HIDE DEF u
<1>10. Bench' /\ Staging' /\ Recorded'
  BY <1>2, <1>3, <1>8, <1>9, States, CommandSteps
<1> QED
  BY <1>1, <1>10, BenchSteps

LEMMA CopyKeeps ==
  ASSUME PackagesInv, PS!Copy
  PROVE  PackagesInv'
<1> DEFINE v == writing["desktop"]  e == Head(v.left)  n == e.id
           good == source[n] = "good"
           took == [v EXCEPT !.left = Tail(@), !.copied = @ \cup {n}, !.hashed = FALSE]
           skip == [v EXCEPT !.left = Tail(@), !.copied = @ \cup {}, !.hashed = FALSE]
<1>1. /\ image = PS!nothing /\ UNCHANGED <<image, task, programs, marker, cache, runs, mutex>> /\ Stock'
  BY StagingFrame DEF PS!Stagers
<1>2. Bench /\ Staging /\ Recorded /\ files \in [PS!Stagers -> Folder] /\ v \in Stager /\ "desktop" \in PS!Stagers
  BY DEF PackagesInv, Bench, PS!Stagers
<1>3. /\ v.stage = "payloads" /\ v.left # <<>> /\ UNCHANGED recorded
      /\ \/ /\ good /\ files' = [files EXCEPT !["desktop"].payload[n] = source[n]]
            /\ writing' = [writing EXCEPT !["desktop"] = took]
         \/ /\ ~good /\ files' = files
            /\ \/ /\ source[n] = "none" /\ ~PS!payloadRequired(v.of, e)
                  /\ writing' = [writing EXCEPT !["desktop"] = skip]
               \/ writing' = [writing EXCEPT !["desktop"] = PS!rest]
      /\ gated' = IF files' = files THEN gated ELSE PS!rewritten("desktop")
  BY <1>2 DEF PS!Copy, PS!next, PS!passed, PS!desktopCopy
<1>4. v # PS!rest
  BY <1>2, <1>3, States
<1>5. /\ v \in [stage : {"script", "payloads"}, of : ValidProfile, left : Seq(Entry),
                copied : SUBSET Names, hashed : BOOLEAN]
      /\ v.of \in ValidProfile /\ v.left \in Seq(Entry) /\ v.copied \subseteq Names
  BY <1>2, <1>4, StagerFields
<1>6. /\ n \in Names /\ Tail(v.left) \in Seq(Entry)
      /\ \A x \in ToSet(v.left) : x = e \/ x \in ToSet(Tail(v.left))
  BY <1>3, <1>5, NextEntry
<1>7. /\ covered(v.of, v.copied, ToSet(v.left)) /\ files["desktop"].script = PS!generated(v.of)
      /\ \A m \in v.copied : files["desktop"].payload[m] = "good"
  BY <1>2, <1>3, <1>4 DEF Staging
<1>8. /\ recorded' \in [script : Script \cup {PS!noProfile}, payloads : SUBSET Names]
      /\ gated' \in {"none", "passed", "stale"} /\ (gated' = "passed" => files' = files /\ gated = "passed")
  BY <1>2, <1>3 DEF Bench, PS!rewritten
<1>9. CASE good /\ files' = [files EXCEPT !["desktop"].payload[n] = source[n]] /\ writing' = [writing EXCEPT !["desktop"] = took]
  <2>1. took \in Stager /\ took.hashed = FALSE /\ took # PS!rest
    BY <1>5, <1>6, States DEF Stager
  <2>2. took.left = Tail(v.left) /\ took.copied = v.copied \cup {n} /\ took.of = v.of /\ took.stage = "payloads"
    BY <1>3, <1>5
  <2> HIDE DEF took
  <2>3. /\ files' \in [PS!Stagers -> Folder] /\ files'["desktop"].script = files["desktop"].script
        /\ files'["desktop"].payload[n] = "good"
        /\ \A m \in Names \ {n} : files'["desktop"].payload[m] = files["desktop"].payload[m]
    <3> DEFINE f == [files["desktop"] EXCEPT !.payload[n] = source[n]]
    <3>1. files["desktop"] \in Folder
      BY <1>2
    <3>2. /\ f \in Folder /\ f.script = files["desktop"].script /\ f.payload[n] = "good"
          /\ \A m \in Names \ {n} : f.payload[m] = files["desktop"].payload[m]
      BY <1>6, <1>9, <3>1 DEF Folder, PS!contents
    <3>3. files' = [files EXCEPT !["desktop"] = f]
      BY <1>9
    <3> HIDE DEF f
    <3>4. files'["desktop"] = f /\ files' \in [PS!Stagers -> Folder]
      BY <1>2, <3>2, <3>3
    <3> QED
      BY <3>2, <3>4
  <2>4. Bench' /\ writing'["desktop"] = took
    BY <1>2, <1>8, <1>9, <2>1, <2>3, DesktopSteps
  <2>5. covered(v.of, took.copied, ToSet(took.left))
    <3> SUFFICES ASSUME NEW x \in ToSet(PS!payloads(v.of)), PS!payloadRequired(v.of, x)
                 PROVE  x.id \in took.copied \/ x \in ToSet(took.left)
      BY DEF covered
    <3>1. x.id \in v.copied \/ x \in ToSet(v.left)
      BY <1>7 DEF covered
    <3> QED
      BY <1>6, <2>2, <3>1
  <2>6. \A m \in took.copied : files'["desktop"].payload[m] = "good"
    BY <1>5, <1>7, <2>2, <2>3
  <2>7. Staging'
    <3>1. /\ covered(took.of, took.copied, ToSet(took.left)) /\ files'["desktop"].script = PS!generated(took.of)
          /\ took.stage # "script"
      BY <1>7, <2>2, <2>3, <2>5
    <3> QED
      BY <2>4, <2>6, <3>1 DEF Staging, covered
  <2>8. files'["desktop"].script # PS!noProfile /\ files["desktop"].script # PS!noProfile
    BY <1>5, <1>7, <2>3, ProfileFacts
  <2>9. Recorded'
    <3>1. recorded'.script # PS!noProfile => covered(recorded'.script.of, recorded'.payloads, {})
      BY <1>2, <1>3 DEF Recorded
    <3>2. gated' = "passed" => recorded'.script # PS!noProfile /\ PS!matches'
      BY <1>2, <1>3, <1>8 DEF Recorded, PS!matches
    <3> QED
      BY <2>8, <3>1, <3>2 DEF Recorded, covered
  <2> QED
    BY <1>1, <2>4, <2>7, <2>9, BenchSteps
<1>10. CASE files' = files /\ writing' = [writing EXCEPT !["desktop"] = PS!rest]
  <2>1. Bench' /\ writing'["desktop"] = PS!rest
    BY <1>2, <1>8, <1>10, States, DesktopSteps
  <2>2. Staging' /\ Recorded'
    BY <1>2, <1>3, <1>8, <1>10, <2>1 DEF Staging, Recorded, PS!matches
  <2> QED
    BY <1>1, <2>1, <2>2, BenchSteps
<1>11. CASE files' = files /\ ~PS!payloadRequired(v.of, e) /\ writing' = [writing EXCEPT !["desktop"] = skip]
  <2>1. skip \in Stager /\ skip.hashed = FALSE /\ skip # PS!rest
    BY <1>5, <1>6, States DEF Stager
  <2>2. skip.left = Tail(v.left) /\ skip.copied = v.copied /\ skip.of = v.of /\ skip.stage = "payloads"
    BY <1>3, <1>5
  <2> HIDE DEF skip
  <2>3. Bench' /\ writing'["desktop"] = skip
    BY <1>2, <1>8, <1>11, <2>1, DesktopSteps
  <2>4. covered(v.of, skip.copied, ToSet(skip.left))
    <3> SUFFICES ASSUME NEW x \in ToSet(PS!payloads(v.of)), PS!payloadRequired(v.of, x)
                 PROVE  x.id \in skip.copied \/ x \in ToSet(skip.left)
      BY DEF covered
    <3>1. x.id \in v.copied \/ x \in ToSet(v.left)
      BY <1>7 DEF covered
    <3> QED
      BY <1>6, <1>11, <2>2, <3>1
  <2>5. Staging'
    BY <1>7, <1>11, <2>2, <2>3, <2>4 DEF Staging, covered
  <2>6. Recorded'
    BY <1>2, <1>3, <1>8, <1>11 DEF Recorded, PS!matches
  <2> QED
    BY <1>1, <2>3, <2>5, <2>6, BenchSteps
<1> QED
  BY <1>3, <1>9, <1>10, <1>11

LEMMA PayloadsKeeps ==
  ASSUME PackagesInv, NEW s \in PS!Stagers, PS!Payloads(s)
  PROVE  PackagesInv'
<1> DEFINE v == writing[s]  w == [v EXCEPT !.stage = "script"]
<1>1. /\ image = PS!nothing /\ UNCHANGED <<image, task, programs, marker, cache, runs, mutex>> /\ Stock'
  BY StagingFrame
<1>2. Bench /\ Staging /\ Recorded /\ files \in [PS!Stagers -> Folder] /\ v \in Stager
  BY DEF PackagesInv, Bench
<1>3. /\ v.stage = "payloads" /\ v.left = <<>> /\ UNCHANGED <<files, gated>>
      /\ \/ /\ s = "desktop" /\ writing' = [writing EXCEPT ![s] = PS!rest]
            /\ \/ recorded' = [script |-> PS!generated(v.of), payloads |-> v.copied]
               \/ recorded' = recorded
         \/ s = "command" /\ writing' = [writing EXCEPT ![s] = w] /\ recorded' = recorded
  BY <1>2 DEF PS!Payloads
<1>4. v # PS!rest
  BY <1>2, <1>3, States
<1>5. /\ v \in [stage : {"script", "payloads"}, of : ValidProfile, left : Seq(Entry),
                copied : SUBSET Names, hashed : BOOLEAN]
      /\ v.of \in ValidProfile /\ v.copied \subseteq Names
  BY <1>2, <1>4, StagerFields
<1>6. CASE s = "command"
  <2>1. w \in Stager /\ w.hashed = v.hashed /\ w.left = v.left
    BY <1>5 DEF Stager
  <2>2. v.hashed => v.left # <<>>
    BY <1>2, <1>4 DEF Bench
  <2> HIDE DEF w
  <2>3. Bench' /\ Staging' /\ Recorded'
    BY <1>2, <1>3, <1>6, <2>1, <2>2, CommandSteps
  <2> QED
    BY <1>1, <2>3, BenchSteps
<1>7. CASE s = "desktop"
  <2>1. /\ covered(v.of, v.copied, ToSet(v.left)) /\ files["desktop"].script = PS!generated(v.of)
        /\ \A m \in v.copied : files["desktop"].payload[m] = "good"
    BY <1>2, <1>3, <1>4, <1>7 DEF Staging
  <2>2. covered(v.of, v.copied, {})
    <3>1. \A x : x \notin ToSet(v.left)
      BY <1>3 DEF ToSet
    <3> QED
      BY <2>1, <3>1 DEF covered
  <2>3. PS!generated(v.of) \in Script /\ PS!generated(v.of) # PS!noProfile /\ PS!generated(v.of).of = v.of
    BY <1>5, ProfileFacts
  <2>4. recorded' \in [script : Script \cup {PS!noProfile}, payloads : SUBSET Names]
    BY <1>2, <1>3, <1>5, <1>7, <2>3 DEF Bench
  <2>5. gated' \in {"none", "passed", "stale"}
    BY <1>2, <1>3 DEF Bench
  <2>6. writing' = [writing EXCEPT !["desktop"] = PS!rest]
    BY <1>3, <1>7
  <2>7. Bench' /\ writing'["desktop"] = PS!rest
    BY <1>2, <1>3, <2>4, <2>5, <2>6, States, DesktopSteps
  <2>8. Staging'
    BY <2>7 DEF Staging
  <2>9. Recorded'
    <3>1. CASE recorded' = recorded
      BY <1>2, <1>3, <3>1 DEF Recorded, PS!matches
    <3>2. CASE recorded' = [script |-> PS!generated(v.of), payloads |-> v.copied]
      <4>1. recorded'.script = PS!generated(v.of) /\ recorded'.payloads = v.copied
        BY <3>2
      <4>2. covered(recorded'.script.of, recorded'.payloads, {}) /\ files'["desktop"].script # PS!noProfile
        BY <1>3, <2>1, <2>2, <2>3, <4>1
      <4>3. PS!matches' /\ recorded'.script # PS!noProfile
        BY <1>3, <2>1, <2>3, <4>1 DEF PS!matches
      <4> QED
        BY <4>2, <4>3 DEF Recorded, covered
    <3> QED
      BY <1>3, <1>7, <3>1, <3>2
  <2> QED
    BY <1>1, <2>7, <2>8, <2>9, BenchSteps
<1> QED
  BY <1>6, <1>7 DEF PS!Stagers

-----------------------------------------------------------------------------
\* The bench is left as it began, with an image of one of its scripts.
LEMMA ImageLeaves ==
  ASSUME PackagesInv, PS!leavesBench, image = PS!nothing, Imaged', PS!ImageIsComplete',
         image' # PS!nothing, task' \in BOOLEAN,
         UNCHANGED <<programs, marker, cache, runs, mutex, troubles>>
  PROVE  PackagesInv'
<1> USE DEF PackagesInv
<1>1. /\ profile' = image'.script.of /\ source' = PS!allGood /\ files' = PS!noFiles
      /\ writing' = [s \in PS!Stagers |-> PS!rest] /\ recorded' = PS!unstaged /\ gated' = "none" /\ stagings' = 0
  BY DEF PS!leavesBench
<1>2. profile' \in Profiles
  <2>1. image'.script \in Script
    BY DEF Imaged
  <2> QED
    BY <1>1, <2>1, ScriptFacts DEF ValidProfile
<1>3. Stock'
  BY <1>1, <1>2, BoundsAssumption DEF Stock, PS!allGood, PS!contents
<1>4. Held'
  BY DEF Held
<1>5. Bench'
  BY <1>1, States DEF Bench, PS!noFiles, PS!unstaged, Folder, PS!contents
<1>6. Staging' /\ Recorded'
  BY <1>1 DEF Staging, Recorded, PS!unstaged, PS!Stagers
<1>7. \A s \in PS!Starts : runs'[s] = PS!rest
  BY DEF Logon
<1>8. Logon'
  BY <1>7 DEF Logon
<1> QED
  BY <1>3, <1>4, <1>5, <1>6, <1>8

LEMMA ApplyKeeps ==
  ASSUME PackagesInv, PS!Apply
  PROVE  PackagesInv'
<1> DEFINE load == [m \in Names |-> IF m \in recorded.payloads THEN files["desktop"].payload[m] ELSE "none"]
<1>1. /\ image = PS!nothing /\ recorded.script # PS!noProfile /\ task' = TRUE /\ PS!leavesBench
      /\ UNCHANGED <<programs, marker, cache, runs, mutex, troubles>>
      /\ image' = [by |-> "desktop", script |-> files["desktop"].script, checked |-> gated = "passed", payload |-> load]
  BY DEF PS!Apply, PS!preparing
<1>2. Bench /\ Recorded
  BY DEF PackagesInv
<1>3. files["desktop"] \in Folder /\ recorded.payloads \subseteq Names
  BY <1>2 DEF Bench, PS!Stagers
<1>4. load \in [Names -> PS!contents]
  BY <1>3 DEF Folder, PS!contents
<1>5. files["desktop"].script \in Script
  BY <1>1, <1>2, <1>3 DEF Recorded, Folder
<1>6. Imaged' /\ image' # PS!nothing
  <2>1. (gated = "passed") \in BOOLEAN
    OBVIOUS
  <2> HIDE DEF load
  <2>2. image' \in [by : {"desktop", "command"}, script : Script, checked : BOOLEAN, payload : [Names -> PS!contents]]
    BY <1>1, <1>4, <1>5, <2>1
  <2>3. image'.by = "desktop"
    BY <1>1
  <2> QED
    BY <2>2, <2>3 DEF Imaged, PS!nothing
<1>7. PS!ImageIsComplete'
  <2>1. image'.script = files["desktop"].script /\ image'.payload = load /\ (image'.checked => gated = "passed")
    BY <1>1
  <2> SUFFICES ASSUME gated = "passed", NEW e \in PS!ToSet(PS!payloads(files["desktop"].script.of))
               PROVE  /\ PS!payloadRequired(files["desktop"].script.of, e) => load[e.id] = "good"
                      /\ load[e.id] # "bad"
    <3> DEFINE x == files["desktop"].script
    <3>1. image'.script = x /\ image'.payload = load /\ (image'.checked => gated = "passed")
      BY <2>1
    <3> HIDE DEF load, x
    <3>2. (image'.checked => \A e \in PS!ToSet(PS!payloads(x.of)) :
              (PS!payloadRequired(x.of, e) => load[e.id] = "good") /\ load[e.id] # "bad") => PS!ImageIsComplete'
      BY <3>1 DEF PS!ImageIsComplete
    <3> QED
      BY <3>1, <3>2 DEF x
  <2>2. /\ files["desktop"].script = recorded.script
        /\ \A m \in recorded.payloads : files["desktop"].payload[m] = "good"
        /\ covered(recorded.script.of, recorded.payloads, {})
    BY <1>1, <1>2 DEF Recorded, PS!matches
  <2>3. e.id \in Names
    <3>1. files["desktop"].script.of \in ValidProfile
      BY <1>5, ScriptFacts
    <3>2. PS!payloads(files["desktop"].script.of) \in Seq(Entry)
      BY <3>1, ProfileFacts
    <3>3. e \in Entry
      BY <3>2 DEF PS!ToSet
    <3> QED
      BY <3>3, ProfileFacts
  <2>4. e \in ToSet(PS!payloads(files["desktop"].script.of))
    BY DEF PS!ToSet, ToSet
  <2>5. PS!payloadRequired(files["desktop"].script.of, e) => e.id \in recorded.payloads
    BY <2>2, <2>4 DEF covered
  <2> QED
    BY <2>2, <2>3, <2>5
<1> QED
  BY <1>1, <1>6, <1>7, ImageLeaves

LEMMA CarryKeeps ==
  ASSUME PackagesInv, PS!Carry
  PROVE  PackagesInv'
<1>1. /\ image = PS!nothing /\ files["command"].script # PS!noProfile /\ task' = task /\ PS!leavesBench
      /\ UNCHANGED <<programs, marker, cache, runs, mutex, troubles>>
      /\ image' = [by |-> "command", checked |-> FALSE, script |-> files["command"].script,
                   payload |-> files["command"].payload]
  BY DEF PS!Carry, PS!preparing, PS!machine
<1>2. files["command"] \in Folder
  BY DEF PackagesInv, Bench, PS!Stagers
<1>3. Imaged' /\ image' # PS!nothing
  <2>1. image' \in [by : {"desktop", "command"}, script : Script, checked : BOOLEAN, payload : [Names -> PS!contents]]
    BY <1>1, <1>2 DEF Folder
  <2>2. image'.by = "command"
    BY <1>1
  <2> QED
    BY <2>1, <2>2 DEF Imaged, PS!nothing
<1>4. PS!ImageIsComplete' /\ task' \in BOOLEAN
  BY <1>1 DEF PS!ImageIsComplete, PackagesInv, Held
<1> QED
  BY <1>1, <1>3, <1>4, ImageLeaves

\* What is known of a running script.
LEMMA RunFacts ==
  ASSUME PackagesInv, NEW s \in PS!Starts, runs[s] # PS!rest
  PROVE  /\ image # PS!nothing /\ mutex /\ runs[s] \in RunState /\ Goes(runs[s], cache)
         /\ \A t \in PS!Starts \ {s} : runs[t] = PS!rest
         /\ Len(PS!list) \in Nat /\ runs[s].at \in 1 .. Len(PS!list) + 1
         /\ runs[s].at <= Len(PS!list) => PS!current(s).id \in Names
         /\ runs[s].stage # "verify" => runs[s].at <= Len(PS!list)
<1>1. Logon /\ Imaged
  BY DEF PackagesInv
<1>2. /\ image # PS!nothing /\ mutex /\ runs[s] \in RunState /\ Goes(runs[s], cache)
      /\ \A t \in PS!Starts \ {s} : runs[t] = PS!rest
  BY <1>1, States DEF Logon
<1>3. Len(PS!list) \in Nat /\ \A i \in 1 .. Len(PS!list) : PS!list[i].id \in Names
  BY <1>1, <1>2, ImageFacts
<1>4. runs[s].at \in 1 .. Len(PS!list) + 1 /\ (runs[s].stage # "verify" => runs[s].at <= Len(PS!list))
  BY <1>2 DEF Goes
<1>5. runs[s].at <= Len(PS!list) => runs[s].at \in 1 .. Len(PS!list)
  BY <1>3, <1>4
<1> QED
  BY <1>2, <1>3, <1>4, <1>5 DEF PS!current

\* What a step of the installed machine must keep.
LEMMA LogonSteps ==
  ASSUME PackagesInv,
         UNCHANGED <<profile, source, files, writing, recorded, gated, stagings, image>>,
         task' \in BOOLEAN, mutex' \in BOOLEAN, \A n \in programs' : n \in Names,
         marker' \in [Names -> {"none", "installing", "installed", "failed", "unreadable"}],
         cache' \in [Names -> PS!contents],
         troubles' = troubles \/ (troubles' = troubles + 1 /\ troubles < MaxTroubles),
         Logon'
  PROVE  PackagesInv'
<1>1. Stock'
  BY BoundsAssumption DEF PackagesInv, Stock
<1>2. Held'
  BY DEF Held
<1>3. Bench'
  BY DEF PackagesInv, Bench
<1>4. Staging' /\ Recorded'
  BY DEF PackagesInv, Staging, Recorded, PS!matches, covered
<1>5. Imaged' /\ PS!ImageIsComplete'
  BY DEF PackagesInv, Imaged, PS!ImageIsComplete
<1> QED
  BY <1>1, <1>2, <1>3, <1>4, <1>5 DEF PackagesInv

\* The running script moves or ends.
LEMMA RunnerMoves ==
  ASSUME PackagesInv, UNCHANGED image, NEW s \in PS!Starts, runs[s] # PS!rest,
         NEW r, runs' = [runs EXCEPT ![s] = r],
         r = PS!rest \/ (r \in RunState /\ Goes(r, cache') /\ mutex' = mutex)
  PROVE  Logon'
<1>1. Logon
  BY DEF PackagesInv
<1>2. /\ image # PS!nothing /\ mutex /\ \A t \in PS!Starts \ {s} : runs[t] = PS!rest
  BY RunFacts
<1>3. /\ runs' \in [PS!Starts -> {PS!rest} \cup RunState] /\ runs'[s] = r
      /\ \A t \in PS!Starts \ {s} : runs'[t] = PS!rest
  BY <1>1, <1>2 DEF Logon
<1>4. Goes(r, cache') => Goes(r, cache)'
  BY <1>3 DEF Goes, contentAt, PS!list
<1>5. ASSUME NEW t \in PS!Starts, runs'[t] # PS!rest
      PROVE  /\ image' # PS!nothing /\ mutex' /\ (\A u \in PS!Starts \ {t} : runs'[u] = PS!rest)
             /\ Goes(runs[t], cache)'
  <2>1. t = s
    BY <1>3, <1>5
  <2>2. r # PS!rest /\ runs'[t] = r
    BY <1>3, <1>5, <2>1
  <2>3. Goes(runs[t], cache)'
    BY <2>2 DEF Goes, contentAt, PS!list
  <2> QED
    BY <1>2, <1>3, <2>1, <2>2, <2>3
<1> QED
  BY <1>3, <1>5 DEF Logon

LEMMA RunKeeps ==
  ASSUME PackagesInv, NEW s \in PS!Starts, PS!Run(s)
  PROVE  PackagesInv'
<1> DEFINE r == [stage |-> "verify", at |-> 1, attempt |-> 1, network |-> FALSE, seen |-> {}]
<1>1. /\ image # PS!nothing /\ ~mutex /\ mutex' = TRUE /\ runs' = [runs EXCEPT ![s] = r]
      /\ UNCHANGED <<profile, source, files, writing, recorded, gated, stagings, image,
                     task, programs, marker, cache, troubles>>
  BY DEF PS!Run, PS!mayRun, PS!staged, PS!workbench
<1>2. Logon /\ Imaged /\ Stock /\ Held
  BY DEF PackagesInv
<1>3. \A t \in PS!Starts : runs[t] = PS!rest
  BY <1>1, <1>2 DEF Logon
<1>4. Len(PS!list) \in Nat
  BY <1>1, <1>2, ImageFacts
<1>5. r \in RunState /\ r.at = 1 /\ r.seen = {} /\ r.stage = "verify"
  BY DEF RunState
<1> HIDE DEF r
<1>6. /\ runs' \in [PS!Starts -> {PS!rest} \cup RunState] /\ runs'[s] = r
      /\ \A t \in PS!Starts \ {s} : runs'[t] = PS!rest
  BY <1>1, <1>2, <1>3, <1>5 DEF Logon
<1>7. Goes(r, cache)
  <2>1. r.seen = {PS!list[j].id : j \in 1 .. r.at - 1} /\ r.at \in 1 .. Len(PS!list) + 1
    BY <1>4, <1>5
  <2> QED
    BY <1>5, <2>1 DEF Goes
<1>8. Logon'
  <2> SUFFICES ASSUME NEW t \in PS!Starts, runs'[t] # PS!rest
               PROVE  /\ image' # PS!nothing /\ mutex' /\ (\A u \in PS!Starts \ {t} : runs'[u] = PS!rest)
                      /\ Goes(runs[t], cache)'
    BY <1>6 DEF Logon
  <2>1. t = s /\ runs'[t] = r
    BY <1>6
  <2>2. Goes(runs[t], cache)'
    BY <1>1, <1>7, <2>1 DEF Goes, contentAt, PS!list
  <2> QED
    BY <1>1, <1>6, <2>1, <2>2
<1> QED
  BY <1>1, <1>2, <1>8, LogonSteps DEF Stock, Held

\* A run at the next package.
LEMMA NextPackage ==
  ASSUME PackagesInv, NEW s \in PS!Starts, runs[s] # PS!rest, runs[s].at <= Len(PS!list),
         NEW c, NEW r,
         r = [runs[s] EXCEPT !.stage = "verify", !.at = @ + 1, !.seen = @ \cup {PS!current(s).id}]
  PROVE  r \in RunState /\ Goes(r, c)
<1>1. /\ runs[s] \in RunState /\ Goes(runs[s], cache) /\ Len(PS!list) \in Nat
      /\ runs[s].at \in 1 .. Len(PS!list) + 1 /\ PS!current(s).id \in Names
  BY RunFacts
<1>2. /\ r \in RunState /\ r.stage = "verify" /\ r.at = runs[s].at + 1
      /\ r.seen = runs[s].seen \cup {PS!list[runs[s].at].id}
  <2> DEFINE v == runs[s]  n == PS!current(s).id
  <2>1. /\ v \in [stage : {"verify", "payload", "network", "install", "installing"}, at : Nat, attempt : Nat,
                  network : BOOLEAN, seen : SUBSET Names]
        /\ v.at + 1 \in Nat /\ v.seen \cup {n} \in SUBSET Names
        /\ r = [v EXCEPT !.stage = "verify", !.at = v.at + 1, !.seen = v.seen \cup {n}]
    BY <1>1 DEF RunState
  <2>2. n = PS!list[v.at].id
    BY DEF PS!current
  <2> HIDE DEF v, n
  <2>3. r \in RunState /\ r.stage = "verify" /\ r.at = v.at + 1 /\ r.seen = v.seen \cup {n}
    BY <2>1 DEF RunState
  <2> QED
    BY <2>2, <2>3 DEF v
<1>3. runs[s].seen = {PS!list[j].id : j \in 1 .. runs[s].at - 1}
  BY <1>1 DEF Goes
<1>4. r.seen = {PS!list[j].id : j \in 1 .. r.at - 1}
  <2> DEFINE k == runs[s].at
  <2>1. k \in Nat /\ k >= 1 /\ r.at - 1 = k
    BY <1>1, <1>2
  <2>2. 1 .. k = (1 .. k - 1) \cup {k}
    BY <2>1
  <2> QED
    BY <1>2, <1>3, <2>1, <2>2
<1>5. r.at \in 1 .. Len(PS!list) + 1
  BY <1>1, <1>2
<1> QED
  BY <1>2, <1>4, <1>5 DEF Goes

\* A run that stays at its package.
LEMMA SamePackage ==
  ASSUME PackagesInv, NEW s \in PS!Starts, runs[s] # PS!rest, runs[s].at <= Len(PS!list),
         NEW c, NEW r \in RunState, r.at = runs[s].at, r.seen = runs[s].seen,
         r.stage \in {"install", "installing"} /\ PS!needsPayload(PS!current(s)) =>
           (IF image.payload[PS!current(s).id] # "none" THEN image.payload[PS!current(s).id]
            ELSE c[PS!current(s).id]) = "good"
  PROVE  Goes(r, c)
<1>1. Goes(runs[s], cache)
  BY RunFacts
<1> QED
  BY <1>1 DEF Goes, contentAt, PS!current

LEMMA Current ==
  ASSUME PackagesInv, NEW s \in PS!Starts, runs[s] # PS!rest,
         runs[s].stage \in {"install", "installing"}, PS!needsPayload(PS!current(s))
  PROVE  (IF image.payload[PS!current(s).id] # "none" THEN image.payload[PS!current(s).id]
          ELSE cache[PS!current(s).id]) = "good"
BY RunFacts DEF Goes, contentAt, PS!current

\* The parts of the invariant a step of the installed machine needs by name.
LEMMA Machine ==
  ASSUME PackagesInv
  PROVE  /\ task \in BOOLEAN /\ mutex \in BOOLEAN /\ (\A n \in programs : n \in Names)
         /\ marker \in [Names -> {"none", "installing", "installed", "failed", "unreadable"}]
         /\ cache \in [Names -> PS!contents]
         /\ \A s \in PS!Starts : /\ runs[s] \in {PS!rest} \cup RunState
                                 /\ runs[s].stage # "none" => runs[s] # PS!rest
         /\ runs \in [PS!Starts -> {PS!rest} \cup RunState]
BY States DEF PackagesInv, Stock, Held, Logon

\* What a step of a running script may change.
LEMMA ScriptSteps ==
  ASSUME PackagesInv, NEW s \in PS!Starts, runs[s] # PS!rest,
         UNCHANGED <<profile, source, files, writing, recorded, gated, stagings, image>>,
         task' \in BOOLEAN, mutex' \in {mutex, FALSE}, \A n \in programs' : n \in Names,
         marker' \in [Names -> {"none", "installing", "installed", "failed", "unreadable"}],
         cache' \in [Names -> PS!contents],
         troubles' = troubles \/ (troubles' = troubles + 1 /\ troubles < MaxTroubles),
         NEW r, runs' = [runs EXCEPT ![s] = r],
         r = PS!rest \/ (r \in RunState /\ Goes(r, cache') /\ mutex' = mutex)
  PROVE  PackagesInv'
<1>1. Logon'
  BY RunnerMoves
<1>2. mutex' \in BOOLEAN
  BY Machine
<1> QED
  BY <1>1, <1>2, LogonSteps

\* The step to the next package.
LEMMA GoesOn ==
  ASSUME runs \in [PS!Starts -> {PS!rest} \cup RunState], NEW s \in PS!Starts, runs[s] \in RunState,
         NEW n, PS!goOn(s, n)
  PROVE  runs' = [runs EXCEPT ![s] = [runs[s] EXCEPT !.stage = "verify", !.at = @ + 1, !.seen = @ \cup {n}]]
<1>1. /\ runs[s] \in [stage : {"verify", "payload", "network", "install", "installing"}, at : Nat, attempt : Nat,
                      network : BOOLEAN, seen : SUBSET Names]
      /\ DOMAIN runs = PS!Starts
  BY DEF RunState
<1> QED
  BY <1>1 DEF PS!goOn

LEMMA VerifyKeeps ==
  ASSUME PackagesInv, NEW s \in PS!Starts, PS!Verify(s)
  PROVE  PackagesInv'
<1> DEFINE v == runs[s]  n == PS!current(s).id
           x == IF PS!needsPayload(PS!current(s)) THEN "payload"
                ELSE IF PS!current(s).net /\ ~v.network THEN "network" ELSE "install"
           on == [v EXCEPT !.stage = "verify", !.at = @ + 1, !.seen = @ \cup {n}]
           ready == [v EXCEPT !.stage = x, !.attempt = 1]
<1>1. /\ v.stage = "verify" /\ v.at <= Len(PS!list)
      /\ \/ n \in programs /\ marker' = [marker EXCEPT ![n] = "installed"] /\ PS!goOn(s, n)
         \/ /\ marker' = [marker EXCEPT ![n] = IF @ = "unreadable" THEN "none" ELSE @]
            /\ runs' = [runs EXCEPT ![s].stage = x, ![s].attempt = 1]
      /\ UNCHANGED <<profile, source, files, writing, recorded, gated, stagings, image>>
      /\ UNCHANGED <<task, programs, cache, mutex, troubles>>
  BY DEF PS!Verify, PS!staged, PS!workbench
<1>2. v # PS!rest
  BY <1>1, Machine
<1>3. v \in RunState /\ n \in Names
  BY <1>1, <1>2, RunFacts
<1>4. marker' \in [Names -> {"none", "installing", "installed", "failed", "unreadable"}]
  BY <1>1, <1>3, Machine
<1>5. /\ runs' = [runs EXCEPT ![s] = on] \/ runs' = [runs EXCEPT ![s] = ready]
  <2>1. CASE PS!goOn(s, n)
    BY <1>3, <2>1, Machine, GoesOn
  <2>2. CASE runs' = [runs EXCEPT ![s].stage = x, ![s].attempt = 1]
    <3> HIDE DEF x
    <3>1. runs' = [runs EXCEPT ![s] = ready]
      BY <2>2, Machine
    <3> QED
      BY <3>1
  <2> QED
    BY <1>1, <2>1, <2>2
<1>6. on \in RunState /\ Goes(on, cache')
  BY <1>1, <1>2, NextPackage
<1>7. ready \in RunState /\ Goes(ready, cache')
  <2>1. x \in {"payload", "network", "install"} /\ (x = "install" => ~PS!needsPayload(PS!current(s)))
    OBVIOUS
  <2> HIDE DEF x
  <2>2. /\ ready \in RunState /\ ready.at = v.at /\ ready.seen = v.seen /\ ready.stage = x
    BY <1>3, <2>1 DEF RunState
  <2> HIDE DEF ready, v
  <2> QED
    BY <1>1, <1>2, <2>1, <2>2, SamePackage DEF v
<1> HIDE DEF on, ready
<1>8. PICK r \in {on, ready} : runs' = [runs EXCEPT ![s] = r]
  BY <1>5
<1>9. r \in RunState /\ Goes(r, cache')
  BY <1>6, <1>7, <1>8
<1> QED
  BY <1>1, <1>2, <1>4, <1>8, <1>9, Machine, ScriptSteps

LEMMA NetworkKeeps ==
  ASSUME PackagesInv, NEW s \in PS!Starts, PS!Network(s)
  PROVE  PackagesInv'
<1> DEFINE v == runs[s]
           x == IF PS!needsPayload(PS!current(s)) THEN "payload" ELSE "install"
           on == [v EXCEPT !.stage = x, !.network = TRUE]
<1>1. /\ v.stage = "network"
      /\ \/ mutex' = mutex /\ troubles' = troubles /\ runs' = [runs EXCEPT ![s].stage = x, ![s].network = TRUE]
         \/ /\ mutex' = FALSE /\ runs' = [runs EXCEPT ![s] = PS!rest]
            /\ troubles' = troubles \/ (troubles' = troubles + 1 /\ troubles < MaxTroubles)
      /\ UNCHANGED <<profile, source, files, writing, recorded, gated, stagings, image>>
      /\ UNCHANGED <<task, programs, cache, marker>>
  BY DEF PS!Network, PS!staged, PS!workbench, PS!ended, PS!trouble
<1>2. v # PS!rest
  BY <1>1, Machine
<1>3. v \in RunState /\ v.at <= Len(PS!list)
  BY <1>1, <1>2, RunFacts
<1>4. CASE mutex' = FALSE /\ runs' = [runs EXCEPT ![s] = PS!rest]
  BY <1>1, <1>2, <1>4, Machine, ScriptSteps
<1>5. CASE mutex' = mutex /\ runs' = [runs EXCEPT ![s].stage = x, ![s].network = TRUE]
  <2>1. runs' = [runs EXCEPT ![s] = on]
    BY <1>5, Machine
  <2>2. x \in {"payload", "install"} /\ (x = "install" => ~PS!needsPayload(PS!current(s)))
    OBVIOUS
  <2> HIDE DEF x
  <2>3. on \in RunState /\ on.at = v.at /\ on.seen = v.seen /\ on.stage = x
    BY <1>3, <2>2 DEF RunState
  <2> HIDE DEF on, v
  <2>4. Goes(on, cache')
    BY <1>2, <1>3, <2>2, <2>3, SamePackage DEF v
  <2> QED
    BY <1>1, <1>2, <1>5, <2>1, <2>3, <2>4, Machine, ScriptSteps DEF v
<1> QED
  BY <1>1, <1>4, <1>5

LEMMA DownloadKeeps ==
  ASSUME PackagesInv, NEW s \in PS!Starts, PS!Download(s)
  PROVE  PackagesInv'
<1> DEFINE v == runs[s]  n == PS!current(s).id  wait == [v EXCEPT !.stage = "network"]
<1>1. /\ v.stage = "payload"
      /\ \/ /\ mutex' = FALSE /\ runs' = [runs EXCEPT ![s] = PS!rest] /\ cache' = cache
            /\ troubles' = troubles \/ (troubles' = troubles + 1 /\ troubles < MaxTroubles)
         \/ runs' = [runs EXCEPT ![s].stage = "network"] /\ UNCHANGED <<cache, mutex, troubles>>
         \/ /\ UNCHANGED <<runs, mutex>> /\ \E c \in {"good", "bad"} : cache' = [cache EXCEPT ![n] = c]
            /\ troubles' = troubles \/ (troubles' = troubles + 1 /\ troubles < MaxTroubles)
      /\ UNCHANGED <<profile, source, files, writing, recorded, gated, stagings, image>>
      /\ UNCHANGED <<task, programs, marker>>
  BY DEF PS!Download, PS!staged, PS!workbench, PS!ended, PS!trouble
<1>2. v # PS!rest
  BY <1>1, Machine
<1>3. v \in RunState /\ v.at <= Len(PS!list) /\ n \in Names
  BY <1>1, <1>2, RunFacts
<1>4. CASE mutex' = FALSE /\ runs' = [runs EXCEPT ![s] = PS!rest] /\ cache' = cache
  BY <1>1, <1>2, <1>4, Machine, ScriptSteps
<1>5. CASE runs' = [runs EXCEPT ![s].stage = "network"] /\ UNCHANGED <<cache, mutex, troubles>>
  <2>1. runs' = [runs EXCEPT ![s] = wait]
    BY <1>5, Machine
  <2>2. wait \in RunState /\ wait.at = v.at /\ wait.seen = v.seen /\ wait.stage = "network"
    BY <1>3 DEF RunState
  <2> HIDE DEF wait, v
  <2>3. Goes(wait, cache')
    BY <1>2, <1>3, <2>2, SamePackage DEF v
  <2> QED
    BY <1>1, <1>2, <1>5, <2>1, <2>2, <2>3, Machine, ScriptSteps DEF v
<1>6. CASE UNCHANGED <<runs, mutex>> /\ \E c \in {"good", "bad"} : cache' = [cache EXCEPT ![n] = c]
  <2>1. runs' = [runs EXCEPT ![s] = v]
    BY <1>6, Machine
  <2>2. cache' \in [Names -> PS!contents]
    BY <1>6, Machine DEF PS!contents
  <2>3. Goes(v, cache')
    BY <1>1, <1>2, <1>3, SamePackage
  <2>4. /\ mutex' \in {mutex, FALSE} /\ mutex' = mutex
        /\ troubles' = troubles \/ (troubles' = troubles + 1 /\ troubles < MaxTroubles)
    BY <1>1, <1>6
  <2> HIDE DEF v
  <2> QED
    BY <1>1, <1>2, <1>3, <2>1, <2>2, <2>3, <2>4, Machine, ScriptSteps DEF v
<1> QED
  BY <1>1, <1>4, <1>5, <1>6

LEMMA CheckKeeps ==
  ASSUME PackagesInv, NEW s \in PS!Starts, PS!Check(s)
  PROVE  PackagesInv'
<1> DEFINE v == runs[s]  on == [v EXCEPT !.stage = "install"]
<1>1. /\ v.stage = "payload"
      /\ \/ PS!payload(s) = "good" /\ runs' = [runs EXCEPT ![s].stage = "install"] /\ mutex' = mutex
         \/ mutex' = FALSE /\ runs' = [runs EXCEPT ![s] = PS!rest]
      /\ UNCHANGED <<profile, source, files, writing, recorded, gated, stagings, image>>
      /\ UNCHANGED <<task, programs, marker, cache, troubles>>
  BY DEF PS!Check, PS!trusted, PS!staged, PS!workbench, PS!ended
<1>2. v # PS!rest
  BY <1>1, Machine
<1>3. v \in RunState /\ v.at <= Len(PS!list)
  BY <1>1, <1>2, RunFacts
<1>4. CASE mutex' = FALSE /\ runs' = [runs EXCEPT ![s] = PS!rest]
  BY <1>1, <1>2, <1>4, Machine, ScriptSteps
<1>5. CASE PS!payload(s) = "good" /\ runs' = [runs EXCEPT ![s].stage = "install"] /\ mutex' = mutex
  <2>1. runs' = [runs EXCEPT ![s] = on]
    BY <1>5, Machine
  <2>2. on \in RunState /\ on.at = v.at /\ on.seen = v.seen /\ on.stage = "install"
    BY <1>3 DEF RunState
  <2>3. (IF image.payload[PS!current(s).id] # "none" THEN image.payload[PS!current(s).id]
         ELSE cache'[PS!current(s).id]) = "good"
    BY <1>1, <1>5 DEF PS!payload, PS!carried
  <2> HIDE DEF on, v
  <2>4. Goes(on, cache')
    BY <1>2, <1>3, <2>2, <2>3, SamePackage DEF v
  <2> QED
    BY <1>1, <1>2, <1>5, <2>1, <2>2, <2>4, Machine, ScriptSteps DEF v
<1> QED
  BY <1>1, <1>4, <1>5

LEMMA InstallKeeps ==
  ASSUME PackagesInv, NEW s \in PS!Starts, PS!Install(s)
  PROVE  PackagesInv'
<1> DEFINE v == runs[s]  n == PS!current(s).id  on == [v EXCEPT !.stage = "installing"]
<1>1. /\ v.stage = "install" /\ marker' = [marker EXCEPT ![n] = "installing"]
      /\ runs' = [runs EXCEPT ![s].stage = "installing"]
      /\ UNCHANGED <<profile, source, files, writing, recorded, gated, stagings, image>>
      /\ UNCHANGED <<task, programs, cache, mutex, troubles>>
  BY DEF PS!Install, PS!staged, PS!workbench
<1>2. v # PS!rest
  BY <1>1, Machine
<1>3. v \in RunState /\ v.at <= Len(PS!list) /\ n \in Names
  BY <1>1, <1>2, RunFacts
<1>4. marker' \in [Names -> {"none", "installing", "installed", "failed", "unreadable"}]
  BY <1>1, <1>3, Machine
<1>5. runs' = [runs EXCEPT ![s] = on]
  BY <1>1, Machine
<1>6. on \in RunState /\ on.at = v.at /\ on.seen = v.seen /\ on.stage = "installing"
  BY <1>3 DEF RunState
<1>7. PS!needsPayload(PS!current(s)) =>
        (IF image.payload[PS!current(s).id] # "none" THEN image.payload[PS!current(s).id]
         ELSE cache'[PS!current(s).id]) = "good"
  BY <1>1, <1>2, Current
<1> HIDE DEF on, v
<1>8. Goes(on, cache')
  BY <1>2, <1>3, <1>6, <1>7, SamePackage DEF v
<1> QED
  BY <1>1, <1>2, <1>4, <1>5, <1>6, <1>8, Machine, ScriptSteps DEF v

LEMMA InstalledKeeps ==
  ASSUME PackagesInv, NEW s \in PS!Starts, PS!Installed(s)
  PROVE  PackagesInv'
<1> DEFINE v == runs[s]  n == PS!current(s).id
           on == [v EXCEPT !.stage = "verify", !.at = @ + 1, !.seen = @ \cup {n}]
<1>1. /\ v.stage = "installing" /\ marker' = [marker EXCEPT ![n] = "installed"]
      /\ programs' = programs \cup {n} /\ runs' = [runs EXCEPT ![s] = on]
      /\ UNCHANGED <<profile, source, files, writing, recorded, gated, stagings, image>>
      /\ UNCHANGED <<task, cache, mutex, troubles>>
  <2>1. PS!goOn(s, n)
    BY DEF PS!Installed
  <2>3. runs[s] \in RunState
    <3>1. runs[s].stage = "installing"
      BY DEF PS!Installed
    <3> QED
      BY <3>1, Machine, RunFacts
  <2>2. runs' = [runs EXCEPT ![s] = on]
    BY <2>1, <2>3, Machine, GoesOn
  <2> HIDE DEF on
  <2> QED
    BY <2>2 DEF PS!Installed, PS!staged, PS!workbench
<1>2. v # PS!rest
  BY <1>1, Machine
<1>3. v \in RunState /\ v.at <= Len(PS!list) /\ n \in Names
  BY <1>1, <1>2, RunFacts
<1>4. /\ marker' \in [Names -> {"none", "installing", "installed", "failed", "unreadable"}]
      /\ \A m \in programs' : m \in Names
  BY <1>1, <1>3, Machine
<1>5. on \in RunState /\ Goes(on, cache')
  BY <1>2, <1>3, NextPackage
<1> HIDE DEF on
<1> QED
  BY <1>1, <1>2, <1>4, <1>5, Machine, ScriptSteps

LEMMA FailedKeeps ==
  ASSUME PackagesInv, NEW s \in PS!Starts, PS!Failed(s)
  PROVE  PackagesInv'
<1> DEFINE v == runs[s]  n == PS!current(s).id
           again == [v EXCEPT !.stage = "install", !.attempt = @ + 1]
<1>1. /\ v.stage = "installing" /\ marker' = [marker EXCEPT ![n] = "failed"]
      /\ programs' \in {programs, programs \cup {n}} /\ troubles' = troubles + 1 /\ troubles < MaxTroubles
      /\ \/ mutex' = FALSE /\ runs' = [runs EXCEPT ![s] = PS!rest]
         \/ mutex' = mutex /\ runs' = [runs EXCEPT ![s].stage = "install", ![s].attempt = @ + 1]
      /\ UNCHANGED <<profile, source, files, writing, recorded, gated, stagings, image>>
      /\ UNCHANGED <<task, cache>>
  BY DEF PS!Failed, PS!trouble, PS!afterFailure, PS!ended, PS!staged, PS!workbench
<1>2. v # PS!rest
  BY <1>1, Machine
<1>3. v \in RunState /\ v.at <= Len(PS!list) /\ n \in Names
  BY <1>1, <1>2, RunFacts
<1>4. /\ marker' \in [Names -> {"none", "installing", "installed", "failed", "unreadable"}]
      /\ \A m \in programs' : m \in Names
  BY <1>1, <1>3, Machine
<1>5. CASE mutex' = FALSE /\ runs' = [runs EXCEPT ![s] = PS!rest]
  BY <1>1, <1>2, <1>4, <1>5, Machine, ScriptSteps
<1>6. CASE mutex' = mutex /\ runs' = [runs EXCEPT ![s].stage = "install", ![s].attempt = @ + 1]
  <2>1. runs' = [runs EXCEPT ![s] = again]
    BY <1>6, Machine
  <2>2. again \in RunState /\ again.at = v.at /\ again.seen = v.seen /\ again.stage = "install"
    <3>1. v.attempt + 1 \in Nat
      BY <1>3 DEF RunState
    <3>2. again = [v EXCEPT !.stage = "install", !.attempt = v.attempt + 1]
      OBVIOUS
    <3> HIDE DEF again, v
    <3> QED
      BY <1>3, <3>1, <3>2 DEF RunState
  <2>3. PS!needsPayload(PS!current(s)) =>
          (IF image.payload[PS!current(s).id] # "none" THEN image.payload[PS!current(s).id]
           ELSE cache'[PS!current(s).id]) = "good"
    BY <1>1, <1>2, Current
  <2> HIDE DEF again, v
  <2>4. Goes(again, cache')
    BY <1>2, <1>3, <2>2, <2>3, SamePackage DEF v
  <2> QED
    <3>1. /\ UNCHANGED <<profile, source, files, writing, recorded, gated, stagings, image, task, cache>>
          /\ troubles' = troubles + 1 /\ troubles < MaxTroubles /\ mutex' \in {mutex, FALSE} /\ mutex' = mutex
      BY <1>1, <1>6
    <3> QED
      BY <1>2, <1>4, <2>1, <2>2, <2>4, <3>1, Machine, ScriptSteps DEF v
<1> QED
  BY <1>1, <1>5, <1>6

LEMMA CompleteKeeps ==
  ASSUME PackagesInv, NEW s \in PS!Starts, PS!Complete(s)
  PROVE  PackagesInv'
<1>1. /\ runs[s].stage = "verify" /\ mutex' = FALSE /\ runs' = [runs EXCEPT ![s] = PS!rest]
      /\ UNCHANGED <<profile, source, files, writing, recorded, gated, stagings, image>>
      /\ UNCHANGED <<programs, marker, cache>>
      /\ task' \in {task, FALSE}
      /\ troubles' = troubles \/ (troubles' = troubles + 1 /\ troubles < MaxTroubles)
  BY DEF PS!Complete, PS!ended, PS!trouble, PS!staged, PS!workbench
<1>2. runs[s] # PS!rest /\ task' \in BOOLEAN
  BY <1>1, Machine
<1> QED
  BY <1>1, <1>2, Machine, ScriptSteps

LEMMA RestartKeeps ==
  ASSUME PackagesInv, PS!Restart
  PROVE  PackagesInv'
<1>1. /\ UNCHANGED <<profile, source, files, writing, recorded, gated, stagings, image, task, cache>>
      /\ troubles' = troubles + 1 /\ troubles < MaxTroubles
      /\ runs' = [s \in PS!Starts |-> PS!rest] /\ mutex' = FALSE
      /\ \E s \in PS!Starts : /\ runs[s] # PS!rest /\ runs[s].at <= Len(PS!list)
                              /\ programs' \in {programs, programs \cup {PS!current(s).id}}
                              /\ marker' \in {marker, [marker EXCEPT ![PS!current(s).id] =
                                                         IF @ = "none" THEN @ ELSE "unreadable"]}
  BY DEF PS!Restart, PS!trouble, PS!staged, PS!workbench
<1>2. /\ marker' \in [Names -> {"none", "installing", "installed", "failed", "unreadable"}]
      /\ \A n \in programs' : n \in Names
  <2>1. PICK s \in PS!Starts : /\ runs[s] # PS!rest /\ runs[s].at <= Len(PS!list)
                               /\ programs' \in {programs, programs \cup {PS!current(s).id}}
                               /\ marker' \in {marker, [marker EXCEPT ![PS!current(s).id] =
                                                          IF @ = "none" THEN @ ELSE "unreadable"]}
    BY <1>1
  <2>2. PS!current(s).id \in Names
    BY <2>1, RunFacts
  <2> QED
    BY <2>1, <2>2, Machine
<1>3. Logon'
  BY <1>1 DEF Logon
<1> QED
  BY <1>1, <1>2, <1>3, Machine, LogonSteps

LEMMA UninstallKeeps ==
  ASSUME PackagesInv, PS!Uninstall
  PROVE  PackagesInv'
<1>1. /\ UNCHANGED <<profile, source, files, writing, recorded, gated, stagings, image, task, marker, cache, runs, mutex>>
      /\ troubles' = troubles + 1 /\ troubles < MaxTroubles /\ \A n \in programs' : n \in programs
  BY DEF PS!Uninstall, PS!trouble, PS!staged, PS!workbench
<1>2. Logon'
  BY <1>1 DEF PackagesInv, Logon, Goes, contentAt, PS!list
<1> QED
  BY <1>1, <1>2, Machine, LogonSteps

LEMMA PackagesStep == PackagesInv /\ [PS!Next]_packages => PackagesInv'
<1> SUFFICES ASSUME PackagesInv, [PS!Next]_packages PROVE PackagesInv'
  OBVIOUS
<1>1. CASE UNCHANGED packages
  <2>1. UNCHANGED <<profile, source, files, writing, recorded, gated, image, task, programs, marker,
                    cache, runs, mutex, troubles, stagings>>
    BY <1>1 DEF packages
  <2>2. Logon'
    BY <2>1 DEF PackagesInv, Logon, Goes, contentAt, PS!list
  <2> QED
    BY <2>1, <2>2, Machine, LogonSteps
<1>2. CASE PS!Edit \/ PS!Replace \/ PS!Gate
  BY <1>2, OperatorSteps
<1>3. CASE PS!Copy \/ PS!Hash \/ PS!CopyHashed
  BY <1>3, CopyKeeps, HashKeeps, CopyHashedKeeps
<1>4. CASE PS!Apply \/ PS!Carry
  BY <1>4, ApplyKeeps, CarryKeeps
<1>5. CASE PS!Restart \/ PS!Uninstall
  BY <1>5, RestartKeeps, UninstallKeeps
<1>6. ASSUME NEW s \in PS!Stagers, PS!Stage(s) \/ PS!Script(s) \/ PS!Payloads(s) \/ PS!Interrupt(s)
      PROVE  PackagesInv'
  BY <1>6, StageKeeps, ScriptKeeps, PayloadsKeeps, InterruptKeeps
<1>7. ASSUME NEW s \in PS!Starts, PS!Run(s) \/ PS!Steps(s) \/ PS!Failed(s)
      PROVE  PackagesInv'
  <2>1. CASE PS!Run(s) \/ PS!Failed(s)
    BY <2>1, RunKeeps, FailedKeeps
  <2>2. CASE PS!Steps(s)
    <3>1. \/ PS!Verify(s) \/ PS!Network(s) \/ PS!Download(s) \/ PS!Check(s) \/ PS!Install(s)
          \/ PS!Installed(s) \/ PS!Complete(s)
      BY <2>2 DEF PS!Steps
    <3> QED
      BY <3>1, VerifyKeeps, NetworkKeeps, DownloadKeeps, CheckKeeps, InstallKeeps, InstalledKeeps, CompleteKeeps
  <2> QED
    BY <1>7, <2>1, <2>2
<1> QED
  BY <1>1, <1>2, <1>3, <1>4, <1>5, <1>6, <1>7 DEF PS!Next

-----------------------------------------------------------------------------
LEMMA SafeInstalls == HelperInv /\ PackagesInv => InstallsAreSafe
<1> SUFFICES ASSUME HelperInv, PackagesInv PROVE InstallsAreSafe
  OBVIOUS
<1>1. OC!TypeOK /\ OC!ReadyIsVerified
  BY DEF HelperInv
<1>2. PS!TypeOK
  <2>1. /\ profile \in Profiles /\ source \in [Names -> PS!contents] /\ cache \in [Names -> PS!contents]
        /\ marker \in [Names -> {"none", "installing", "installed", "failed", "unreadable"}]
    BY DEF PackagesInv, Stock
  <2>2. programs \subseteq Names
    BY DEF PackagesInv, Stock
  <2>3. {task, mutex} \subseteq BOOLEAN
    BY DEF PackagesInv, Held
  <2>4. troubles \in 0 .. MaxTroubles /\ stagings \in 0 .. MaxStagings
    BY BoundsAssumption DEF PackagesInv, Stock
  <2> QED
    BY <2>1, <2>2, <2>3, <2>4 DEF PS!TypeOK
<1>3. PS!ImageIsComplete
  BY DEF PackagesInv
<1>4. ASSUME NEW s \in PS!Starts, runs[s].stage = "installing"
      PROVE  /\ PS!ToSet(PS!current(s).dependencies) \subseteq runs[s].seen
             /\ \A t \in PS!Starts \ {s} : runs[t] = PS!rest
             /\ PS!needsPayload(PS!current(s)) => PS!payload(s) = "good"
  <2>1. runs[s] # PS!rest
    BY <1>4, Machine
  <2>2. /\ Goes(runs[s], cache) /\ \A t \in PS!Starts \ {s} : runs[t] = PS!rest
        /\ image # PS!nothing /\ runs[s].at \in 1 .. Len(PS!list) + 1 /\ runs[s].at <= Len(PS!list)
        /\ Len(PS!list) \in Nat
    BY <1>4, <2>1, RunFacts
  <2>3. Sorted(PS!list)
    BY <2>2, ImageFacts DEF PackagesInv
  <2>4. /\ ToSet(PS!list[runs[s].at].dependencies) \subseteq {PS!list[j].id : j \in 1 .. runs[s].at - 1}
        /\ runs[s].seen = {PS!list[j].id : j \in 1 .. runs[s].at - 1}
    <3>1. \A i \in 1 .. Len(PS!list) :
            ToSet(PS!list[i].dependencies) \subseteq {PS!list[j].id : j \in 1 .. i - 1}
      BY <2>3 DEF Sorted
    <3>2. runs[s].at \in 1 .. Len(PS!list)
      BY <2>2
    <3>3. ToSet(PS!list[runs[s].at].dependencies) \subseteq {PS!list[j].id : j \in 1 .. runs[s].at - 1}
      BY <3>1, <3>2
    <3>4. runs[s].seen = {PS!list[j].id : j \in 1 .. runs[s].at - 1}
      BY <2>2 DEF Goes
    <3> QED
      BY <3>3, <3>4
  <2>5. PS!ToSet(PS!current(s).dependencies) \subseteq runs[s].seen
    BY <2>4 DEF PS!ToSet, ToSet, PS!current
  <2>6. PS!needsPayload(PS!current(s)) => PS!payload(s) = "good"
    BY <1>4, <2>1, Current DEF PS!payload, PS!carried
  <2> QED
    BY <2>2, <2>5, <2>6
<1>5. PS!DependenciesFirst /\ PS!OneTrustedInstaller
  BY <1>4 DEF PS!DependenciesFirst, PS!OneTrustedInstaller
<1> QED
  BY <1>1, <1>2, <1>3, <1>5 DEF InstallsAreSafe

\* A checked image carries what its profile requires, one trusted installer runs at a
\* time and after what it depends on; OpenCode is called ready when it has answered.
THEOREM InstallsHold == MCSpec => []InstallsAreSafe
<1>1. MCInit => HelperInv /\ PackagesInv
  BY HelperBegins, PackagesBegin DEF MCInit
<1>2. HelperInv /\ PackagesInv /\ [MCNext]_<<vars, helper, packages, subject>> => (HelperInv /\ PackagesInv)'
  <2> SUFFICES ASSUME HelperInv, PackagesInv, [MCNext]_<<vars, helper, packages, subject>>
               PROVE  HelperInv' /\ PackagesInv'
    OBVIOUS
  <2>1. [OC!Next]_helper /\ [PS!Next]_packages
    BY DEF MCNext
  <2> QED
    BY <2>1, HelperStep, PackagesStep
<1> QED
  BY <1>1, <1>2, SafeInstalls, PTL DEF MCSpec

-----------------------------------------------------------------------------
\* What a running script has seen is marked as installed.
SeenMarks == \A s \in PS!Starts : runs[s] # PS!rest => \A n \in runs[s].seen : marker[n] = "installed"

\* The package a script is at is none of those it has seen.
LEMMA CurrentIsNew ==
  ASSUME PackagesInv, NEW s \in PS!Starts, runs[s] # PS!rest, runs[s].at <= Len(PS!list)
  PROVE  PS!current(s).id \notin runs[s].seen
<1> DEFINE l == PS!list  k == runs[s].at
<1>1. image # PS!nothing /\ Len(l) \in Nat /\ k \in 1 .. Len(l) + 1 /\ Goes(runs[s], cache)
  BY RunFacts
<1>2. image.script \in Script
  BY <1>1, ImageFacts DEF PackagesInv
<1>3. PICK p \in ValidProfile : l = PS!dependencyOrder(p)
  <2>1. PICK p \in ValidProfile : image.script = PS!generated(p)
    BY <1>2 DEF Script
  <2>2. l = PS!dependencyOrder(p)
    BY <2>1, ProfileFacts DEF PS!list
  <2> QED
    BY <2>2
<1>4. \A i, j \in DOMAIN l : l[i].id = l[j].id => i = j
  <2>1. p \in Profiles /\ PS!validate(p)
    BY DEF ValidProfile
  <2>2. \A i, j \in DOMAIN PS!dependencyOrder(p) :
          PS!dependencyOrder(p)[i].id = PS!dependencyOrder(p)[j].id => i = j
    BY <2>1, OrderIsRight, Zenon
  <2> HIDE DEF l
  <2> QED
    BY <1>3, <2>2
<1>5. DOMAIN l = 1 .. Len(l)
  BY <1>3, ProfileFacts
<1>6. runs[s].seen = {l[j].id : j \in 1 .. k - 1} /\ PS!current(s).id = l[k].id
  BY <1>1 DEF Goes, PS!current
<1>7. k \in Nat /\ k \in 1 .. Len(l) /\ \A j \in 1 .. k - 1 : j \in 1 .. Len(l) /\ j # k
  BY <1>1
<1> HIDE DEF l, k
<1> QED
  BY <1>4, <1>5, <1>6, <1>7

\* A mark at the package a script is at leaves those it has seen.
LEMMA MarkedElsewhere ==
  ASSUME PackagesInv, SeenMarks, NEW s \in PS!Starts, runs[s] # PS!rest, runs[s].at <= Len(PS!list),
         NEW x, marker' = [marker EXCEPT ![PS!current(s).id] = x]
  PROVE  \A n \in runs[s].seen : marker'[n] = "installed"
<1>1. PS!current(s).id \notin runs[s].seen
  BY CurrentIsNew
<1>2. runs[s] \in RunState /\ \A n \in runs[s].seen : marker[n] = "installed"
  BY RunFacts DEF SeenMarks
<1>3. \A n \in runs[s].seen : n \in Names
  BY <1>2 DEF RunState
<1> QED
  BY <1>1, <1>2, <1>3, Machine

\* The running script moves or ends.
LEMMA MarksMove ==
  ASSUME PackagesInv, NEW s \in PS!Starts, runs[s] # PS!rest, NEW r, runs' = [runs EXCEPT ![s] = r],
         r = PS!rest \/ \A n \in r.seen : marker'[n] = "installed"
  PROVE  SeenMarks'
<1>1. \A t \in PS!Starts \ {s} : runs[t] = PS!rest
  BY RunFacts
<1>2. runs'[s] = r /\ \A t \in PS!Starts \ {s} : runs'[t] = PS!rest
  BY <1>1, Machine
<1> QED
  BY <1>2 DEF SeenMarks

\* It comes to the next package when the present one is marked.
LEMMA MarksGoOn ==
  ASSUME PackagesInv, SeenMarks, NEW s \in PS!Starts, runs[s] # PS!rest, runs[s].at <= Len(PS!list),
         marker' = [marker EXCEPT ![PS!current(s).id] = "installed"], PS!goOn(s, PS!current(s).id)
  PROVE  SeenMarks'
<1> DEFINE n == PS!current(s).id
           v == runs[s]
           on == [v EXCEPT !.stage = "verify", !.at = @ + 1, !.seen = @ \cup {n}]
<1>1. v \in RunState /\ n \in Names
  BY RunFacts
<1>2. runs' = [runs EXCEPT ![s] = on]
  BY <1>1, Machine, GoesOn
<1>3. on.seen = v.seen \cup {n}
  BY <1>1 DEF RunState
<1>4. \A m \in v.seen : marker'[m] = "installed"
  BY MarkedElsewhere
<1>5. marker'[n] = "installed"
  BY <1>1, Machine
<1> HIDE DEF on, v, n
<1> QED
  BY <1>2, <1>3, <1>4, <1>5, MarksMove DEF v

\* It stays at its package or ends, and marks only that package.
LEMMA MarksStay ==
  ASSUME PackagesInv, SeenMarks, NEW s \in PS!Starts, runs[s] # PS!rest,
         NEW r, runs' = [runs EXCEPT ![s] = r], r = PS!rest \/ r.seen = runs[s].seen,
         \/ marker' = marker
         \/ runs[s].at <= Len(PS!list) /\ \E x : marker' = [marker EXCEPT ![PS!current(s).id] = x]
  PROVE  SeenMarks'
<1>1. \A n \in runs[s].seen : marker'[n] = "installed"
  BY MarkedElsewhere DEF SeenMarks
<1> QED
  BY <1>1, MarksMove

\* What each step of a script does to its place and to the marks.
LEMMA ScriptMarks ==
  ASSUME PackagesInv, SeenMarks, NEW s \in PS!Starts, PS!Steps(s) \/ PS!Failed(s)
  PROVE  SeenMarks'
<1> DEFINE v == runs[s]
           n == PS!current(s).id
<1>1. v.stage # "none"
  BY DEF PS!Steps, PS!Failed, PS!Verify, PS!Network, PS!Download, PS!Check, PS!Install, PS!Installed, PS!Complete
<1>2. /\ v # PS!rest /\ v \in RunState /\ DOMAIN runs = PS!Starts
      /\ v.stage # "verify" => v.at <= Len(PS!list)
  BY <1>1, Machine, RunFacts
<1>3. v \in [stage : {"verify", "payload", "network", "install", "installing"}, at : Nat, attempt : Nat,
             network : BOOLEAN, seen : SUBSET Names]
  BY <1>2 DEF RunState
<1>4. CASE PS!Verify(s)
  <2>1. CASE n \in programs /\ marker' = [marker EXCEPT ![n] = "installed"] /\ PS!goOn(s, n)
    BY <1>2, <1>4, <2>1, MarksGoOn DEF PS!Verify
  <2>2. CASE n \notin programs
    <3> DEFINE x == IF PS!needsPayload(PS!current(s)) THEN "payload"
                    ELSE IF PS!current(s).net /\ ~v.network THEN "network" ELSE "install"
               r == [v EXCEPT !.stage = x, !.attempt = 1]
    <3>1. runs' = [runs EXCEPT ![s].stage = x, ![s].attempt = 1] /\ v.at <= Len(PS!list)
          /\ marker' = [marker EXCEPT ![n] = IF @ = "unreadable" THEN "none" ELSE @]
      BY <1>4, <2>2 DEF PS!Verify
    <3> HIDE DEF x
    <3>2. runs' = [runs EXCEPT ![s] = r] /\ r.seen = v.seen
      BY <1>2, <1>3, <3>1
    <3> HIDE DEF r
    <3> QED
      BY <1>2, <3>1, <3>2, MarksStay
  <2> QED
    BY <1>4, <2>1, <2>2 DEF PS!Verify
<1>5. CASE PS!Network(s) \/ PS!Download(s) \/ PS!Check(s) \/ PS!Complete(s)
  <2>1. marker' = marker
    BY <1>5 DEF PS!Network, PS!Download, PS!Check, PS!Complete
  <2>2. CASE UNCHANGED runs
    BY <2>1, <2>2 DEF SeenMarks
  <2>3. CASE runs' = [runs EXCEPT ![s] = PS!rest]
    BY <1>2, <2>1, <2>3, MarksStay
  <2>4. CASE \E x : runs' = [runs EXCEPT ![s].stage = x]
    <3>1. PICK x : runs' = [runs EXCEPT ![s].stage = x]
      BY <2>4
    <3> DEFINE r == [v EXCEPT !.stage = x]
    <3>2. runs' = [runs EXCEPT ![s] = r] /\ r.seen = v.seen
      BY <1>2, <1>3, <3>1
    <3> HIDE DEF r
    <3> QED
      BY <1>2, <2>1, <3>2, MarksStay
  <2>5. CASE \E x : runs' = [runs EXCEPT ![s].stage = x, ![s].network = TRUE]
    <3>1. PICK x : runs' = [runs EXCEPT ![s].stage = x, ![s].network = TRUE]
      BY <2>5
    <3> DEFINE r == [v EXCEPT !.stage = x, !.network = TRUE]
    <3>2. runs' = [runs EXCEPT ![s] = r] /\ r.seen = v.seen
      BY <1>2, <1>3, <3>1
    <3> HIDE DEF r
    <3> QED
      BY <1>2, <2>1, <3>2, MarksStay
  <2>6. CASE PS!Network(s)
    BY <2>3, <2>5, <2>6 DEF PS!Network, PS!ended
  <2>7. CASE PS!Download(s)
    BY <2>2, <2>3, <2>4, <2>7 DEF PS!Download, PS!ended
  <2>8. CASE PS!Check(s) \/ PS!Complete(s)
    BY <2>3, <2>4, <2>8 DEF PS!Check, PS!Complete, PS!ended
  <2> QED
    BY <1>5, <2>6, <2>7, <2>8
<1>6. CASE PS!Install(s)
  <2> DEFINE r == [v EXCEPT !.stage = "installing"]
  <2>1. runs' = [runs EXCEPT ![s].stage = "installing"] /\ v.at <= Len(PS!list)
        /\ marker' = [marker EXCEPT ![n] = "installing"]
    BY <1>2, <1>6 DEF PS!Install
  <2>2. runs' = [runs EXCEPT ![s] = r] /\ r.seen = v.seen
    BY <1>2, <1>3, <2>1
  <2> HIDE DEF r
  <2> QED
    BY <1>2, <2>1, <2>2, MarksStay
<1>7. CASE PS!Installed(s)
  BY <1>2, <1>7, MarksGoOn DEF PS!Installed
<1>8. CASE PS!Failed(s)
  <2>1. v.at <= Len(PS!list) /\ marker' = [marker EXCEPT ![n] = "failed"]
    BY <1>2, <1>8 DEF PS!Failed
  <2>2. CASE runs' = [runs EXCEPT ![s] = PS!rest]
    BY <1>2, <2>1, <2>2, MarksStay
  <2>3. CASE runs' = [runs EXCEPT ![s].stage = "install", ![s].attempt = @ + 1]
    <3> DEFINE r == [v EXCEPT !.stage = "install", !.attempt = @ + 1]
    <3>1. runs' = [runs EXCEPT ![s] = r] /\ r.seen = v.seen
      BY <1>2, <1>3, <2>3
    <3> HIDE DEF r
    <3> QED
      BY <1>2, <2>1, <3>1, MarksStay
  <2> QED
    BY <1>8, <2>2, <2>3 DEF PS!Failed, PS!afterFailure, PS!ended
<1> QED
  BY <1>4, <1>5, <1>6, <1>7, <1>8 DEF PS!Steps

\* What a script is about to leave behind has all been installed.
LEMMA MarksComplete ==
  ASSUME PackagesInv, SeenMarks, NEW s \in PS!Starts, PS!Complete(s)
  PROVE  \A e \in PS!ToSet(PS!list) : marker[e.id] = "installed"
<1> DEFINE l == PS!list  k == runs[s].at
<1>1. runs[s].stage = "verify" /\ k > Len(l)
  BY DEF PS!Complete
<1>2. runs[s] # PS!rest
  BY <1>1, Machine
<1>3. Len(l) \in Nat /\ k \in 1 .. Len(l) + 1 /\ Goes(runs[s], cache)
  BY <1>2, RunFacts
<1>4. runs[s].seen = {l[j].id : j \in 1 .. Len(l)}
  <2>1. k - 1 = Len(l)
    BY <1>1, <1>3
  <2>2. runs[s].seen = {l[j].id : j \in 1 .. k - 1}
    BY <1>3 DEF Goes
  <2> QED
    BY <2>1, <2>2
<1>5. PS!ToSet(l) = {l[j] : j \in 1 .. Len(l)}
  <2>1. image.script \in Script
    BY <1>2, RunFacts, ImageFacts DEF PackagesInv
  <2>2. DOMAIN l = 1 .. Len(l)
    BY <2>1, ScriptFacts DEF PS!list
  <2> HIDE DEF l
  <2> QED
    BY <2>2 DEF PS!ToSet
<1>6. \A n \in runs[s].seen : marker[n] = "installed"
  BY <1>2 DEF SeenMarks
<1> HIDE DEF l
<1> QED
  BY <1>4, <1>5, <1>6 DEF l

\* Only a script at its end unregisters the task, and the bench touches neither.
LEMMA MarksStep ==
  ASSUME PackagesInv, SeenMarks, [PS!Next]_packages
  PROVE  /\ SeenMarks'
         /\ task /\ ~task' => \A e \in PS!ToSet(PS!list) : marker[e.id] = "installed"
<1>1. CASE UNCHANGED <<runs, marker, task>>
  BY <1>1 DEF SeenMarks
<1>2. CASE UNCHANGED packages
  <2>1. UNCHANGED <<runs, marker, task>>
    BY <1>2 DEF packages
  <2> QED
    BY <1>1, <2>1
<1>3. CASE PS!Edit \/ PS!Replace \/ PS!Gate \/ PS!Copy \/ PS!Hash \/ PS!CopyHashed \/ PS!Carry
  <2>1. UNCHANGED <<runs, marker, task>>
    BY <1>3 DEF PS!Edit, PS!Replace, PS!Gate, PS!Copy, PS!Hash, PS!CopyHashed, PS!Carry, PS!machine
  <2> QED
    BY <1>1, <2>1
<1>4. CASE PS!Apply
  BY <1>4 DEF PS!Apply, SeenMarks
<1>5. CASE PS!Restart
  <2>1. runs' = [s \in PS!Starts |-> PS!rest] /\ task' = task
    BY <1>5 DEF PS!Restart
  <2> QED
    BY <2>1 DEF SeenMarks
<1>6. CASE PS!Uninstall
  BY <1>1, <1>6 DEF PS!Uninstall
<1>7. ASSUME NEW s \in PS!Stagers, PS!Stage(s) \/ PS!Script(s) \/ PS!Payloads(s) \/ PS!Interrupt(s)
      PROVE  UNCHANGED <<runs, marker, task>>
  BY <1>7 DEF PS!Stage, PS!Script, PS!Payloads, PS!Interrupt, PS!machine
<1>8. ASSUME NEW s \in PS!Starts, PS!Run(s)
      PROVE  SeenMarks' /\ task' = task
  <2> DEFINE r == [stage |-> "verify", at |-> 1, attempt |-> 1, network |-> FALSE, seen |-> {}]
  <2>1. ~mutex /\ runs' = [runs EXCEPT ![s] = r] /\ UNCHANGED <<marker, task>>
    BY <1>8 DEF PS!Run, PS!mayRun
  <2>2. \A t \in PS!Starts : runs[t] = PS!rest
    BY <2>1, RunFacts
  <2>3. r.seen = {}
    OBVIOUS
  <2> HIDE DEF r
  <2>4. runs'[s] = r /\ \A t \in PS!Starts \ {s} : runs'[t] = PS!rest
    BY <2>1, <2>2, Machine
  <2> QED
    BY <2>1, <2>3, <2>4 DEF SeenMarks
<1>9. ASSUME NEW s \in PS!Starts, PS!Steps(s) \/ PS!Failed(s)
      PROVE  task /\ ~task' => PS!Complete(s)
  BY <1>9 DEF PS!Steps, PS!Failed, PS!Verify, PS!Network, PS!Download, PS!Check, PS!Install, PS!Installed
<1> QED
  BY <1>1, <1>2, <1>3, <1>4, <1>5, <1>6, <1>7, <1>8, <1>9, ScriptMarks, MarksComplete DEF PS!Next

\* The first-logon task is unregistered only when every package of its script is marked as
\* installed, whatever failed, restarted or was removed before (AskedEnds checks it).
THEOREM UnregisteredHolds == MCSpec => PS!UnregisteredWhenDone
<1> DEFINE Done == task /\ ~task' => \A e \in PS!ToSet(PS!list) : marker[e.id] = "installed"
<1>1. MCInit => PackagesInv /\ SeenMarks
  <2>1. PS!Init => SeenMarks
    BY DEF PS!Init, SeenMarks
  <2> QED
    BY <2>1, PackagesBegin DEF MCInit
<1>2. PackagesInv /\ SeenMarks /\ [MCNext]_<<vars, helper, packages, subject>> =>
        (PackagesInv /\ SeenMarks)' /\ [Done]_(PS!vars)
  <2> SUFFICES ASSUME PackagesInv, SeenMarks, [MCNext]_<<vars, helper, packages, subject>>
               PROVE  (PackagesInv /\ SeenMarks)' /\ Done
    OBVIOUS
  <2>1. [PS!Next]_packages
    BY DEF MCNext
  <2>2. PackagesInv'
    BY <2>1, PackagesStep
  <2>3. SeenMarks' /\ Done
    BY <2>1, MarksStep
  <2> QED
    BY <2>2, <2>3
<1> QED
  BY <1>1, <1>2, PTL DEF MCSpec, PS!UnregisteredWhenDone
=============================================================================
