------------------------------- MODULE Files -------------------------------
(***************************************************************************)
(* What an open file promises its program: a sequence of bytes and a       *)
(* position.  Each call is one step.  This module says nothing of sectors, *)
(* clusters or directory entries; FatFiles is shown to implement it.       *)
(*                                                                         *)
(* A call that an error cuts short may have done part of its work, and the *)
(* part it may have done is part of the promise.                           *)
(***************************************************************************)
EXTENDS Integers, Sequences

CONSTANTS
    Zero,      \* the byte that fills a gap
    Sources,   \* the byte sequences a program may write
    Counts,    \* the lengths it may ask to read
    Positions, \* the positions it may seek to
    Limit,     \* the size of a file up to which writes are safe
    Errors     \* whether accesses to sectors and to the table may fail

VARIABLES
    content,   \* the bytes of the file
    position,  \* where the open file stands
    mode,      \* "closed" or the mode it was opened in
    reply      \* what the latest read or write gave back

vars == <<content, position, mode, reply>>

Modes == {"r", "w", "w+", "a", "a+"}
Readable(m) == m \in {"r", "w+", "a+"}
Writable(m) == m \in {"w", "w+", "a", "a+"}

Least(a, b) == IF a < b THEN a ELSE b
Greatest(a, b) == IF a > b THEN a ELSE b

\* The file s with the bytes t from position p on, the gap filled with zeros.
Overwritten(s, p, t) ==
    [i \in 1 .. Greatest(Len(s), p + Len(t)) |->
        IF i > p /\ i <= p + Len(t) THEN t[i - p]
        ELSE IF i <= Len(s) THEN s[i] ELSE Zero]

\* The file becomes s and, if that is shorter than m bytes, has bytes up to there
\* of which nothing is promised.
Padded(s, m) ==
    /\ content' = [i \in 1 .. Len(content') |-> content'[i]]
    /\ Len(content') = Greatest(Len(s), m)
    /\ \A i \in 1 .. Len(s) : content'[i] = s[i]

Init == content = <<>> /\ position = 0 /\ mode = "closed" /\ reply = <<>>

Open(m) ==
    /\ mode = "closed"
    /\ mode' = m
    /\ content' = IF m \in {"w", "w+"} THEN <<>> ELSE content
    /\ position' = IF m \in {"a", "a+"} THEN Len(content) ELSE 0
    /\ UNCHANGED reply

Close ==
    /\ mode \in Modes /\ mode' = "closed" /\ position' = 0
    /\ UNCHANGED <<content, reply>>

\* A close that reports an error: the file may be as short as an earlier entry
\* on the disk said, its bytes are those it has.
CloseFails ==
    /\ Errors /\ mode \in Modes /\ mode' = "closed" /\ position' = 0
    /\ \E n \in 0 .. Len(content) : content' = SubSeq(content, 1, n)
    /\ UNCHANGED reply

\* The file is lost: nothing is promised of it from here on.
Lose == mode' = "lost" /\ content' = <<>> /\ position' = 0 /\ UNCHANGED reply

\* An open for writing that fails: the file may be lost, since its clusters are
\* given up before its entry says so.
OpenFails == Errors /\ mode = "closed" /\ Lose

\* A write may lose the file when an access fails while it gets longer, and when
\* it ends past Limit.
WriteLoses ==
    /\ mode \in Modes /\ Writable(mode)
    /\ Errors \/ \E s \in Sources : position + Len(s) > Limit
    /\ Lose

Seek(p) ==
    /\ mode \in Modes
    /\ position' = p
    /\ UNCHANGED <<content, mode, reply>>

Read(n) ==
    /\ mode \in Modes /\ Readable(mode)
    /\ reply' = SubSeq(content, position + 1, Least(position + n, Len(content)))
    /\ position' = position + Len(reply')
    /\ UNCHANGED <<content, mode>>

\* A read that an error cuts short gives the bytes before it.
ReadCut(n) ==
    /\ Errors /\ mode \in Modes /\ Readable(mode)
    /\ \E k \in 0 .. n - 1 :
          reply' = SubSeq(content, position + 1, Least(position + k, Len(content)))
    /\ position' = position + Len(reply')
    /\ UNCHANGED <<content, mode>>

Write(s) ==
    /\ mode \in Modes /\ Writable(mode)
    /\ content' = Overwritten(content, position, s)
    /\ position' = position + Len(s)
    /\ reply' = s
    /\ UNCHANGED mode

\* A write the volume has no room for writes nothing; a gap before it may be
\* filled already.
WriteRefused(s) ==
    /\ mode \in Modes /\ Writable(mode)
    /\ content' \in {content, Overwritten(content, position, <<>>)}
    /\ reply' = <<>>
    /\ UNCHANGED <<position, mode>>

\* A write that an error cuts short after its first k bytes: the file has its
\* full length, and of the bytes at the end nothing is promised.
WriteCut(s) ==
    /\ Errors /\ mode \in Modes /\ Writable(mode)
    /\ \E k \in 0 .. Len(s) - 1 :
          /\ reply' = SubSeq(s, 1, k)
          /\ Padded(Overwritten(content, position, reply'), position + Len(s))
    /\ position' = position + Len(reply')
    /\ UNCHANGED mode

\* A write that an error cuts short while it fills the gap.
GapCut ==
    /\ Errors /\ mode \in Modes /\ Writable(mode) /\ position > Len(content)
    /\ \E k \in Len(content) .. position : \E m \in k .. position :
          Padded(Overwritten(content, k, <<>>), m)
    /\ reply' = <<>>
    /\ UNCHANGED <<position, mode>>

Next ==
    \/ \E m \in Modes : Open(m)
    \/ Close \/ CloseFails \/ OpenFails \/ WriteLoses
    \/ \E p \in Positions : Seek(p)
    \/ \E n \in Counts : Read(n) \/ ReadCut(n)
    \/ \E s \in Sources : Write(s) \/ WriteRefused(s) \/ WriteCut(s)
    \/ GapCut

Spec == Init /\ [][Next]_vars
=============================================================================
