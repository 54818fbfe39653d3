--------------------------- MODULE PatchEngineProofs ---------------------------
(***************************************************************************)
(* Proofs about PatchEngine: what an apply writes is what was proposed, for *)
(* any files, requests and number of callers, any edits between proposal    *)
(* and apply, and any calls that stop half-way.                             *)
(***************************************************************************)
EXTENDS PatchEngine, FiniteSetTheorems, TLAPS

-----------------------------------------------------------------------------
(* What the operators on texts and diffs return. *)

LEMMA CommonType ==
    ASSUME NEW S, NEW old \in Seq(S), NEW new \in Seq(S)
    PROVE  Common(old, new) \in Nat
<1> DEFINE B == {n \in 1..Least(Len(old), Len(new)) : SubSeq(old, 1, n) = SubSeq(new, 1, n)}
<1>1. Least(Len(old), Len(new)) \in Nat
    BY DEF Least
<1>2. IsFiniteSet(1..Least(Len(old), Len(new)))
    BY <1>1, FS_Interval
<1>3. IsFiniteSet(B)
    BY <1>2, FS_Subset
<1> QED BY <1>3, FS_CardinalityType DEF Common

\* A part of a text, in reverse, is a text.
LEMMA PartType ==
    ASSUME NEW text \in Text, NEW m \in Nat \ {0}, NEW n \in Int, n <= Len(text)
    PROVE  SubSeq(text, m, n) \in Text /\ Reverse(SubSeq(text, m, n)) \in Text
<1>1. SubSeq(text, m, n) \in Text
    BY DEF Text
<1>2. ASSUME NEW s \in Text PROVE Reverse(s) \in Text
    BY DEF Text, Reverse
<1> QED BY <1>1, <1>2

LEMMA HunkType ==
    ASSUME NEW f \in Files, NEW old \in Text, NEW new \in Text
    PROVE  Hunk(f, old, new) \in Hunks /\ Hunk(f, old, new).file = f
<1> DEFINE before == Common(old, new)
           rest == Common(Reverse(SubSeq(old, before + 1, Len(old))),
                          Reverse(SubSeq(new, before + 1, Len(new))))
           from == IF before > NearLines THEN before - NearLines ELSE 0
           after == IF rest > NearLines THEN rest - NearLines ELSE 0
<1>1. before \in Nat
    BY CommonType DEF Text
<1>2. /\ Reverse(SubSeq(old, before + 1, Len(old))) \in Text
      /\ Reverse(SubSeq(new, before + 1, Len(new))) \in Text
    <2>1. before + 1 \in Nat \ {0} /\ Len(old) \in Int /\ Len(new) \in Int
        BY <1>1 DEF Text
    <2> HIDE DEF before
    <2> QED BY <2>1, PartType
<1>3. rest \in Nat
    BY <1>2, CommonType DEF Text
<1>4. from \in Nat /\ after \in Nat
    BY <1>1, <1>3, BoundsAssumption
<1>5. /\ from + 1 \in Nat \ {0}
      /\ Len(old) - after \in Int /\ Len(old) - after <= Len(old)
      /\ Len(new) - after \in Int /\ Len(new) - after <= Len(new)
    BY <1>4 DEF Text
<1>6. Hunk(f, old, new) = [file |-> f, at |-> from,
                           old |-> SubSeq(old, from + 1, Len(old) - after),
                           new |-> SubSeq(new, from + 1, Len(new) - after)]
    BY DEF Hunk
<1> HIDE DEF before, rest, from, after
<1>7. /\ SubSeq(old, from + 1, Len(old) - after) \in Text
      /\ SubSeq(new, from + 1, Len(new) - after) \in Text
    BY <1>5, PartType
<1> QED BY <1>4, <1>6, <1>7 DEF Hunks

\* A diff has one hunk, of its file, or none.
LEMMA DiffType ==
    ASSUME NEW f \in Files, NEW old \in Text, NEW new \in Text
    PROVE  /\ Diff(f, old, new) \subseteq Hunks
           /\ Diff(f, old, new) # {} => FilesOf(Diff(f, old, new)) = {f}
           /\ old # new => FilesOf(Diff(f, old, new)) = {f}
           /\ \A h \in Diff(f, old, new) : h.file = f
BY HunkType DEF Diff, FilesOf

LEMMA SplicedType ==
    ASSUME NEW text \in Text, NEW line \in Nat \ {0}, NEW replacement \in Text
    PROVE  Spliced(text, line, replacement) \in Text
<1>1. Least(line - 1, Len(text)) \in Int /\ Least(line - 1, Len(text)) <= Len(text)
    BY DEF Least, Text
<1>2. SubSeq(text, 1, Least(line - 1, Len(text))) \in Text
    BY <1>1, PartType
<1>3. SubSeq(text, line + 1, Len(text)) \in Text
    <2>1. line + 1 \in Nat \ {0} /\ Len(text) \in Int
        BY DEF Text
    <2> QED BY <2>1, PartType
<1> QED BY <1>2, <1>3 DEF Spliced, Text

\* A function on an interval from one is a sequence.
LEMMA SequenceOf ==
    \A S, s : \A n \in Nat :
        s = [i \in 1..n |-> s[i]] /\ (\A i \in 1..n : s[i] \in S) =>
            s \in Seq(S) /\ Len(s) = n
<1> SUFFICES ASSUME NEW S, NEW s, NEW n \in Nat, s = [i \in 1..n |-> s[i]],
                    \A i \in 1..n : s[i] \in S
             PROVE  s \in Seq(S) /\ Len(s) = n
    OBVIOUS
<1>1. s \in [1..n -> S]
    OBVIOUS
<1> QED BY <1>1

\* A line of a file, with or without its carriage return.
Row == [line : Lines, cr : BOOLEAN]

LEMMA FileIsRows == File = Seq(Row)
BY DEF File, Row

LEMMA FileFacts ==
    ASSUME NEW file \in File
    PROVE  /\ Len(file) \in Nat /\ DOMAIN file = 1..Len(file)
           /\ file = [i \in 1..Len(file) |-> file[i]]
           /\ \A i \in 1..Len(file) : file[i] \in Row
BY FileIsRows

LEMMA RowFacts ==
    \A row \in Row : row.line \in Lines /\ row.cr \in BOOLEAN
                    /\ row = [line |-> row.line, cr |-> row.cr]
BY DEF Row

\* What is read of a file is a text, and what is written of a text is a file.
LEMMA ReadType ==
    ASSUME NEW file \in File
    PROVE  /\ Read(file) \in Text /\ Len(Read(file)) = Len(file)
           /\ \A i \in 1..Len(file) : Read(file)[i] = file[i].line
<1>1. /\ DOMAIN Read(file) = 1..Len(file)
      /\ Read(file) = [i \in 1..Len(file) |-> Read(file)[i]]
      /\ \A i \in 1..Len(file) : Read(file)[i] = file[i].line
    BY FileFacts DEF Read
<1>2. \A i \in 1..Len(file) : Read(file)[i] \in Lines
    BY <1>1, FileFacts, RowFacts
<1> HIDE DEF Read
<1> QED BY <1>1, <1>2, FileFacts, SequenceOf DEF Text

LEMMA WrittenType ==
    ASSUME NEW text \in Text
    PROVE  /\ Written(text) \in File /\ Read(Written(text)) = text
           /\ ~HasReturns(Written(text))
<1>1. /\ Len(text) \in Nat /\ DOMAIN text = 1..Len(text)
      /\ text = [i \in 1..Len(text) |-> text[i]]
      /\ \A i \in 1..Len(text) : text[i] \in Lines
    BY DEF Text
<1>2. /\ DOMAIN Written(text) = 1..Len(text)
      /\ Written(text) = [i \in 1..Len(text) |-> Written(text)[i]]
      /\ \A i \in 1..Len(text) : Written(text)[i] = [line |-> text[i], cr |-> FALSE]
    BY <1>1 DEF Written
<1>3. \A i \in 1..Len(text) : Written(text)[i] \in Row
    <2>1. \A line \in Lines : [line |-> line, cr |-> FALSE] \in Row
        BY DEF Row
    <2> QED BY <1>1, <1>2, <2>1
<1> HIDE DEF Written
<1>4. Written(text) \in File
    BY <1>1, <1>2, <1>3, SequenceOf, FileIsRows
<1>5. Read(Written(text)) = [i \in 1..Len(text) |-> text[i]]
    BY <1>2 DEF Read
<1>6. ~HasReturns(Written(text))
    BY <1>2 DEF HasReturns
<1> QED BY <1>1, <1>4, <1>5, <1>6

\* A rewrite keeps the newlines, so a file changes if what is read of it does.
LEMMA RewrittenType ==
    ASSUME NEW file \in File, NEW r \in Requests, r.operation = "rewrite"
    PROVE  /\ Rewritten(file, r) \in File
           /\ Len(Rewritten(file, r)) = Len(file)
           /\ \A i \in 1..Len(file) : Rewritten(file, r)[i].cr = file[i].cr
<1> DEFINE new == Rewritten(file, r)
           made(i) == IF file[i].line = r.pattern THEN r.rewrite ELSE file[i].line
<1>1. r.pattern \in Lines /\ r.rewrite \in Lines
    BY RequestsAssumption DEF RequestType
<1>2. /\ DOMAIN new = 1..Len(file)
      /\ new = [i \in 1..Len(file) |-> new[i]]
      /\ \A i \in 1..Len(file) : new[i] = [file[i] EXCEPT !.line = made(i)]
    BY FileFacts DEF Rewritten
<1> HIDE DEF new
<1>3. ASSUME NEW i \in 1..Len(file)
      PROVE  new[i] \in Row /\ new[i].cr = file[i].cr
    <2>1. file[i] \in Row
        BY FileFacts
    <2>2. made(i) \in Lines
        BY <1>1, <2>1, RowFacts
    <2> HIDE DEF made
    <2> QED BY <1>2, <2>1, <2>2 DEF Row
<1>4. new \in File /\ Len(new) = Len(file)
    BY <1>2, <1>3, FileFacts, SequenceOf, FileIsRows
<1> QED BY <1>3, <1>4 DEF new

-----------------------------------------------------------------------------
(* Bytes and texts.                                                        *)

\* Where the lines of two files are the same, so are the carriage returns.
Agree(a, b) ==
    \A i \in 1..Least(Len(a), Len(b)) : a[i].line = b[i].line => a[i] = b[i]

LEMMA ReadPart ==
    ASSUME NEW file \in File, NEW m \in Nat \ {0}, NEW n \in Int, n <= Len(file)
    PROVE  /\ SubSeq(file, m, n) \in File
           /\ Len(SubSeq(file, m, n)) = IF m <= n THEN 1 + n - m ELSE 0
           /\ \A i \in 1..(1 + n - m) : SubSeq(file, m, n)[i] = file[i + m - 1]
           /\ Read(SubSeq(file, m, n)) = SubSeq(Read(file), m, n)
<1> DEFINE part == SubSeq(file, m, n)
           size == IF m <= n THEN 1 + n - m ELSE 0
<1>0. size \in Nat /\ 1..(1 + n - m) = 1..size
    OBVIOUS
<1>1. /\ part \in File /\ Len(part) = size
      /\ \A i \in 1..(1 + n - m) : part[i] = file[i + m - 1]
    BY FileIsRows
<1>2. Read(part) \in Text /\ Len(Read(part)) = size
    BY <1>1, ReadType
<1>3. /\ SubSeq(Read(file), m, n) \in Text
      /\ Len(SubSeq(Read(file), m, n)) = size
      /\ \A i \in 1..(1 + n - m) : SubSeq(Read(file), m, n)[i] = Read(file)[i + m - 1]
    BY ReadType DEF Text
<1>4. ASSUME NEW i \in 1..size PROVE Read(part)[i] = SubSeq(Read(file), m, n)[i]
    <2>1. i + m - 1 \in 1..Len(file)
        BY FileFacts
    <2>2. Read(part)[i] = part[i].line
        BY <1>1, ReadType
    <2> HIDE DEF part
    <2> QED BY <1>0, <1>1, <1>3, <2>1, <2>2, ReadType
<1> HIDE DEF part, size
<1>5. Read(part) = SubSeq(Read(file), m, n)
    BY <1>2, <1>3, <1>4 DEF Text
<1> QED BY <1>1, <1>5 DEF part, size

\* The end of a file, from a line on.
LEMMA EndPart ==
    ASSUME NEW file \in File, NEW k \in Nat \ {0}
    PROVE  /\ SubSeq(file, k, Len(file)) \in File
           /\ Len(SubSeq(file, k, Len(file))) = IF k <= Len(file) THEN 1 + Len(file) - k ELSE 0
           /\ \A i \in 1..(1 + Len(file) - k) : SubSeq(file, k, Len(file))[i] = file[i + k - 1]
           /\ Read(SubSeq(file, k, Len(file))) = SubSeq(Read(file), k, Len(file))
<1>1. PICK n : n = Len(file)
    OBVIOUS
<1>2. n \in Int /\ n <= Len(file)
    BY <1>1, FileFacts
<1>3. /\ SubSeq(file, k, n) \in File
      /\ Len(SubSeq(file, k, n)) = IF k <= n THEN 1 + n - k ELSE 0
      /\ \A i \in 1..(1 + n - k) : SubSeq(file, k, n)[i] = file[i + k - 1]
      /\ Read(SubSeq(file, k, n)) = SubSeq(Read(file), k, n)
    BY <1>2, ReadPart
<1> QED BY <1>1, <1>3

\* Files with the same lines are the same.
LEMMA FilesEqual ==
    ASSUME NEW a \in File, NEW b \in File, Len(a) = Len(b), \A i \in 1..Len(a) : a[i] = b[i]
    PROVE  a = b
<1>1. PICK n : n = Len(a)
    OBVIOUS
<1>2. a = [i \in 1..n |-> a[i]] /\ b = [i \in 1..n |-> b[i]] /\ \A i \in 1..n : a[i] = b[i]
    BY <1>1, FileFacts
<1> QED BY <1>2

LEMMA ReadReverse ==
    ASSUME NEW file \in File
    PROVE  /\ Reverse(file) \in File /\ Len(Reverse(file)) = Len(file)
           /\ \A i \in 1..Len(file) : Reverse(file)[i] = file[Len(file) - i + 1]
           /\ Read(Reverse(file)) = Reverse(Read(file))
<1>1. /\ DOMAIN Reverse(file) = 1..Len(file)
      /\ Reverse(file) = [i \in 1..Len(file) |-> Reverse(file)[i]]
      /\ \A i \in 1..Len(file) : Reverse(file)[i] = file[Len(file) - i + 1]
    BY FileFacts DEF Reverse
<1>2. \A i \in 1..Len(file) : Len(file) - i + 1 \in 1..Len(file)
    BY FileFacts
<1>3. Reverse(file) \in File /\ Len(Reverse(file)) = Len(file)
    <2>1. \A i \in 1..Len(file) : Reverse(file)[i] \in Row
        BY <1>1, <1>2, FileFacts
    <2> QED BY <1>1, <2>1, FileFacts, SequenceOf, FileIsRows
<1>4. Read(Reverse(file)) = [i \in 1..Len(file) |-> file[Len(file) - i + 1].line]
    BY <1>1 DEF Read
<1>5. Reverse(Read(file)) = [i \in 1..Len(file) |-> Read(file)[Len(file) - i + 1]]
    BY ReadType DEF Reverse
<1>6. \A i \in 1..Len(file) : Read(file)[Len(file) - i + 1] = file[Len(file) - i + 1].line
    BY <1>2, ReadType
<1> QED BY <1>1, <1>3, <1>4, <1>5, <1>6

\* Then they start alike as far as their texts do.
LEMMA CommonRead ==
    ASSUME NEW a \in File, NEW b \in File, Agree(a, b)
    PROVE  Common(a, b) = Common(Read(a), Read(b))
<1> DEFINE limit == Least(Len(a), Len(b))
<1>1. /\ limit \in Nat /\ limit <= Len(a) /\ limit <= Len(b)
      /\ limit = Least(Len(Read(a)), Len(Read(b)))
    BY FileFacts, ReadType DEF Least
<1>2. ASSUME NEW n \in 1..limit
      PROVE  SubSeq(a, 1, n) = SubSeq(b, 1, n) <=>
                 SubSeq(Read(a), 1, n) = SubSeq(Read(b), 1, n)
    <2>1. n \in Nat /\ n <= Len(a) /\ n <= Len(b)
        BY <1>1
    <2>2. /\ Read(SubSeq(a, 1, n)) = SubSeq(Read(a), 1, n)
          /\ Read(SubSeq(b, 1, n)) = SubSeq(Read(b), 1, n)
          /\ Len(SubSeq(a, 1, n)) = n /\ SubSeq(a, 1, n) \in File
          /\ Len(SubSeq(b, 1, n)) = n /\ SubSeq(b, 1, n) \in File
          /\ \A i \in 1..n : SubSeq(a, 1, n)[i] = a[i] /\ SubSeq(b, 1, n)[i] = b[i]
        BY <2>1, ReadPart
    <2>3. ASSUME Read(SubSeq(a, 1, n)) = Read(SubSeq(b, 1, n))
          PROVE  SubSeq(a, 1, n) = SubSeq(b, 1, n)
        <3>1. ASSUME NEW i \in 1..n PROVE SubSeq(a, 1, n)[i] = SubSeq(b, 1, n)[i]
            <4>1. PICK x, y : x = SubSeq(a, 1, n) /\ y = SubSeq(b, 1, n)
                OBVIOUS
            <4>2. /\ x \in File /\ y \in File /\ Len(x) = n /\ Len(y) = n
                  /\ Read(x) = Read(y) /\ x[i] = a[i] /\ y[i] = b[i]
                BY <2>2, <2>3, <4>1
            <4>3. a[i].line = b[i].line
                BY <4>2, ReadType
            <4> QED BY <1>1, <2>1, <2>2, <4>3 DEF Agree
        <3> QED BY <2>2, <3>1, FileFacts
    <2> QED BY <2>2, <2>3
<1>3. {n \in 1..limit : SubSeq(a, 1, n) = SubSeq(b, 1, n)} =
      {n \in 1..limit : SubSeq(Read(a), 1, n) = SubSeq(Read(b), 1, n)}
    BY <1>2
<1> QED BY <1>1, <1>3 DEF Common

\* The ends of the files agree as well, from any line on.
EndsAgree(a, b) ==
    \A k \in Nat \ {0} :
        Agree(Reverse(SubSeq(a, k, Len(a))), Reverse(SubSeq(b, k, Len(b))))

\* Then a hunk of the bytes, shown, is the hunk of the texts.
LEMMA ShownDiff ==
    ASSUME NEW f \in Files, NEW a \in File, NEW b \in File, Agree(a, b), EndsAgree(a, b)
    PROVE  {Shown(h) : h \in Diff(f, a, b)} = Diff(f, Read(a), Read(b))
<1> DEFINE before == Common(a, b)
           tailA == SubSeq(a, before + 1, Len(a))
           tailB == SubSeq(b, before + 1, Len(b))
           rest == Common(Reverse(tailA), Reverse(tailB))
           from == IF before > NearLines THEN before - NearLines ELSE 0
           after == IF rest > NearLines THEN rest - NearLines ELSE 0
<1>1. before \in Nat /\ before = Common(Read(a), Read(b))
    BY CommonType, CommonRead DEF File
<1>2. /\ Len(a) \in Nat /\ Len(b) \in Nat
      /\ Len(Read(a)) = Len(a) /\ Len(Read(b)) = Len(b)
    BY FileFacts, ReadType
<1> HIDE DEF before
<1>3. /\ tailA \in File /\ tailB \in File
      /\ Read(tailA) = SubSeq(Read(a), before + 1, Len(a))
      /\ Read(tailB) = SubSeq(Read(b), before + 1, Len(b))
    <2>1. before + 1 \in Nat \ {0}
        BY <1>1
    <2> QED BY <2>1, EndPart
<1>4. Agree(Reverse(tailA), Reverse(tailB))
    BY <1>1 DEF EndsAgree
<1> HIDE DEF tailA, tailB
<1>5. /\ rest \in Nat
      /\ rest = Common(Reverse(Read(tailA)), Reverse(Read(tailB)))
    <2>1. /\ Reverse(tailA) \in File /\ Reverse(tailB) \in File
          /\ Read(Reverse(tailA)) = Reverse(Read(tailA))
          /\ Read(Reverse(tailB)) = Reverse(Read(tailB))
        BY <1>3, ReadReverse
    <2>2. rest = Common(Read(Reverse(tailA)), Read(Reverse(tailB)))
        BY <1>4, <2>1, CommonRead
    <2> QED BY <2>1, <2>2, CommonType DEF File
<1>6. Hunk(f, a, b) = [file |-> f, at |-> from,
                       old |-> SubSeq(a, from + 1, Len(a) - after),
                       new |-> SubSeq(b, from + 1, Len(b) - after)]
    BY DEF Hunk, before, tailA, tailB
<1>7. Hunk(f, Read(a), Read(b)) = [file |-> f, at |-> from,
                                   old |-> SubSeq(Read(a), from + 1, Len(a) - after),
                                   new |-> SubSeq(Read(b), from + 1, Len(b) - after)]
    BY <1>1, <1>2, <1>3, <1>5 DEF Hunk
<1>8. /\ from + 1 \in Nat \ {0}
      /\ Len(a) - after \in Int /\ Len(a) - after <= Len(a)
      /\ Len(b) - after \in Int /\ Len(b) - after <= Len(b)
    BY <1>1, <1>2, <1>5, BoundsAssumption
<1> HIDE DEF from, after, rest
<1>9. /\ Read(SubSeq(a, from + 1, Len(a) - after)) = SubSeq(Read(a), from + 1, Len(a) - after)
      /\ Read(SubSeq(b, from + 1, Len(b) - after)) = SubSeq(Read(b), from + 1, Len(b) - after)
    BY <1>8, ReadPart
<1>10. Shown(Hunk(f, a, b)) = Hunk(f, Read(a), Read(b))
    <2>1. PICK old, new : /\ old = SubSeq(a, from + 1, Len(a) - after)
                          /\ new = SubSeq(b, from + 1, Len(b) - after)
        OBVIOUS
    <2>2. Shown([file |-> f, at |-> from, old |-> old, new |-> new]) =
              [file |-> f, at |-> from, old |-> Read(old), new |-> Read(new)]
        <3>1. PICK x, y : x = Read(old) /\ y = Read(new)
            OBVIOUS
        <3>2. [[file |-> f, at |-> from, old |-> old, new |-> new] EXCEPT !.old = x, !.new = y] =
                  [file |-> f, at |-> from, old |-> x, new |-> y]
            <4>1. [[file |-> f, at |-> from, old |-> old, new |-> new] EXCEPT !.old = x] =
                      [file |-> f, at |-> from, old |-> x, new |-> new]
                OBVIOUS
            <4>2. [[file |-> f, at |-> from, old |-> x, new |-> new] EXCEPT !.new = y] =
                      [file |-> f, at |-> from, old |-> x, new |-> y]
                OBVIOUS
            <4> QED BY <4>1, <4>2
        <3>3. Shown([file |-> f, at |-> from, old |-> old, new |-> new]) =
                  [[file |-> f, at |-> from, old |-> old, new |-> new] EXCEPT !.old = x, !.new = y]
            BY <3>1 DEF Shown
        <3> QED BY <3>1, <3>2, <3>3
    <2> QED BY <1>6, <1>7, <1>9, <2>1, <2>2
<1>11. Read(a) = Read(b) => a = b
    <2> SUFFICES ASSUME Read(a) = Read(b) PROVE a = b
        OBVIOUS
    <2>1. Len(a) = Len(b)
        BY <1>2
    <2>2. ASSUME NEW i \in 1..Len(a) PROVE a[i] = b[i]
        <3>1. a[i].line = b[i].line
            BY <2>1, ReadType
        <3> QED BY <1>2, <2>1, <3>1 DEF Agree, Least
    <2> QED BY <2>1, <2>2, FilesEqual
<1> QED BY <1>10, <1>11 DEF Diff

\* Files agree if neither has carriage returns, and if they have the same ones.
LEMMA PlainAgree ==
    ASSUME NEW a \in File, NEW b \in File, ~HasReturns(a), ~HasReturns(b)
    PROVE  Agree(a, b) /\ EndsAgree(a, b)
<1>1. ASSUME NEW s \in File, NEW t \in File, ~HasReturns(s), ~HasReturns(t)
      PROVE  Agree(s, t)
    <2> SUFFICES ASSUME NEW i \in 1..Least(Len(s), Len(t)), s[i].line = t[i].line
                 PROVE  s[i] = t[i]
        BY DEF Agree
    <2>1. i \in 1..Len(s) /\ i \in 1..Len(t)
        BY FileFacts DEF Least
    <2>2. s[i].cr = FALSE /\ t[i].cr = FALSE
        BY <1>1, <2>1, FileFacts DEF HasReturns
    <2> QED BY <2>1, <2>2, FileFacts, RowFacts
<1>2. ASSUME NEW s \in File, ~HasReturns(s), NEW k \in Nat \ {0}
      PROVE  /\ Reverse(SubSeq(s, k, Len(s))) \in File
             /\ ~HasReturns(Reverse(SubSeq(s, k, Len(s))))
    <2>1. PICK t : t = SubSeq(s, k, Len(s))
        OBVIOUS
    <2>2. /\ t \in File /\ Len(t) = IF k <= Len(s) THEN 1 + Len(s) - k ELSE 0
          /\ \A i \in 1..(1 + Len(s) - k) : t[i] = s[i + k - 1]
        BY <2>1, EndPart
    <2>3. ~HasReturns(t)
        <3> SUFFICES ASSUME NEW i \in 1..Len(t) PROVE ~t[i].cr
            BY <2>2, FileFacts DEF HasReturns
        <3>1. i + k - 1 \in 1..Len(s) /\ t[i] = s[i + k - 1]
            BY <2>2, FileFacts
        <3> QED BY <1>2, <3>1, FileFacts DEF HasReturns
    <2>4. ~HasReturns(Reverse(t))
        <3> SUFFICES ASSUME NEW i \in 1..Len(t) PROVE ~Reverse(t)[i].cr
            BY <2>2, ReadReverse, FileFacts DEF HasReturns
        <3>1. Len(t) - i + 1 \in 1..Len(t)
            BY <2>2, FileFacts
        <3>2. Reverse(t)[i] = t[Len(t) - i + 1]
            BY <2>2, ReadReverse
        <3> QED BY <2>2, <2>3, <3>1, <3>2, FileFacts DEF HasReturns
    <2> QED BY <2>1, <2>2, <2>4, ReadReverse
<1> QED BY <1>1, <1>2 DEF EndsAgree

LEMMA KeptAgree ==
    ASSUME NEW a \in File, NEW b \in File, Len(a) = Len(b),
           \A i \in 1..Len(a) : a[i].cr = b[i].cr
    PROVE  Agree(a, b) /\ EndsAgree(a, b)
<1>1. ASSUME NEW s \in File, NEW t \in File, Len(s) = Len(t),
             \A i \in 1..Len(s) : s[i].cr = t[i].cr
      PROVE  Agree(s, t)
    <2> SUFFICES ASSUME NEW i \in 1..Len(s), s[i].line = t[i].line PROVE s[i] = t[i]
        BY <1>1, FileFacts DEF Agree, Least
    <2> QED BY <1>1, FileFacts, RowFacts
<1>2. ASSUME NEW k \in Nat \ {0}
      PROVE  Agree(Reverse(SubSeq(a, k, Len(a))), Reverse(SubSeq(b, k, Len(b))))
    <2>1. PICK s, t : s = SubSeq(a, k, Len(a)) /\ t = SubSeq(b, k, Len(b))
        OBVIOUS
    <2>2. Len(a) \in Int
        BY FileFacts
    <2>3. /\ s \in File /\ Len(s) = IF k <= Len(a) THEN 1 + Len(a) - k ELSE 0
          /\ t \in File /\ Len(t) = Len(s)
          /\ \A i \in 1..(1 + Len(a) - k) : s[i] = a[i + k - 1] /\ t[i] = b[i + k - 1]
        <3>1. /\ s \in File /\ Len(s) = IF k <= Len(a) THEN 1 + Len(a) - k ELSE 0
              /\ \A i \in 1..(1 + Len(a) - k) : s[i] = a[i + k - 1]
            BY <2>1, EndPart
        <3>2. /\ t \in File /\ Len(t) = IF k <= Len(b) THEN 1 + Len(b) - k ELSE 0
              /\ \A i \in 1..(1 + Len(b) - k) : t[i] = b[i + k - 1]
            BY <2>1, EndPart
        <3> QED BY <3>1, <3>2
    <2>4. ASSUME NEW i \in 1..Len(s) PROVE s[i].cr = t[i].cr
        <3>1. i + k - 1 \in 1..Len(a) /\ i \in 1..(1 + Len(a) - k)
            BY <2>2, <2>3
        <3> QED BY <2>3, <3>1
    <2>5. ASSUME NEW i \in 1..Len(s) PROVE Reverse(s)[i].cr = Reverse(t)[i].cr
        <3>1. Len(s) - i + 1 \in 1..Len(s)
            BY <2>3, FileFacts
        <3>2. Reverse(s)[i] = s[Len(s) - i + 1]
            BY <2>3, ReadReverse
        <3>3. Reverse(t)[i] = t[Len(s) - i + 1]
            <4>1. t \in File /\ i \in 1..Len(t) /\ Len(t) = Len(s)
                BY <2>3
            <4>2. Reverse(t)[i] = t[Len(t) - i + 1]
                BY <4>1, ReadReverse
            <4> QED BY <4>1, <4>2
        <3> QED BY <2>4, <3>1, <3>2, <3>3
    <2>6. /\ Reverse(s) \in File /\ Len(Reverse(s)) = Len(s)
          /\ Reverse(t) \in File /\ Len(Reverse(t)) = Len(s)
        BY <2>3, ReadReverse
    <2>7. Agree(Reverse(s), Reverse(t))
        BY <1>1, <2>5, <2>6
    <2> QED BY <2>1, <2>7
<1> QED BY <1>1, <1>2 DEF EndsAgree

-----------------------------------------------------------------------------
\* What a request to rewrite shows, and which files it changes.
LEMMA PreviewType ==
    ASSUME tree \in Trees, NEW r \in Requests, r.operation = "rewrite"
    PROVE  /\ Preview(r) \subseteq Hunks
           /\ \A f \in Files : Shows(f, tree[f], r) \subseteq Preview(r)
           /\ FilesOf(Preview(r)) = {f \in Files : Rewritten(tree[f], r) # tree[f]}
<1>1. ASSUME NEW f \in Files
      PROVE  /\ Read(tree[f]) \in Text /\ Read(Rewritten(tree[f], r)) \in Text
             /\ Rewritten(tree[f], r) # tree[f] <=> Read(Rewritten(tree[f], r)) # Read(tree[f])
    <2>1. tree[f] \in File
        BY DEF Trees
    <2>2. /\ Rewritten(tree[f], r) \in File
          /\ Len(Rewritten(tree[f], r)) = Len(tree[f])
          /\ \A i \in 1..Len(tree[f]) : Rewritten(tree[f], r)[i].cr = tree[f][i].cr
        BY <2>1, RewrittenType
    <2>3. ASSUME Read(Rewritten(tree[f], r)) = Read(tree[f])
          PROVE  Rewritten(tree[f], r) = tree[f]
        <3>1. PICK new : new = Rewritten(tree[f], r)
            OBVIOUS
        <3>2. ASSUME NEW i \in 1..Len(tree[f]) PROVE new[i] = tree[f][i]
            <4>1. new[i].line = tree[f][i].line /\ new[i].cr = tree[f][i].cr
                BY <2>1, <2>2, <2>3, <3>1, ReadType
            <4> QED BY <2>1, <2>2, <3>1, <4>1, FileFacts, RowFacts
        <3> QED BY <2>1, <2>2, <3>1, <3>2, FilesEqual
    <2> QED BY <2>1, <2>2, <2>3, ReadType
<1>2. Preview(r) \subseteq Hunks
    BY <1>1, DiffType DEF Preview, Shows
<1>3. \A f \in Files : Shows(f, tree[f], r) \subseteq Preview(r)
    BY DEF Preview
<1>4. ASSUME NEW f \in FilesOf(Preview(r))
      PROVE  f \in Files /\ Rewritten(tree[f], r) # tree[f]
    <2>1. PICK h \in Preview(r) : h.file = f
        BY DEF FilesOf
    <2>2. PICK g \in Files : h \in Diff(g, Read(tree[g]), Read(Rewritten(tree[g], r)))
        BY <2>1 DEF Preview, Shows
    <2>3. g = f
        BY <1>1, <2>1, <2>2, DiffType
    <2> QED BY <1>1, <2>2, <2>3 DEF Diff
<1>5. ASSUME NEW f \in Files, Rewritten(tree[f], r) # tree[f]
      PROVE  f \in FilesOf(Preview(r))
    <2>1. FilesOf(Shows(f, tree[f], r)) = {f}
        BY <1>1, <1>5, DiffType DEF Shows
    <2> QED BY <1>3, <2>1 DEF FilesOf
<1> QED BY <1>2, <1>3, <1>4, <1>5

LEMMA PatchIdType ==
    ASSUME patches \in Seq(Patches), NEW diff \in SUBSET Hunks
    PROVE  PatchId(diff) \in Ids
<1>1. IsFiniteSet(TakenIds)
    <2> DEFINE ids == [i \in DOMAIN patches |-> patches[i].id]
    <2>1. IsFiniteSet(DOMAIN patches)
        BY FS_Interval
    <2>2. ids \in Surjection(DOMAIN patches, TakenIds)
        BY DEF Surjection, TakenIds, ToSet
    <2> QED BY <2>1, <2>2, FS_Surjection
<1>2. IsFiniteSet({id \in TakenIds : id.of = diff})
    BY <1>1, FS_Subset
<1>3. Cardinality({id \in TakenIds : id.of = diff}) \in Nat
    BY <1>2, FS_CardinalityType
<1> QED BY <1>3 DEF PatchId, Ids

-----------------------------------------------------------------------------
(* The inductive invariant. *)

\* Which fields of a call mean something at which step.
Shape(e) ==
    /\ e.mode = "none" <=> e.pc = "idle"
    /\ e.pc # "idle" => e.request \in Requests
    /\ e.pc \in {"splice", "diff", "truncate", "fill"} =>
           e.at \in Places /\ e.request.operation = "replace_symbol"
    /\ e.pc \in {"fingerprint", "rewrite"} => e.request.operation = "rewrite"
    /\ e.pc \in {"draw", "store"} => e.mode = "propose" /\ e.diff # {}
    /\ e.pc = "fingerprint" /\ e.mode = "propose" => e.diff # {}
    /\ e.pc = "store" => e.id \in Ids
    /\ e.pc \in {"diff", "fingerprint"} => e.mode \in {"propose", "check"}
    /\ e.pc = "compare" => e.mode = "check"
    /\ e.pc \in {"truncate", "fill", "rewrite", "save"} => e.mode = "write"
    /\ e.pc \notin {"rewrite", "save"} => e.wrote = {}
    /\ e.mode \in {"check", "write"} =>
           /\ e.slot \in DOMAIN patches
           /\ e.request = patches[e.slot].request

\* The text a replacement makes of the file of the symbol, and its diff.
Replaced(r) == Spliced(Read(tree[index.file]), index.line, r.replacement)
ReplacedDiff(r) == Diff(index.file, Read(tree[index.file]), Replaced(r))

\* While nothing moves, each read of an apply finds what the last one found.
SoundReplace(e) ==
    /\ e.pc \in {"splice", "diff", "truncate"} => e.at = index /\ index # None
    /\ e.pc \in {"diff", "truncate"} => e.text = Replaced(e.request)
    /\ \/ e.pc = "compare"
       \/ e.mode = "write" /\ e.pc \in {"locate", "splice", "truncate"}
       => index # None /\ e.diff = ReplacedDiff(e.request)
    /\ e.pc = "fill" => FilesOf(e.diff) = {e.at.file}

SoundRewrite(e) ==
    /\ \/ e.pc \in {"fingerprint", "compare"}
       \/ e.mode = "write" /\ e.pc = "locate"
       => e.diff = Preview(e.request)
    /\ e.pc = "rewrite" =>
           /\ \A f \in e.todo : Shows(f, tree[f], e.request) \subseteq e.diff
           /\ FilesOf(e.diff) =
                  e.wrote \cup {f \in e.todo : Rewritten(tree[f], e.request) # tree[f]}

Sound(e) ==
    /\ e.mode = "write" =>
           e.diff = patches[e.slot].diff /\ FilesOf(e.diff) \subseteq Scope \cup acked
    /\ /\ e.mode = "write"
       /\ e.pc \in {"splice", "truncate"}
       /\ e.moved # "within"
       /\ e.request.expected # None
       => tree[e.at.file][e.at.line].line = e.request.expected
    /\ e.moved = "no" =>
           /\ e.request.operation = "replace_symbol" => SoundReplace(e)
           /\ e.request.operation = "rewrite" => SoundRewrite(e)
           /\ e.pc = "save" => e.wrote = FilesOf(e.diff)

Data ==
    /\ tree \in Trees
    /\ index \in Places \cup {None}
    /\ patches \in Seq(Patches)
    /\ \A i \in DOMAIN patches : patches[i].diff # {}
    /\ modified \subseteq Files
    /\ acked \subseteq Files
    /\ lock \in Callers \cup {None}
    /\ changes \in Nat

PInv ==
    /\ Data
    /\ call \in [Callers -> Calls]
    /\ \A c \in Callers :
           /\ lock = c <=> call[c].mode \in {"check", "write"}
           /\ Shape(call[c])
           /\ lock = c => Sound(call[c])

\* A place is a record, and None is not.
LEMMA NonePlace == None \notin Places /\ None \notin Requests
BY NoneAssumption DEF Places

\* What the invariant says implies the types.
LEMMA PInvTypes == PInv => TypeOK
BY DEF PInv, Data, TypeOK, Shape

LEMMA PInvInit == Init => PInv
<1> SUFFICES ASSUME Init PROVE PInv
    OBVIOUS
<1>1. Idle \in Calls
    BY DEF Idle, Calls, Text
<1>2. call \in [Callers -> Calls] /\ \A c \in Callers : call[c] = Idle
    BY <1>1 DEF Init
<1>3. Shape(Idle) /\ Idle.mode = "none"
    BY DEF Shape, Idle
<1>4. Data
    BY FilesAssumption DEF Init, Data, Trees
<1>5. lock = None /\ None \notin Callers
    BY NoneAssumption DEF Init
<1> QED BY <1>2, <1>3, <1>4, <1>5 DEF PInv


-----------------------------------------------------------------------------
(* Steps of one call. *)

\* A step that changes nothing but the call and the lock keeps the invariant if
\* the call it leaves is well shaped and sound.
LEMMA CallStep ==
    ASSUME PInv, NEW c \in Callers, NEW e \in Calls,
           call' = [call EXCEPT ![c] = e],
           Shape(e), e.mode \in {"check", "write"} => Sound(e),
           e.mode \in {"check", "write"} => lock \in {c, None} /\ lock' = c,
           e.mode \notin {"check", "write"} => lock' = IF lock = c THEN None ELSE lock,
           UNCHANGED <<tree, index, patches, modified, acked, changes>>
    PROVE  PInv'
<1>1. call' \in [Callers -> Calls] /\ call'[c] = e /\ \A d \in Callers \ {c} : call'[d] = call[d]
    BY DEF PInv
<1>2. None \notin Callers /\ lock \in Callers \cup {None}
    BY NoneAssumption DEF PInv, Data
<1>3. Data'
    BY <1>2 DEF PInv, Data, Trees, Places
<1>5. ASSUME NEW d \in Callers
      PROVE  /\ lock' = d <=> call'[d].mode \in {"check", "write"}
             /\ Shape(call'[d])
             /\ lock' = d => Sound(call'[d])
    <2>1. CASE d = c
        BY <1>1, <1>2, <2>1 DEF PInv
    <2>2. CASE d # c
        <3>1. lock' = d <=> lock = d
            BY <1>1, <1>2, <2>2
        <3> QED BY <1>1, <2>2, <3>1 DEF PInv
    <2> QED BY <2>1, <2>2
<1>6. ASSUME NEW d \in Callers
      PROVE  /\ lock' = d <=> call'[d].mode \in {"check", "write"}
             /\ Shape(call[d])'
             /\ lock' = d => Sound(call[d])'
    <2>1. Shape(call'[d]) => Shape(call[d])'
        BY DEF Shape
    <2>2. Sound(call'[d]) => Sound(call[d])'
        BY DEF Sound, SoundReplace, SoundRewrite, ReplacedDiff, Replaced, Preview
    <2> QED BY <1>5, <2>1, <2>2
<1> QED BY <1>1, <1>3, <1>6 DEF PInv


LEMMA EndStep ==
    ASSUME PInv, NEW c \in Callers, Ends(c),
           UNCHANGED <<tree, index, patches, modified, acked, changes>>
    PROVE  PInv'
<1>1. Idle \in Calls /\ Shape(Idle) /\ Idle.mode = "none"
    BY DEF Idle, Calls, Text, Shape
<1> QED BY <1>1, CallStep DEF Ends

\* A call goes on with the lock it has.
LEMMA GoStep ==
    ASSUME PInv, NEW c \in Callers, NEW e \in Calls, Goes(c, e),
           e.mode \in {"check", "write"} <=> call[c].mode \in {"check", "write"},
           Shape(e), e.mode \in {"check", "write"} => Sound(e),
           UNCHANGED <<tree, index, patches, modified, acked, lock, changes>>
    PROVE  PInv'
<1>1. lock = c <=> e.mode \in {"check", "write"}
    BY DEF PInv
<1> QED BY <1>1, CallStep DEF Goes

\* The call as it is.
LEMMA CallFacts ==
    ASSUME PInv, NEW c \in Callers
    PROVE  /\ call[c] \in Calls
           /\ Shape(call[c])
           /\ call[c].mode \in {"check", "write"} => Sound(call[c])
BY DEF PInv

\* What is asked for.
LEMMA RequestFacts ==
    ASSUME NEW r \in Requests
    PROVE  /\ r.operation \in {"replace_symbol", "rewrite"}
           /\ r.operation = "replace_symbol" => r.replacement \in Text
BY RequestsAssumption DEF RequestType

LEMMA LocateStep ==
    ASSUME PInv, NEW c \in Callers, LocateTarget(c)
    PROVE  PInv'
<1> DEFINE e == [call[c] EXCEPT !.pc = "splice", !.at = index, !.moved = Looked(c)]
<1>1. CASE Found(call[c].request)
    <2>1. index \in Places
        BY <1>1 DEF Found, PInv, Data
    <2>2. e \in Calls
        <3>1. call[c] \in Calls
            BY CallFacts
        <3>2. Looked(c) \in {"no", "before", "within"}
            BY <3>1 DEF Looked, Calls
        <3>3. \A moved \in {"no", "before", "within"} :
                  [call[c] EXCEPT !.pc = "splice", !.at = index, !.moved = moved] \in Calls
            BY <2>1, <3>1 DEF Calls
        <3> QED BY <3>2, <3>3
    <2>3. Shape(e)
        BY <2>1, CallFacts DEF Shape, LocateTarget, Calls
    <2>4. ASSUME e.mode \in {"check", "write"} PROVE Sound(e)
        BY <1>1, <2>1, <2>4, CallFacts, NonePlace
        DEF Sound, SoundReplace, SoundRewrite, Looked, Found, LocateTarget, Calls
    <2> QED BY <1>1, <2>2, <2>3, <2>4, GoStep DEF LocateTarget, Calls
<1>2. CASE ~Found(call[c].request)
    BY <1>2, EndStep DEF LocateTarget
<1> QED BY <1>1, <1>2

LEMMA SpliceStep ==
    ASSUME PInv, NEW c \in Callers, SpliceText(c)
    PROVE  PInv'
<1> DEFINE text == Spliced(Read(tree[call[c].at.file]), call[c].at.line,
                          call[c].request.replacement)
           e == [call[c] EXCEPT !.pc = IF call[c].mode = "write" THEN "truncate" ELSE "diff",
                                !.text = text]
<1>1. call[c].pc = "splice" /\ Goes(c, e)
    BY DEF SpliceText
<1>2. text \in Text
    <2>1. /\ call[c].at.file \in Files /\ call[c].at.line \in Nat \ {0}
          /\ call[c].request.replacement \in Text
        BY <1>1, CallFacts, RequestFacts DEF Shape, Places
    <2>2. Read(tree[call[c].at.file]) \in Text
        BY <2>1, ReadType DEF PInv, Data, Trees
    <2> QED BY <2>1, <2>2, SplicedType
<1> HIDE DEF text
<1>3. e \in Calls
    <2>1. call[c] \in Calls
        BY CallFacts
    <2> QED BY <1>2, <2>1 DEF Calls
<1>4. Shape(e)
    BY <1>1, CallFacts DEF Shape, Calls
<1>5. ASSUME e.mode \in {"check", "write"} PROVE Sound(e)
    BY <1>1, <1>5, CallFacts DEF Sound, SoundReplace, SoundRewrite, Shape, Calls, Replaced, text
<1> QED BY <1>1, <1>3, <1>4, <1>5, GoStep DEF SpliceText, Calls

\* The end of a dry run.
LEMMA DerivedStep ==
    ASSUME PInv, NEW c \in Callers, NEW diff \in SUBSET Hunks, Derived(c, diff),
           call[c].pc \in {"diff", "locate"}, call[c].mode \in {"propose", "check"},
           call[c].pc = "diff" /\ call[c].moved = "no" /\ call[c].mode = "check" =>
               index # None /\ diff = ReplacedDiff(call[c].request),
           call[c].pc = "locate" =>
               call[c].request.operation = "rewrite" /\ diff = Preview(call[c].request),
           UNCHANGED <<tree, index, patches, modified, acked, changes>>
    PROVE  PInv'
<1> DEFINE pc == IF call[c].request.operation = "rewrite" THEN "fingerprint"
                 ELSE IF call[c].mode = "propose" THEN "draw" ELSE "compare"
           e == [call[c] EXCEPT !.diff = diff, !.at = None, !.text = << >>, !.pc = pc]
<1>1. CASE call[c].mode = "propose" /\ diff = {}
    BY <1>1, EndStep DEF Derived
<1>2. CASE ~(call[c].mode = "propose" /\ diff = {})
    <2>1. Goes(c, e) /\ UNCHANGED lock
        BY <1>2 DEF Derived
    <2>2. /\ pc \in {"fingerprint", "draw", "compare"}
          /\ pc = "fingerprint" <=> call[c].request.operation = "rewrite"
          /\ pc = "draw" => call[c].mode = "propose"
          /\ pc = "compare" => call[c].mode # "propose"
        OBVIOUS
    <2> HIDE DEF pc
    <2>3. e \in Calls
        <3>1. call[c] \in Calls /\ << >> \in Text
            BY CallFacts DEF Text
        <3> QED BY <2>2, <3>1 DEF Calls
    <2>4. Shape(e)
        BY <1>2, <2>2, CallFacts DEF Shape, Calls
    <2>5. ASSUME e.mode \in {"check", "write"} PROVE Sound(e)
        <3>1. /\ e.mode = "check" /\ e.pc = pc /\ e.diff = diff /\ e.moved = call[c].moved
              /\ e.request = call[c].request
            BY <2>5, CallFacts DEF Calls
        <3>2. ASSUME e.moved = "no", e.request.operation = "replace_symbol"
              PROVE  SoundReplace(e)
            BY <2>2, <3>1, <3>2, CallFacts DEF SoundReplace
        <3>3. ASSUME e.request.operation = "rewrite"
              PROVE  SoundRewrite(e)
            BY <2>2, <3>1, <3>3, CallFacts DEF SoundRewrite, Shape
        <3> QED BY <2>2, <3>1, <3>2, <3>3 DEF Sound
    <2> QED BY <2>1, <2>3, <2>4, <2>5, GoStep DEF Calls
<1> QED BY <1>1, <1>2


LEMMA DiffStep ==
    ASSUME PInv, NEW c \in Callers, DiffText(c)
    PROVE  PInv'
<1> DEFINE f == call[c].at.file
           diff == Diff(f, Read(tree[f]), call[c].text)
<1>1. /\ call[c].pc = "diff"
      /\ call[c].mode \in {"propose", "check"}
      /\ call[c].at \in Places
      /\ call[c].request.operation = "replace_symbol"
    BY CallFacts DEF DiffText, Shape
<1>2. Read(tree[f]) \in Text /\ call[c].text \in Text /\ f \in Files
    BY <1>1, CallFacts, ReadType DEF PInv, Data, Trees, Places, Calls
<1>3. diff \in SUBSET Hunks
    BY <1>2, DiffType
<1>4. call[c].moved = "no" /\ call[c].mode = "check" =>
          index # None /\ diff = ReplacedDiff(call[c].request)
    BY <1>1, CallFacts DEF Sound, SoundReplace, ReplacedDiff
<1>5. Derived(c, diff) /\ UNCHANGED <<tree, index, patches, modified, acked, changes>>
    BY DEF DiffText
<1> HIDE DEF diff
<1> QED BY <1>1, <1>3, <1>4, <1>5, DerivedStep

LEMMA PreviewStep ==
    ASSUME PInv, NEW c \in Callers, PreviewRewrite(c)
    PROVE  PInv'
<1> DEFINE r == call[c].request
           e == [call[c] EXCEPT !.pc = "rewrite", !.todo = Files, !.moved = Looked(c)]
<1>1. call[c].pc = "locate" /\ r \in Requests /\ r.operation = "rewrite"
    BY CallFacts DEF PreviewRewrite, Shape
<1>2. /\ Preview(r) \in SUBSET Hunks
      /\ \A f \in Files : Shows(f, tree[f], r) \subseteq Preview(r)
      /\ FilesOf(Preview(r)) = {f \in Files : Rewritten(tree[f], r) # tree[f]}
    BY <1>1, PreviewType DEF PInv, Data
<1>3. CASE call[c].mode = "write"
    <2>1. e \in Calls
        <3>1. call[c] \in Calls /\ Looked(c) \in {"no", "before", "within"}
            BY CallFacts DEF Looked, Calls
        <3> QED BY <1>2, <3>1 DEF Calls
    <2>2. Shape(e)
        BY <1>1, <1>3, CallFacts DEF Shape, Calls
    <2>3. call[c].wrote = {}
        BY <1>1, CallFacts DEF Shape
    <2>4. /\ e.pc = "rewrite" /\ e.mode = "write" /\ e.todo = Files /\ e.wrote = {}
          /\ e.diff = call[c].diff /\ e.request = r /\ e.slot = call[c].slot
          /\ e.moved = "no" => call[c].moved = "no"
        BY <1>3, <2>3, CallFacts DEF Calls, Looked
    <2> HIDE DEF e
    <2>5. ASSUME e.moved = "no" PROVE SoundRewrite(e)
        <3>1. e.diff = Preview(r)
            BY <1>1, <1>3, <2>4, <2>5, CallFacts DEF Sound, SoundRewrite
        <3> QED BY <1>2, <2>4, <3>1 DEF SoundRewrite
    <2>6. Sound(e)
        BY <1>1, <1>3, <2>4, <2>5, CallFacts DEF Sound
    <2> QED BY <1>3, <2>1, <2>2, <2>4, <2>6, GoStep DEF PreviewRewrite, e
<1>4. CASE call[c].mode # "write"
    <2>1. call[c].mode \in {"propose", "check"}
        BY <1>1, <1>4, CallFacts DEF Calls, Shape
    <2>2. Derived(c, Preview(r))
        BY <1>4 DEF PreviewRewrite
    <2> QED BY <1>1, <1>2, <2>1, <2>2, DerivedStep DEF PreviewRewrite
<1> QED BY <1>3, <1>4

LEMMA FingerprintStep ==
    ASSUME PInv, NEW c \in Callers, NEW print, CaptureFingerprint(c, print)
    PROVE  PInv'
<1>1. /\ call[c].pc = "fingerprint" /\ call[c].request.operation = "rewrite"
      /\ call[c].mode \in {"propose", "check"} /\ call[c].request \in Requests
    BY CallFacts DEF CaptureFingerprint, Shape
<1>2. print \in Trees \cup {None}
    BY FilesAssumption DEF CaptureFingerprint, Fingerprints, Trees, PInv, Data
<1>3. CASE Ends(c)
    BY <1>3, EndStep DEF CaptureFingerprint
<1>4. CASE call[c].mode = "propose" /\ ~Ends(c)
    <2> DEFINE e == [call[c] EXCEPT !.pc = "draw", !.print = print]
    <2>1. e \in Calls
        <3>1. call[c] \in Calls
            BY CallFacts
        <3> QED BY <1>2, <3>1 DEF Calls
    <2>2. call[c].diff # {}
        BY <1>1, <1>4, CallFacts DEF Shape
    <2>3. Shape(e)
        BY <1>1, <1>4, <2>2, CallFacts DEF Shape, Calls
    <2> QED BY <1>4, <2>1, <2>3, GoStep DEF CaptureFingerprint, Calls
<1>5. CASE call[c].mode = "check" /\ ~Ends(c)
    <2> DEFINE e == [call[c] EXCEPT !.pc = "compare"]
    <2>1. e \in Calls
        <3>1. call[c] \in Calls
            BY CallFacts
        <3> QED BY <3>1 DEF Calls
    <2>2. Shape(e)
        BY <1>1, <1>5, CallFacts DEF Shape, Calls
    <2>3. Sound(e)
        BY <1>1, <1>5, CallFacts DEF Sound, SoundReplace, SoundRewrite, Calls
    <2> QED BY <1>5, <2>1, <2>2, <2>3, GoStep DEF CaptureFingerprint, Calls
<1> QED BY <1>1, <1>3, <1>4, <1>5

LEMMA DrawStep ==
    ASSUME PInv, NEW c \in Callers, DrawId(c)
    PROVE  PInv'
<1> DEFINE id == PatchId(call[c].diff)
           e == [call[c] EXCEPT !.pc = "store", !.id = id]
<1>1. id \in Ids
    BY CallFacts, PatchIdType DEF PInv, Data, Calls
<1> HIDE DEF id
<1>2. e \in Calls
    <2>1. call[c] \in Calls
        BY CallFacts
    <2> QED BY <1>1, <2>1 DEF Calls
<1>3. Shape(e) /\ e.mode = "propose" /\ call[c].mode = "propose"
    BY <1>1, CallFacts DEF Shape, Calls, DrawId
<1> QED BY <1>2, <1>3, GoStep DEF DrawId, id

LEMMA CompareStep ==
    ASSUME PInv, NEW c \in Callers, Compare(c)
    PROVE  PInv'
<1> DEFINE e == [call[c] EXCEPT !.pc = "locate", !.mode = "write"]
<1>1. CASE Ends(c)
    BY <1>1, EndStep DEF Compare
<1>2. CASE ~Ends(c)
    <2>1. /\ call[c].diff = Patch(c).diff
          /\ Unacknowledged(FilesOf(call[c].diff)) = {}
          /\ Goes(c, e) /\ UNCHANGED lock
          /\ call[c].pc = "compare" /\ call[c].mode = "check"
        BY <1>2, CallFacts DEF Compare, Shape
    <2>2. e \in Calls
        <3>1. call[c] \in Calls
            BY CallFacts
        <3> QED BY <3>1 DEF Calls
    <2>3. Shape(e)
        BY <2>1, CallFacts DEF Shape, Calls
    <2>4. e.diff = patches[e.slot].diff /\ FilesOf(e.diff) \subseteq Scope \cup acked
        BY <2>1, CallFacts DEF Patch, Unacknowledged, Calls
    <2>5. Sound(e)
        BY <2>1, <2>4, CallFacts DEF Sound, SoundReplace, SoundRewrite, Calls
    <2> QED BY <2>1, <2>2, <2>3, <2>5, GoStep DEF Compare, Calls
<1> QED BY <1>1, <1>2


LEMMA ProposeStep ==
    ASSUME PInv, NEW c \in Callers, NEW request \in Requests, ProposePatch(c, request)
    PROVE  PInv'
<1> DEFINE e == [Idle EXCEPT !.pc = "locate", !.mode = "propose", !.request = request]
<1>1. e \in Calls
    <2>1. Idle \in Calls
        BY DEF Idle, Calls, Text
    <2> QED BY <2>1 DEF Calls
<1>2. Shape(e) /\ e.mode = "propose"
    BY DEF Shape, Idle
<1>3. call[c].mode = "none"
    BY CallFacts DEF ProposePatch, Shape
<1> QED BY <1>1, <1>2, <1>3, GoStep DEF ProposePatch

LEMMA ApplyStep ==
    ASSUME PInv, NEW c \in Callers, NEW i \in DOMAIN patches, ApplyPatch(c, i)
    PROVE  PInv'
<1> DEFINE e == [Idle EXCEPT !.pc = "locate", !.mode = "check", !.slot = i,
                             !.request = patches[i].request]
<1>1. patches[i] \in Patches /\ i \in Nat
    BY DEF PInv, Data
<1>2. patches[i].request \in Requests
    BY <1>1 DEF Patches
<1>3. e \in Calls
    <2>1. Idle \in Calls
        BY DEF Idle, Calls, Text
    <2> QED BY <1>1, <1>2, <2>1 DEF Calls
<1>4. Shape(e)
    BY <1>2 DEF Shape, Idle
<1>5. Sound(e)
    BY DEF Sound, SoundReplace, SoundRewrite, Idle
<1>6. e.mode = "check" /\ call' = [call EXCEPT ![c] = e] /\ lock = None /\ lock' = c
      /\ UNCHANGED <<tree, index, patches, modified, acked, changes>>
    BY DEF ApplyPatch, Goes, Idle
<1> HIDE DEF e
<1> QED BY <1>3, <1>4, <1>5, <1>6, CallStep

LEMMA StopStep ==
    ASSUME PInv, NEW c \in Callers, Stop(c)
    PROVE  PInv'
BY EndStep DEF Stop

-----------------------------------------------------------------------------
(* Steps that write. *)

\* No call but that of the lock's holder applies.
LEMMA OneApplies ==
    ASSUME PInv, NEW c \in Callers, call[c].mode \in {"check", "write"}
    PROVE  lock = c /\ \A d \in Callers \ {c} : call[d].mode \notin {"check", "write"}
BY DEF PInv

\* A step of the lock's holder that changes the files, which keeps the lock.
LEMMA WriteStep ==
    ASSUME PInv, NEW c \in Callers, NEW e \in Calls, Goes(c, e),
           call[c].mode = "write", e.mode = "write", Shape(e), Sound(e)', tree' \in Trees,
           UNCHANGED <<index, patches, modified, acked, lock, changes>>
    PROVE  PInv'
<1>1. call' \in [Callers -> Calls] /\ call'[c] = e /\ \A d \in Callers \ {c} : call'[d] = call[d]
    BY DEF PInv, Goes
<1>2. lock = c /\ \A d \in Callers \ {c} : call[d].mode \notin {"check", "write"}
    BY OneApplies
<1>3. Data'
    BY DEF PInv, Data, Places
<1>4. ASSUME NEW d \in Callers
      PROVE  lock' = d <=> call'[d].mode \in {"check", "write"}
    BY <1>1, <1>2 DEF PInv
<1>5. ASSUME NEW d \in Callers PROVE Shape(call[d])'
    <2>1. Shape(call'[d])
        BY <1>1 DEF PInv
    <2> QED BY <2>1 DEF Shape
<1>6. Sound(call[c])'
    BY <1>1 DEF Sound, SoundReplace, SoundRewrite, ReplacedDiff, Replaced, Preview
<1> QED BY <1>1, <1>2, <1>3, <1>4, <1>5, <1>6 DEF PInv

LEMMA TruncateStep ==
    ASSUME PInv, NEW c \in Callers, TruncateFile(c)
    PROVE  PInv'
<1> PICK e : e = [call[c] EXCEPT !.pc = "fill"]
    OBVIOUS
<1>1. /\ call[c].pc = "truncate" /\ call[c].mode = "write" /\ call[c].at \in Places
      /\ call[c].request.operation = "replace_symbol" /\ Goes(c, e)
    BY CallFacts DEF TruncateFile, Shape
<1>2. e \in Calls
    BY CallFacts DEF Calls
<1>3. Shape(e)
    BY <1>1, CallFacts DEF Shape, Calls
<1>4. tree' \in Trees
    <2>1. << >> \in File
        BY FileIsRows
    <2> QED BY <1>1, <2>1 DEF TruncateFile, PInv, Data, Trees, Places
<1>5. ASSUME e.moved = "no" PROVE FilesOf(e.diff) = {e.at.file}
    <2>1. /\ e.diff = ReplacedDiff(call[c].request) /\ e.at = index
          /\ call[c].text = Replaced(call[c].request)
        BY <1>1, <1>5, CallFacts DEF Sound, SoundReplace, Calls
    <2>2. e.diff # {}
        <3>1. e.diff = patches[call[c].slot].diff
            BY <1>1, CallFacts DEF Sound, Calls
        <3> QED BY <1>1, <3>1, CallFacts DEF Shape, PInv, Data
    <2>3. index.file \in Files /\ Read(tree[index.file]) \in Text /\ Replaced(call[c].request) \in Text
        BY <1>1, <2>1, CallFacts, ReadType DEF PInv, Data, Trees, Places, Calls
    <2> QED BY <2>1, <2>2, <2>3, DiffType DEF ReplacedDiff
<1>6. Sound(e)'
    BY <1>1, <1>5, CallFacts DEF Sound, SoundReplace, SoundRewrite, FilesOf, Calls, TruncateFile
<1> QED BY <1>1, <1>2, <1>3, <1>4, <1>6, WriteStep DEF TruncateFile, Calls

LEMMA FillStep ==
    ASSUME PInv, NEW c \in Callers, FillFile(c)
    PROVE  PInv'
<1> PICK e : e = [call[c] EXCEPT !.pc = "save", !.wrote = {call[c].at.file}]
    OBVIOUS
<1>1. /\ call[c].pc = "fill" /\ call[c].mode = "write" /\ call[c].at \in Places
      /\ call[c].request.operation = "replace_symbol" /\ Goes(c, e)
    BY CallFacts DEF FillFile, Shape
<1>2. e \in Calls
    <2>1. call[c].at.file \in Files
        BY <1>1 DEF Places
    <2>2. call[c] \in Calls
        BY CallFacts
    <2> QED BY <2>1, <2>2 DEF Calls
<1>3. Shape(e)
    BY <1>1, CallFacts DEF Shape, Calls
<1>4. tree' \in Trees
    <2>1. Written(call[c].text) \in File
        BY CallFacts, WrittenType DEF Calls
    <2> QED BY <1>1, <2>1 DEF FillFile, PInv, Data, Trees
<1>5. Sound(e)'
    BY <1>1, CallFacts DEF Sound, SoundReplace, SoundRewrite, FilesOf, Calls, FillFile
<1> QED BY <1>1, <1>2, <1>3, <1>4, <1>5, WriteStep DEF FillFile, Calls


LEMMA RewriteFileStep ==
    ASSUME PInv, NEW c \in Callers, NEW f \in Files, RewriteFile(c, f)
    PROVE  PInv'
<1> DEFINE r == call[c].request
           wrote == IF Rewritten(tree[f], r) = tree[f] THEN call[c].wrote
                    ELSE call[c].wrote \cup {f}
<1> PICK e : e = [call[c] EXCEPT !.todo = call[c].todo \ {f},
                                 !.pc = IF call[c].todo = {f} THEN "save" ELSE "rewrite",
                                 !.wrote = wrote]
    OBVIOUS
<1>1. /\ call[c].pc = "rewrite" /\ call[c].mode = "write" /\ f \in call[c].todo
      /\ r \in Requests /\ r.operation = "rewrite" /\ Goes(c, e)
      /\ tree' = [tree EXCEPT ![f] = Rewritten(tree[f], r)]
    BY CallFacts DEF RewriteFile, Shape
<1>2. wrote \in SUBSET Files
    BY CallFacts DEF Calls
<1> HIDE DEF wrote
<1>3. e \in Calls
    <2>1. call[c] \in Calls
        BY CallFacts
    <2> QED BY <1>2, <2>1 DEF Calls
<1>4. Shape(e)
    BY <1>1, CallFacts DEF Shape, Calls
<1>5. tree' \in Trees
    <2>1. Rewritten(tree[f], r) \in File
        BY <1>1, RewrittenType DEF PInv, Data, Trees
    <2> QED BY <1>1, <2>1 DEF PInv, Data, Trees
<1>6. /\ e.mode = "write" /\ e.moved = call[c].moved /\ e.diff = call[c].diff /\ e.request = r
      /\ e.slot = call[c].slot /\ e.wrote = wrote /\ e.todo = call[c].todo \ {f}
      /\ e.pc = IF call[c].todo = {f} THEN "save" ELSE "rewrite"
    BY <1>1, CallFacts DEF Calls
<1>7. /\ \A g \in e.todo : tree'[g] = tree[g]
      /\ e.todo \subseteq Files
    BY <1>1, <1>6, CallFacts DEF PInv, Data, Trees, Calls
<1>8. ASSUME e.moved = "no"
      PROVE  /\ \A g \in e.todo : Shows(g, tree[g], r) \subseteq e.diff
             /\ FilesOf(e.diff) = wrote \cup {g \in e.todo : Rewritten(tree[g], r) # tree[g]}
    <2>1. /\ \A g \in call[c].todo : Shows(g, tree[g], r) \subseteq e.diff
          /\ FilesOf(e.diff) =
                 call[c].wrote \cup {g \in call[c].todo : Rewritten(tree[g], r) # tree[g]}
        BY <1>1, <1>6, <1>8, CallFacts DEF Sound, SoundRewrite
    <2> QED BY <1>1, <1>6, <2>1 DEF wrote
<1>9. Sound(e)'
    <2>1. ASSUME e.moved = "no" PROVE SoundRewrite(e)'
        <3>1. \A g \in e.todo :
                  /\ Rewritten(tree'[g], e.request) = Rewritten(tree[g], r)
                  /\ Shows(g, tree'[g], e.request) = Shows(g, tree[g], r)
            BY <1>6, <1>7
        <3>2. \A g \in e.todo :
                  Shows(g, tree'[g], e.request) \subseteq e.diff
            BY <1>8, <2>1, <3>1
        <3>3. FilesOf(e.diff) =
                  e.wrote \cup {g \in e.todo : Rewritten(tree'[g], e.request) # tree'[g]}
            BY <1>6, <1>7, <1>8, <2>1, <3>1
        <3> QED BY <1>6, <3>2, <3>3 DEF SoundRewrite
    <2>2. ASSUME e.moved = "no", e.pc = "save" PROVE e.wrote = FilesOf(e.diff)
        <3>1. e.todo = {}
            BY <1>6, <2>2
        <3> QED BY <1>6, <1>8, <2>2, <3>1
    <2>3. e.diff = patches[e.slot].diff /\ FilesOf(e.diff) \subseteq Scope \cup acked
        BY <1>1, <1>6, CallFacts DEF Sound
    <2> QED BY <1>1, <1>6, <2>1, <2>2, <2>3 DEF Sound, FilesOf, RewriteFile
<1> QED BY <1>1, <1>3, <1>4, <1>5, <1>6, <1>9, WriteStep DEF RewriteFile

-----------------------------------------------------------------------------
(* Steps that change the record. *)

LEMMA StoreStep ==
    ASSUME PInv, NEW c \in Callers, StoreProposal(c)
    PROVE  PInv'
<1> DEFINE p == [id |-> call[c].id, request |-> call[c].request, diff |-> call[c].diff,
                 print |-> call[c].print, status |-> "proposed"]
<1>1. /\ call[c].pc = "store" /\ call[c].id \in Ids /\ call[c].request \in Requests
      /\ call[c].diff # {} /\ lock = None
    BY CallFacts DEF StoreProposal, Shape
<1>2. p \in Patches /\ p.diff # {}
    BY <1>1, CallFacts DEF Patches, Calls
<1>3. patches' = Append(patches, p) /\ call' = [call EXCEPT ![c] = Idle]
    BY DEF StoreProposal, Goes
<1> HIDE DEF p
<1>4. /\ patches' \in Seq(Patches)
      /\ DOMAIN patches \subseteq DOMAIN patches'
      /\ \A i \in DOMAIN patches : patches'[i] = patches[i]
      /\ \A i \in DOMAIN patches' : patches'[i].diff # {}
    BY <1>2, <1>3 DEF PInv, Data
<1>5. Idle \in Calls /\ Idle.mode = "none"
    BY DEF Idle, Calls, Text
<1>6. Shape(Idle)'
    BY DEF Shape, Idle
<1>7. Data'
    BY <1>4 DEF PInv, Data, StoreProposal, Trees, Places
<1>8. ASSUME NEW d \in Callers
      PROVE  /\ call'[d] \in Calls
             /\ lock' = None /\ None # d
             /\ call'[d].mode \notin {"check", "write"}
             /\ Shape(call[d])'
    <2>1. None # d /\ call[d].mode \notin {"check", "write"}
        BY <1>1, NoneAssumption DEF PInv
    <2>2. CASE d = c
        BY <1>1, <1>3, <1>5, <1>6, <2>1, <2>2 DEF StoreProposal, PInv
    <2>3. CASE d # c
        <3>1. call'[d] = call[d]
            BY <1>3, <2>3 DEF PInv
        <3> QED BY <1>1, <2>1, <3>1 DEF StoreProposal, PInv, Shape
    <2> QED BY <2>2, <2>3
<1>9. call' \in [Callers -> Calls]
    BY <1>3, <1>5 DEF PInv
<1> QED BY <1>7, <1>8, <1>9 DEF PInv

LEMMA SaveStep ==
    ASSUME PInv, NEW c \in Callers, SavePatch(c)
    PROVE  PInv'
<1> DEFINE p == [patches[call[c].slot] EXCEPT !.status = "applied"]
           rest == RemoveAt(patches, call[c].slot)
<1>1. call[c].pc = "save" /\ call[c].mode = "write" /\ call[c].slot \in DOMAIN patches
    BY CallFacts DEF SavePatch, Shape
<1>2. lock = c /\ \A d \in Callers \ {c} : call[d].mode \notin {"check", "write"}
    BY <1>1, OneApplies
<1>3. p \in Patches /\ p.diff # {}
    <2>1. patches[call[c].slot] \in Patches /\ patches[call[c].slot].diff # {}
        BY <1>1 DEF PInv, Data
    <2> QED BY <2>1 DEF Patches
<1>4. patches' = Append(rest, p) /\ call' = [call EXCEPT ![c] = Idle] /\ lock' = None
    BY <1>2 DEF SavePatch, Ends, Patch
<1>5. rest \in Seq(Patches) /\ \A i \in DOMAIN rest : rest[i].diff # {}
    <2> DEFINE Telling == {q \in Patches : q.diff # {}}
               one == SubSeq(patches, 1, call[c].slot - 1)
               two == SubSeq(patches, call[c].slot + 1, Len(patches))
    <2>1. patches \in Seq(Telling) /\ call[c].slot \in 1..Len(patches)
        BY <1>1 DEF PInv, Data
    <2>2. one \in Seq(Telling) /\ two \in Seq(Telling)
        <3> HIDE DEF Telling
        <3> QED BY <2>1
    <2>3. rest \in Seq(Telling)
        <3> HIDE DEF Telling, one, two
        <3>1. rest = one \o two
            BY DEF RemoveAt, one, two
        <3> HIDE DEF rest
        <3> QED BY <2>2, <3>1
    <2> HIDE DEF rest
    <2> QED BY <2>3
<1> HIDE DEF p, rest
<1>6. patches' \in Seq(Patches) /\ \A i \in DOMAIN patches' : patches'[i].diff # {}
    BY <1>3, <1>4, <1>5
<1>7. modified' \subseteq Files
    BY CallFacts DEF SavePatch, PInv, Data, FilesOf, Calls, Hunks
<1>8. Data'
    BY <1>4, <1>6, <1>7 DEF PInv, Data, SavePatch, Trees, Places
<1>9. Idle \in Calls /\ Idle.mode = "none"
    BY DEF Idle, Calls, Text
<1>10. Shape(Idle)'
    BY DEF Shape, Idle
<1>11. ASSUME NEW d \in Callers
       PROVE  /\ None # d
              /\ call'[d].mode \notin {"check", "write"}
              /\ Shape(call[d])'
    <2>1. None # d
        BY NoneAssumption
    <2>2. CASE d = c
        BY <1>4, <1>9, <1>10, <2>1, <2>2 DEF PInv
    <2>3. CASE d # c
        <3>1. call'[d] = call[d]
            BY <1>4, <2>3 DEF PInv
        <3> QED BY <1>2, <2>1, <2>3, <3>1 DEF PInv, Shape
    <2> QED BY <2>2, <2>3
<1>12. call' \in [Callers -> Calls]
    BY <1>4, <1>9 DEF PInv
<1> QED BY <1>4, <1>8, <1>11, <1>12 DEF PInv


LEMMA AcknowledgeStep ==
    ASSUME PInv, NEW f \in Files, Acknowledge(f)
    PROVE  PInv'
<1>1. /\ lock = None /\ lock' = None /\ call' = call /\ acked' = acked \cup {f}
      /\ UNCHANGED <<tree, index, patches, modified, changes>>
    BY DEF Acknowledge
<1>2. Data'
    BY <1>1 DEF PInv, Data, Trees, Places
<1>3. ASSUME NEW d \in Callers
      PROVE  None # d /\ call[d].mode \notin {"check", "write"} /\ Shape(call[d])'
    <2>1. None # d
        BY NoneAssumption
    <2> QED BY <1>1, <2>1 DEF PInv, Shape
<1> QED BY <1>1, <1>2, <1>3 DEF PInv

-----------------------------------------------------------------------------
(* Steps of others. *)

\* After anything moved, little is claimed of the call that applies.
LEMMA MovedStep ==
    ASSUME PInv, call' = Moved, tree' \in Trees, index' \in Places \cup {None},
           changes' \in Nat, UNCHANGED <<patches, modified, acked, lock>>
    PROVE  PInv'
<1>1. Data'
    BY DEF PInv, Data
<1>2. ASSUME NEW d \in Callers
      PROVE  /\ call'[d] \in Calls
             /\ call'[d].mode = call[d].mode
             /\ Shape(call'[d])
             /\ lock = d => Sound(call[d])'
    <2>1. CASE lock = d
        <3>1. PICK e : e = [call[d] EXCEPT !.moved = "within"]
            OBVIOUS
        <3>2. call'[d] = e
            BY <2>1, <3>1 DEF Moved
        <3>3. e \in Calls /\ Shape(e) /\ e.mode = call[d].mode
            BY <3>1, CallFacts DEF Calls, Shape
        <3>4. /\ e.moved = "within" /\ e.diff = call[d].diff /\ e.slot = call[d].slot
              /\ call[d].mode = "write" => FilesOf(e.diff) \subseteq Scope \cup acked
              /\ call[d].mode = "write" => e.diff = patches[e.slot].diff
            BY <3>1, CallFacts DEF Calls, Sound
        <3>5. Sound(call[d])'
            BY <3>2, <3>3, <3>4 DEF Sound, FilesOf
        <3> QED BY <3>2, <3>3, <3>5
    <2>2. CASE lock # d
        BY <2>2, CallFacts DEF Moved
    <2> QED BY <2>1, <2>2
<1>3. ASSUME NEW d \in Callers PROVE Shape(call[d])'
    BY <1>2 DEF Shape
<1>4. call' \in [Callers -> Calls]
    BY <1>2 DEF Moved
<1> QED BY <1>1, <1>2, <1>3, <1>4 DEF PInv

LEMMA EditStep ==
    ASSUME PInv, NEW f \in Files, NEW file \in Edits, Edit(f, file)
    PROVE  PInv'
<1>1. tree' \in Trees /\ changes' \in Nat
    BY FilesAssumption DEF Edit, PInv, Data, Trees
<1> QED BY <1>1, MovedStep DEF Edit, PInv, Data

LEMMA ReindexStep ==
    ASSUME PInv, NEW place, Reindex(place)
    PROVE  PInv'
<1>1. \A f \in Files : tree[f] \in File
    BY DEF PInv, Data, Trees
<1>2. Defined \subseteq Places
    <2> SUFFICES ASSUME NEW s \in Defined PROVE s \in Places
        OBVIOUS
    <2>1. PICK f \in Files, i \in UNION {DOMAIN tree[g] : g \in Files} :
              s = [file |-> f, line |-> i]
        BY DEF Defined, Sightings
    <2>2. PICK g \in Files : i \in DOMAIN tree[g]
        OBVIOUS
    <2>3. i \in Nat \ {0}
        BY <1>1, <2>2 DEF File
    <2> QED BY <2>1, <2>3 DEF Places
<1>3. index' \in Places \cup {None}
    BY <1>2 DEF Reindex
<1> QED BY <1>3, MovedStep DEF Reindex, PInv, Data

LEMMA PInvNext == PInv /\ [Next]_vars => PInv'
<1> SUFFICES ASSUME PInv, [Next]_vars PROVE PInv'
    OBVIOUS
<1>1. ASSUME NEW c \in Callers, Step(c) PROVE PInv'
    <2>1. CASE \E request \in Requests : ProposePatch(c, request)
        BY <2>1, ProposeStep
    <2>2. CASE \E i \in DOMAIN patches : ApplyPatch(c, i)
        BY <2>2, ApplyStep
    <2>3. CASE LocateTarget(c) \/ SpliceText(c) \/ DiffText(c) \/ PreviewRewrite(c)
        BY <2>3, LocateStep, SpliceStep, DiffStep, PreviewStep
    <2>4. CASE \E print \in Fingerprints : CaptureFingerprint(c, print)
        BY <2>4, FingerprintStep
    <2>5. CASE DrawId(c) \/ StoreProposal(c) \/ Compare(c)
        BY <2>5, DrawStep, StoreStep, CompareStep
    <2>6. CASE TruncateFile(c) \/ FillFile(c) \/ \E f \in Files : RewriteFile(c, f)
        BY <2>6, TruncateStep, FillStep, RewriteFileStep
    <2>7. CASE SavePatch(c) \/ Stop(c)
        BY <2>7, SaveStep, StopStep
    <2> QED BY <1>1, <2>1, <2>2, <2>3, <2>4, <2>5, <2>6, <2>7 DEF Step
<1>2. CASE \E f \in Files \ Scope : Acknowledge(f)
    BY <1>2, AcknowledgeStep
<1>3. CASE \E f \in Files, file \in Edits : Edit(f, file)
    BY <1>3, EditStep
<1>4. CASE \E place \in Defined \cup {None} : Reindex(place)
    BY <1>4, ReindexStep
<1>5. CASE UNCHANGED vars
    <2>1. Data'
        BY <1>5 DEF vars, PInv, Data, Trees, Places
    <2>2. ASSUME NEW c \in Callers
          PROVE  (Shape(call[c]) => Shape(call[c])') /\ (Sound(call[c]) => Sound(call[c])')
        <3>1. Shape(call[c]) => Shape(call[c])'
            BY <1>5 DEF vars, Shape
        <3>2. Sound(call[c]) => Sound(call[c])'
            BY <1>5
            DEF vars, Sound, SoundReplace, SoundRewrite, ReplacedDiff, Replaced, Preview, FilesOf
        <3> QED BY <3>1, <3>2
    <2> QED BY <1>5, <2>1, <2>2 DEF vars, PInv
<1> QED BY <1>1, <1>2, <1>3, <1>4, <1>5 DEF Next

LEMMA PInvAlways == Spec => []PInv
BY PInvInit, PInvNext, PTL DEF Spec

-----------------------------------------------------------------------------
\* Types, and the lock: a call works from its patch, and writes, only while it
\* holds the lock (the with-block of apply_patch).
THEOREM TypesHold == Spec => []TypeOK
BY PInvAlways, PInvTypes, PTL

\* A call that rewrites and goes on has rewritten one of the files it had to do.
LEMMA RewriteStepOf ==
    ASSUME PInv, [Next]_vars, NEW c \in Callers, call[c].pc = "rewrite",
           call'[c].todo # call[c].todo, call'[c].pc # "idle"
    PROVE  \E f \in call[c].todo :
               tree' = [tree EXCEPT ![f] = Rewritten(tree[f], call[c].request)]
<1>1. call \in [Callers -> Calls]
    BY DEF PInv
<1>2. CASE \E d \in Callers \ {c} : Step(d)
    <2> PICK d \in Callers \ {c} : Step(d)
        BY <1>2
    <2>1. ASSUME NEW next, Goes(d, next) PROVE call'[c] = call[c]
        BY <1>1, <2>1 DEF Goes
    <2>2. Ends(d) => call'[c] = call[c]
        BY <1>1 DEF Ends
    <2>3. ASSUME NEW diff, Derived(d, diff) PROVE call'[c] = call[c]
        BY <2>1, <2>2, <2>3 DEF Derived
    <2>4. \/ \E next : Goes(d, next)
          \/ Ends(d)
          \/ \E diff : Derived(d, diff)
        BY DEF Step, ProposePatch, ApplyPatch, LocateTarget, SpliceText, DiffText, PreviewRewrite,
               CaptureFingerprint, DrawId, StoreProposal, Compare, TruncateFile, FillFile,
               RewriteFile, SavePatch, Stop
    <2> QED BY <2>1, <2>2, <2>3, <2>4
<1>3. CASE Step(c)
    <2>1. Ends(c) => call'[c].pc = "idle"
        BY <1>1 DEF Ends, Idle
    <2>2. \E f \in Files : RewriteFile(c, f)
        BY <1>3, <2>1
        DEF Step, ProposePatch, ApplyPatch, LocateTarget, SpliceText, DiffText, PreviewRewrite,
            CaptureFingerprint, DrawId, StoreProposal, Compare, TruncateFile, FillFile,
            SavePatch, Stop
    <2> QED BY <2>2 DEF RewriteFile
<1>4. CASE \E f \in Files \ Scope : Acknowledge(f)
    BY <1>4 DEF Acknowledge
<1>5. CASE call' = Moved
    <2>1. call'[c].todo = call[c].todo
        BY <1>1, <1>5 DEF Moved, Calls
    <2> QED BY <2>1
<1>6. CASE UNCHANGED vars
    BY <1>6 DEF vars
<1> QED BY <1>2, <1>3, <1>4, <1>5, <1>6 DEF Next, Edit, Reindex

\* The files an apply changes are in scope or acknowledged, and its diff is the
\* proposed one (Compare).
LEMMA WritingFacts ==
    ASSUME PInv, NEW c \in Callers, call[c].mode = "write"
    PROVE  /\ call[c].diff = Patch(c).diff /\ call[c].diff # {}
           /\ FilesOf(call[c].diff) \subseteq Scope \cup acked
<1>1. call[c].slot \in DOMAIN patches
    BY CallFacts DEF Shape
<1>2. patches[call[c].slot].diff # {}
    BY <1>1 DEF PInv, Data
<1> QED BY <1>2, CallFacts DEF Sound, Patch

\* What a splice writes.
LEMMA SplicedExactly ==
    ASSUME PInv, NEW c \in Callers, call[c].moved = "no",
           call[c].pc = "truncate", call'[c].pc = "fill", NEW w \in Writes(c)
    PROVE  /\ Diff(w.file, Read(w.old), Read(w.new)) \subseteq Patch(c).diff
           /\ HasReturns(w.old)
              \/ {Shown(h) : h \in Diff(w.file, w.old, w.new)} \subseteq Patch(c).diff
           /\ w.file \in Scope \cup acked
<1> DEFINE f == index.file
<1>1. /\ call[c].mode = "write" /\ call[c].at = index /\ index \in Places
      /\ call[c].text = Replaced(call[c].request)
      /\ call[c].diff = ReplacedDiff(call[c].request)
    BY CallFacts DEF Shape, Sound, SoundReplace
<1>2. /\ f \in Files /\ tree[f] \in File
      /\ call[c].text \in Text
    BY <1>1, CallFacts DEF PInv, Data, Trees, Places, Calls
<1>3. w = [file |-> f, old |-> tree[f], new |-> Written(call[c].text)]
    BY <1>1 DEF Writes
<1>4. /\ w.new \in File /\ Read(w.new) = call[c].text /\ ~HasReturns(w.new)
      /\ w.file = f /\ w.old = tree[f]
    BY <1>2, <1>3, WrittenType
<1>5. Diff(w.file, Read(w.old), Read(w.new)) = Patch(c).diff
    BY <1>1, <1>4, WritingFacts DEF ReplacedDiff
<1>6. ASSUME ~HasReturns(w.old)
      PROVE  {Shown(h) : h \in Diff(w.file, w.old, w.new)} = Patch(c).diff
    BY <1>2, <1>4, <1>5, <1>6, PlainAgree, ShownDiff
<1>7. w.file \in Scope \cup acked
    <2>1. FilesOf(Patch(c).diff) = {f}
        BY <1>1, <1>2, <1>4, <1>5, ReadType, DiffType, WritingFacts
    <2> QED BY <1>1, <1>4, <2>1, WritingFacts
<1> QED BY <1>5, <1>6, <1>7

\* What a rewrite of a file writes.
LEMMA RewrittenExactly ==
    ASSUME PInv, [Next]_vars, NEW c \in Callers, call[c].moved = "no",
           call[c].pc = "rewrite", call'[c].todo # call[c].todo, call'[c].pc # "idle",
           NEW w \in Writes(c)
    PROVE  /\ {Shown(h) : h \in Diff(w.file, w.old, w.new)} \subseteq Patch(c).diff
           /\ Diff(w.file, Read(w.old), Read(w.new)) \subseteq Patch(c).diff
           /\ w.new # w.old => w.file \in Scope \cup acked
<1> DEFINE r == call[c].request
<1>1. call[c].mode = "write" /\ r.operation = "rewrite" /\ r \in Requests
    BY CallFacts DEF Shape
<1>2. PICK f \in call[c].todo : tree' = [tree EXCEPT ![f] = Rewritten(tree[f], r)]
    BY RewriteStepOf
<1>3. PICK g \in Files : w = [file |-> g, old |-> tree[g], new |-> tree'[g]]
    BY DEF Writes
<1>4. /\ tree \in [Files -> File] /\ f \in Files /\ tree[g] \in File
    BY <1>2, CallFacts DEF PInv, Data, Trees, Calls
<1>5. CASE w.new = w.old
    BY <1>5 DEF Diff
<1>6. CASE w.new # w.old
    <2>1. g = f
        BY <1>2, <1>3, <1>4, <1>6
    <2>2. w.file = g /\ w.old = tree[g] /\ w.new = Rewritten(tree[g], r)
        BY <1>2, <1>3, <1>4, <2>1
    <2>3. /\ w.new \in File /\ Len(w.old) = Len(w.new)
          /\ \A i \in 1..Len(w.old) : w.old[i].cr = w.new[i].cr
        BY <1>1, <1>4, <2>2, RewrittenType
    <2>4. {Shown(h) : h \in Diff(w.file, w.old, w.new)} =
              Diff(w.file, Read(w.old), Read(w.new))
        BY <1>4, <2>2, <2>3, KeptAgree, ShownDiff
    <2>5. Diff(w.file, Read(w.old), Read(w.new)) \subseteq call[c].diff
        BY <1>1, <1>2, <2>1, <2>2, CallFacts DEF Sound, SoundRewrite, Shows
    <2>6. g \in FilesOf(call[c].diff)
        BY <1>1, <1>2, <1>4, <1>6, <2>1, <2>2, CallFacts DEF Sound, SoundRewrite
    <2> QED BY <1>1, <2>2, <2>4, <2>5, <2>6, WritingFacts
<1> QED BY <1>5, <1>6

\* What a step puts into the files is in the diff that was proposed, unless
\* something moved since the apply began (dry_run, Compare and apply of the engines):
\* the texts always, and the bytes too unless a splice takes away carriage returns.
THEOREM AppliesExactly == Spec => ExactUnlessMoved
<1>1. ASSUME PInv, [Next]_vars, NEW c \in Callers, call[c].moved = "no", NEW w \in Writes(c)
      PROVE  /\ Diff(w.file, Read(w.old), Read(w.new)) \subseteq Patch(c).diff
             /\ \/ call[c].pc = "truncate" /\ HasReturns(w.old)
                \/ {Shown(h) : h \in Diff(w.file, w.old, w.new)} \subseteq Patch(c).diff
    <2>1. CASE call[c].pc = "truncate" /\ call'[c].pc = "fill"
        BY <1>1, <2>1, SplicedExactly
    <2>2. CASE call[c].pc = "rewrite" /\ call'[c].todo # call[c].todo /\ call'[c].pc # "idle"
        BY <1>1, <2>2, RewrittenExactly
    <2> QED BY <1>1, <2>1, <2>2 DEF Writes
<1>2. PInv /\ [Next]_vars =>
          [\A c \in Callers : call[c].moved = "no" =>
               \A w \in Writes(c) :
                   /\ Diff(w.file, Read(w.old), Read(w.new)) \subseteq Patch(c).diff
                   /\ \/ call[c].pc = "truncate" /\ HasReturns(w.old)
                      \/ {Shown(h) : h \in Diff(w.file, w.old, w.new)} \subseteq Patch(c).diff]_vars
    BY <1>1
<1> QED BY <1>2, PInvAlways, PTL DEF Spec, ExactUnlessMoved

\* No byte changes of a file that is neither in scope nor acknowledged
\* (_scope_violations).
THEOREM StaysInScope == Spec => ScopeUnlessMoved
<1>1. ASSUME PInv, [Next]_vars, NEW c \in Callers, call[c].moved = "no", NEW w \in Writes(c),
             w.new # w.old
      PROVE  w.file \in Scope \cup acked
    <2>1. CASE call[c].pc = "truncate" /\ call'[c].pc = "fill"
        BY <1>1, <2>1, SplicedExactly
    <2>2. CASE call[c].pc = "rewrite" /\ call'[c].todo # call[c].todo /\ call'[c].pc # "idle"
        BY <1>1, <2>2, RewrittenExactly
    <2> QED BY <1>1, <2>1, <2>2 DEF Writes
<1>2. PInv /\ [Next]_vars =>
          [\A c \in Callers : call[c].moved = "no" =>
               \A w \in Writes(c) : w.new # w.old => w.file \in Scope \cup acked]_vars
    BY <1>1
<1> QED BY <1>2, PInvAlways, PTL DEF Spec, ScopeUnlessMoved

\* Only the end of an apply leaves its last step and changes the patches.
LEMMA SaveStepOf ==
    ASSUME PInv, [Next]_vars, NEW c \in Callers, call[c].pc = "save", patches' # patches
    PROVE  modified' = modified \cup FilesOf(call[c].diff)
<1>1. lock = c
    BY CallFacts DEF Shape, PInv
<1>2. PICK d \in Callers : StoreProposal(d) \/ SavePatch(d)
    <2>1. \E d \in Callers : Step(d)
        BY DEF Next, vars, Acknowledge, Edit, Reindex
    <2>2. PICK d \in Callers : Step(d)
        BY <2>1
    <2> QED BY <2>2
        DEF Step, ProposePatch, ApplyPatch, LocateTarget, SpliceText, DiffText, PreviewRewrite,
            CaptureFingerprint, DrawId, Compare, TruncateFile, FillFile, RewriteFile, Stop
<1>3. SavePatch(d)
    BY <1>1, <1>2, NoneAssumption DEF StoreProposal
<1>4. d = c
    <2>1. call[d].mode = "write"
        BY <1>3, CallFacts DEF SavePatch, Shape
    <2> QED BY <1>1, <2>1 DEF PInv
<1> QED BY <1>3, <1>4 DEF SavePatch

\* The files on record are those the engine changed.
THEOREM RecordsExactly == Spec => RecordedUnlessMoved
<1>1. ASSUME PInv, [Next]_vars, NEW c \in Callers,
             call[c].moved = "no", call[c].pc = "save", patches' # patches
      PROVE  /\ call[c].wrote = {h.file : h \in Patch(c).diff}
             /\ call[c].wrote \subseteq modified'
    <2>1. call[c].mode = "write"
        BY <1>1, CallFacts DEF Shape
    <2>2. call[c].wrote = FilesOf(call[c].diff) /\ call[c].diff = Patch(c).diff
        BY <1>1, <2>1, CallFacts DEF Sound, Patch
    <2> QED BY <1>1, <2>2, SaveStepOf DEF FilesOf
<1>2. PInv /\ [Next]_vars =>
          [\A c \in Callers :
               call[c].moved = "no" /\ call[c].pc = "save" /\ patches' # patches =>
                   /\ call[c].wrote = {h.file : h \in Patch(c).diff}
                   /\ call[c].wrote \subseteq modified']_vars
    BY <1>1
<1> QED BY <1>2, PInvAlways, PTL DEF Spec, RecordedUnlessMoved

\* A line is replaced only if it is the one the agent gave the hash of
\* (_validated_target), if nothing moved since the engine looked for it.
THEOREM HashesGuard == Spec => HashGuards
<1>1. ASSUME PInv, NEW c \in Callers, call[c].pc = "truncate", call[c].moved # "within",
             call[c].request.expected # None
      PROVE  tree[call[c].at.file][call[c].at.line].line = call[c].request.expected
    <2>1. call[c].mode = "write"
        BY <1>1, CallFacts DEF Shape
    <2> QED BY <1>1, <2>1, CallFacts DEF Sound
<1>2. PInv /\ [Next]_vars =>
          [\A c \in Callers :
               /\ call[c].pc = "truncate" /\ call'[c].pc = "fill"
               /\ call[c].moved # "within"
               /\ call[c].request.expected # None
               => LET place == call[c].at
                  IN  tree[place.file][place.line].line = call[c].request.expected]_vars
    BY <1>1
<1> QED BY <1>2, PInvAlways, PTL DEF Spec, HashGuards

=============================================================================
