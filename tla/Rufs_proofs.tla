----------------------------- MODULE Rufs_proofs -----------------------------
(***************************************************************************)
(* Theorems about Rufs, for every size of the disk and of its blocks: the  *)
(* types for any number of threads, the rest for one handler at a time, as *)
(* with -s, killed at any point, and as long as no call works with inode   *)
(* 65535 where that lies in a data block (Sheltered).                      *)
(***************************************************************************)
EXTENDS Rufs, Lemmas

(* The steps of the handlers, and which one may come after which.           *)
Step == {"lookup", "read ibitmap", "take ino", "add", "new file", "new directory",
         "root", "read inodes", "write inodes", "add dot", "add dotdot", "link",
         "format", "clear inodes", "bitmaps", "read dbitmap", "take block",
         "new block", "fill", "write", "read"}

Follows(a, b) ==
    \/ a = "lookup" /\ b \in {"read ibitmap", "read", "write"}
    \/ a = "read ibitmap" /\ b = "take ino"
    \/ a = "take ino" /\ b \in {"add", "root"}
    \/ a = "add" /\ b \in {"new file", "new directory"}
    \/ a \in {"new file", "new directory", "root", "link", "new block"} /\ b = "read inodes"
    \/ a = "read inodes" /\ b = "write inodes"
    \/ /\ a = "write inodes"
       /\ b \in {"clear inodes", "new file", "new directory", "add dot", "add dotdot", "link"}
    \/ a = "add dot" /\ b = "add dotdot"
    \/ a = "add dotdot" /\ b = "link"
    \/ a = "format" /\ b = "clear inodes"
    \/ a = "clear inodes" /\ b = "bitmaps"
    \/ a = "bitmaps" /\ b = "read ibitmap"
    \/ a = "read dbitmap" /\ b = "take block"
    \/ a = "take block" /\ b \in {"new block", "fill"}
    \/ a = "fill" /\ b = "write"

(* Steps that a handler takes once, or once per pass of its loop, in order:  *)
(* Past(a) are those that are over when a is taken.  The others, those of    *)
(* get_avail_blkno and writei among them, are put before what is left.       *)
Past(a) ==
    IF a \in {"lookup", "format"} THEN {"lookup", "format"}
    ELSE IF a \in {"clear inodes", "fill"}
    THEN {"lookup", "format", "clear inodes", "fill"}
    ELSE IF a \in {"bitmaps", "write", "read"}
    THEN {"lookup", "format", "clear inodes", "fill", "bitmaps", "write", "read"}
    ELSE IF a = "read ibitmap"
    THEN {"lookup", "format", "clear inodes", "fill", "bitmaps", "write", "read",
          "read ibitmap"}
    ELSE IF a = "take ino"
    THEN {"lookup", "format", "clear inodes", "fill", "bitmaps", "write", "read",
          "read ibitmap", "take ino"}
    ELSE IF a = "add"
    THEN {"lookup", "format", "clear inodes", "fill", "bitmaps", "write", "read",
          "read ibitmap", "take ino", "add"}
    ELSE IF a \in {"new file", "new directory", "root"}
    THEN {"lookup", "format", "clear inodes", "fill", "bitmaps", "write", "read",
          "read ibitmap", "take ino", "add", "new file", "new directory", "root"}
    ELSE IF a \in {"add dot", "add dotdot", "link"}
    THEN {"lookup", "format", "clear inodes", "fill", "bitmaps", "write", "read",
          "read ibitmap", "take ino", "add", "new file", "new directory", "root", "add dot"}
         \cup (IF a = "add dot" THEN {} ELSE {"add dotdot"})
         \cup (IF a = "link" THEN {"link"} ELSE {})
    ELSE {}

Before(a, b) == b \notin Past(a)

Program(s) ==
    /\ s \in Seq(Step)
    /\ \A i \in 1..(Len(s) - 1) : Follows(s[i], s[i + 1])
    /\ \A i, j \in 1..Len(s) : i < j => Before(s[i], s[j])

-----------------------------------------------------------------------------
(* Programs.                                                               *)

LEMMA RangeOfSequence ==
    ASSUME NEW s \in Seq(Step)
    PROVE  Range(s) = {s[i] : i \in 1..Len(s)} /\ Range(s) \subseteq Step
  BY DEF Range

\* What is left after a step.
LEMMA ProgramTail ==
    ASSUME NEW s, Program(s), s # <<>>
    PROVE  /\ Program(Tail(s)) /\ Head(s) \in Step
           /\ Range(s) = {Head(s)} \cup Range(Tail(s))
           /\ \A b \in Range(Tail(s)) : Before(Head(s), b)
           /\ Tail(s) # <<>> => /\ Follows(Head(s), Head(Tail(s)))
                                /\ Head(Tail(s)) \in Range(Tail(s))
<1> DEFINE r == Tail(s)
           n == Len(s)
<1>1. /\ s \in Seq(Step) /\ n \in Nat /\ n > 0 /\ s[1] \in Step /\ Head(s) = s[1]
      /\ r \in Seq(Step) /\ Len(r) = n - 1
      /\ \A i \in 1..(n - 1) : r[i] = s[i + 1]
  BY DEF Program
<1>2. Program(r)
  <2>1. ASSUME NEW i \in 1..(Len(r) - 1) PROVE Follows(r[i], r[i + 1])
    <3>1. i + 1 \in 1..(n - 1) /\ i \in 1..(n - 1)
      BY <1>1, <2>1
    <3>2. Follows(s[i + 1], s[(i + 1) + 1])
      BY <3>1 DEF Program
    <3> QED
      BY <1>1, <3>1, <3>2
  <2>2. ASSUME NEW i \in 1..Len(r), NEW j \in 1..Len(r), i < j
        PROVE  Before(r[i], r[j])
    <3>1. i \in 1..(n - 1) /\ j \in 1..(n - 1) /\ i + 1 \in 1..n /\ j + 1 \in 1..n
          /\ i + 1 < j + 1
      BY <1>1, <2>2
    <3>2. Before(s[i + 1], s[j + 1])
      BY <3>1 DEF Program
    <3> QED
      BY <1>1, <3>1, <3>2
  <2> QED
    BY <1>1, <2>1, <2>2 DEF Program
<1>3. Range(s) = {s[i] : i \in 1..n} /\ Range(r) = {r[i] : i \in 1..(n - 1)}
  BY <1>1, RangeOfSequence
<1> HIDE DEF r
<1>4. \A i \in 1..n : i = 1 \/ (i - 1 \in 1..(n - 1) /\ s[i] = r[i - 1])
  BY <1>1
<1>5. Range(s) = {Head(s)} \cup Range(r)
  <2>1. ASSUME NEW x \in Range(s) PROVE x \in {Head(s)} \cup Range(r)
    BY <1>1, <1>3, <1>4
  <2>2. ASSUME NEW x \in Range(r) PROVE x \in Range(s)
    <3>1. PICK i \in 1..(n - 1) : x = r[i]
      BY <1>3
    <3>2. i + 1 \in 1..n /\ x = s[i + 1]
      BY <1>1, <3>1
    <3> QED
      BY <1>3, <3>2
  <2>3. Head(s) \in Range(s)
    <3>1. 1 \in 1..n
      BY <1>1
    <3> QED
      BY <1>1, <1>3, <3>1
  <2> QED
    BY <2>1, <2>2, <2>3
<1>6. ASSUME NEW b \in Range(r) PROVE Before(Head(s), b)
  <2>1. PICK i \in 1..(n - 1) : b = r[i]
    BY <1>3
  <2>2. 1 \in 1..n /\ i + 1 \in 1..n /\ 1 < i + 1 /\ b = s[i + 1]
    BY <1>1, <2>1
  <2> QED
    BY <1>1, <2>2 DEF Program
<1>7. ASSUME r # <<>>
      PROVE  Follows(Head(s), Head(r)) /\ Head(r) \in Range(r)
  <2>1. Len(r) > 0 /\ Head(r) = r[1] /\ 1 \in 1..(n - 1) /\ r[1] = s[1 + 1]
    BY <1>1, <1>7
  <2>2. Follows(s[1], s[1 + 1])
    BY <2>1 DEF Program
  <2> QED
    BY <1>1, <1>3, <2>1, <2>2
<1> QED
  BY <1>1, <1>2, <1>5, <1>6, <1>7 DEF r

Final(s) == s[Len(s)]

\* Steps put before others.
LEMMA ProgramJoin ==
    ASSUME NEW a, NEW b, Program(a), Program(b), a # <<>>, b # <<>>,
           Follows(Final(a), Head(b)),
           \A x \in Range(a), y \in Range(b) : Before(x, y)
    PROVE  /\ Program(a \o b) /\ a \o b # <<>>
           /\ Range(a \o b) = Range(a) \cup Range(b)
           /\ Head(a \o b) = Head(a) /\ Final(a \o b) = Final(b)
<1> DEFINE c == a \o b
           m == Len(a)
           n == Len(b)
<1>1. /\ a \in Seq(Step) /\ b \in Seq(Step) /\ m \in Nat /\ n \in Nat /\ m > 0 /\ n > 0
      /\ c \in Seq(Step) /\ Len(c) = m + n
      /\ \A i \in 1..m : c[i] = a[i]
      /\ \A i \in (m + 1)..(m + n) : c[i] = b[i - m]
  BY DEF Program
<1>2. Head(c) = a[1] /\ Head(a) = a[1] /\ Head(b) = b[1] /\ Final(c) = b[n] /\ c # <<>>
  BY <1>1 DEF Final
<1> HIDE DEF c
<1>3. /\ Range(c) = {c[i] : i \in 1..(m + n)} /\ Range(a) = {a[i] : i \in 1..m}
      /\ Range(b) = {b[i] : i \in 1..n}
  BY <1>1, RangeOfSequence
<1>4. ASSUME NEW i \in 1..(m + n)
      PROVE  \/ i \in 1..m /\ c[i] = a[i]
             \/ i > m /\ i - m \in 1..n /\ c[i] = b[i - m]
  BY <1>1
<1>5. \A i \in 1..n : i + m \in 1..(m + n) /\ c[i + m] = b[i]
  BY <1>1
<1>6. 1..m \subseteq 1..(m + n)
  BY <1>1
<1>7. Range(c) = Range(a) \cup Range(b)
  BY <1>1, <1>3, <1>4, <1>5, <1>6
<1>8. ASSUME NEW i \in 1..(Len(c) - 1) PROVE Follows(c[i], c[i + 1])
  <2>1. CASE i < m
    <3>1. i \in 1..(m - 1) /\ i \in 1..m /\ i + 1 \in 1..m
      BY <1>1, <2>1
    <3> QED
      BY <1>1, <3>1 DEF Program
  <2>2. CASE i = m
    <3>1. c[i] = a[m] /\ c[i + 1] = b[1]
      BY <1>1, <2>2
    <3> QED
      BY <1>1, <1>2, <3>1 DEF Final
  <2>3. CASE i > m
    <3>1. i - m \in 1..(n - 1) /\ i \in (m + 1)..(m + n) /\ i + 1 \in (m + 1)..(m + n)
          /\ (i + 1) - m = (i - m) + 1
      BY <1>1, <2>3
    <3>2. Follows(b[i - m], b[(i - m) + 1])
      BY <3>1 DEF Program
    <3> QED
      BY <1>1, <3>1, <3>2
  <2> QED
    BY <1>1, <2>1, <2>2, <2>3
<1>9. ASSUME NEW i \in 1..Len(c), NEW j \in 1..Len(c), i < j
      PROVE  Before(c[i], c[j])
  <2>1. i \in 1..(m + n) /\ j \in 1..(m + n)
    BY <1>1
  <2>2. CASE i \in 1..m /\ j \in 1..m
    BY <1>1, <1>9, <2>2 DEF Program
  <2>3. CASE i \in 1..m /\ j > m
    <3>1. c[i] = a[i] /\ j - m \in 1..n /\ c[j] = b[j - m]
      BY <1>1, <1>4, <2>1, <2>3
    <3>2. c[i] \in Range(a) /\ c[j] \in Range(b)
      BY <1>3, <2>3, <3>1
    <3> QED
      BY <3>2
  <2>4. CASE i > m /\ j > m
    <3>1. i - m \in 1..n /\ j - m \in 1..n /\ i - m < j - m
      BY <1>1, <1>9, <2>1, <2>4
    <3>2. Before(b[i - m], b[j - m])
      BY <3>1 DEF Program
    <3> QED
      BY <1>4, <2>1, <2>4, <3>2, <1>1
  <2> QED
    BY <1>1, <1>9, <2>1, <2>2, <2>3, <2>4
<1>10. Program(c)
  BY <1>1, <1>8, <1>9 DEF Program
<1>11. /\ Program(c) /\ c # <<>> /\ Range(c) = Range(a) \cup Range(b)
       /\ Head(c) = Head(a) /\ Final(c) = Final(b)
  BY <1>2, <1>7, <1>10 DEF Final
<1> QED
  BY ONLY <1>11 DEF c


Fits(a, first, last, steps) ==
    /\ Program(a) /\ a # <<>>
    /\ Head(a) = first /\ Final(a) = last /\ Range(a) = steps

LEMMA FitsJoin ==
    ASSUME NEW a, NEW b, NEW f, NEW g, NEW h, NEW e, NEW S, NEW T,
           Fits(a, f, g, S), Fits(b, h, e, T),
           Follows(g, h), \A x \in S, y \in T : Before(x, y)
    PROVE  Fits(a \o b, f, e, S \cup T)
  BY ProgramJoin DEF Fits

LEMMA FitsOne ==
    ASSUME NEW x \in Step
    PROVE  Fits(<<x>>, x, x, {x})
<1> DEFINE s == <<x>>
<1>1. s \in Seq(Step) /\ Len(s) = 1 /\ s[1] = x /\ Head(s) = x /\ s # <<>>
  OBVIOUS
<1> HIDE DEF s
<1>2. Range(s) = {s[i] : i \in 1..1}
  BY <1>1, RangeOfSequence
<1>3. Range(s) = {x}
  BY <1>1, <1>2
<1> QED
  BY <1>1, <1>3 DEF Fits, Program, Final, s

LEMMA FitsTwo ==
    ASSUME NEW x \in Step, NEW y \in Step, Follows(x, y), Before(x, y)
    PROVE  Fits(<<x, y>>, x, y, {x, y})
<1> DEFINE s == <<x, y>>
<1>1. s \in Seq(Step) /\ Len(s) = 2 /\ s[1] = x /\ s[2] = y /\ Head(s) = x /\ s # <<>>
  OBVIOUS
<1> HIDE DEF s
<1>2. Range(s) = {s[i] : i \in 1..2}
  BY <1>1, RangeOfSequence
<1>3. Range(s) = {x, y}
  BY <1>1, <1>2
<1> QED
  BY <1>1, <1>3 DEF Fits, Program, Final, s

LEMMA FitsThree ==
    ASSUME NEW x \in Step, NEW y \in Step, NEW z \in Step,
           Follows(x, y), Follows(y, z), Before(x, y), Before(y, z), Before(x, z)
    PROVE  Fits(<<x, y, z>>, x, z, {x, y, z})
<1> DEFINE s == <<x, y, z>>
<1>1. /\ s \in Seq(Step) /\ Len(s) = 3 /\ s[1] = x /\ s[2] = y /\ s[3] = z
      /\ Head(s) = x /\ s # <<>>
  OBVIOUS
<1> HIDE DEF s
<1>2. Range(s) = {s[i] : i \in 1..3}
  BY <1>1, RangeOfSequence
<1>3. Range(s) = {x, y, z}
  BY <1>1, <1>2
<1> QED
  BY <1>1, <1>3 DEF Fits, Program, Final, s

GetInoSteps == {"read ibitmap", "take ino"}
GetBlkSteps == {"read dbitmap", "take block"}
WriteiSteps == {"read inodes", "write inodes"}

\* The pieces that handlers are made of.
LEMMA Pieces ==
    /\ Fits(GetAvailIno, "read ibitmap", "take ino", GetInoSteps)
    /\ Fits(GetAvailBlkno, "read dbitmap", "take block", GetBlkSteps)
    /\ Fits(Writei, "read inodes", "write inodes", WriteiSteps)
<1>1. Fits(GetAvailIno, "read ibitmap", "take ino", GetInoSteps)
  BY FitsTwo DEF GetAvailIno, GetInoSteps, Step, Follows, Before, Past
<1>2. Fits(GetAvailBlkno, "read dbitmap", "take block", GetBlkSteps)
  BY FitsTwo DEF GetAvailBlkno, GetBlkSteps, Step, Follows, Before, Past
<1>3. Fits(Writei, "read inodes", "write inodes", WriteiSteps)
  BY FitsTwo DEF Writei, WriteiSteps, Step, Follows, Before, Past
<1> QED
  BY <1>1, <1>2, <1>3

\* Those of writei may be put anywhere.
LEMMA WriteiBefore ==
    \A x \in WriteiSteps : \A y : Before(x, y) /\ Before(y, x)
  BY DEF WriteiSteps, Before, Past

\* The handlers.
CreateSteps == {"lookup", "read ibitmap", "take ino", "add", "new file",
                "read inodes", "write inodes"}
MkdirSteps == {"lookup", "read ibitmap", "take ino", "add", "new directory",
               "read inodes", "write inodes", "add dot", "add dotdot", "link"}
MkfsSteps == {"format", "clear inodes", "bitmaps", "read ibitmap", "take ino", "root",
              "read inodes", "write inodes", "add dot", "add dotdot"}
NewBlockSteps == {"read dbitmap", "take block", "new block", "read inodes", "write inodes"}

LEMMA NewBlockFits == Fits(GetAvailBlkno \o <<"new block">> \o Writei, "read dbitmap", "write inodes", NewBlockSteps)
<1>1. Fits(GetAvailBlkno, "read dbitmap", "take block", GetBlkSteps)
  BY Pieces
<1>2. Fits(<<"new block">>, "new block", "new block", {"new block"})
  BY FitsOne DEF Step
<1>3. Follows("take block", "new block")
  BY DEF Follows
<1>4. \A x \in GetBlkSteps, y \in {"new block"} : Before(x, y)
  BY DEF Before, Past, WriteiSteps, GetInoSteps, GetBlkSteps
<1>5. Fits(GetAvailBlkno \o <<"new block">>, "read dbitmap", "new block",
           GetBlkSteps \cup {"new block"})
  BY <1>1, <1>2, <1>3, <1>4, FitsJoin
<1>6. Fits(Writei, "read inodes", "write inodes", WriteiSteps)
  BY Pieces
<1>7. Follows("new block", "read inodes")
  BY DEF Follows
<1>8. \A x \in GetBlkSteps \cup {"new block"}, y \in WriteiSteps : Before(x, y)
  BY WriteiBefore
<1>9. Fits((GetAvailBlkno \o <<"new block">>) \o Writei, "read dbitmap", "write inodes",
           (GetBlkSteps \cup {"new block"}) \cup WriteiSteps)
  BY <1>5, <1>6, <1>7, <1>8, FitsJoin
<1>10. (GetBlkSteps \cup {"new block"}) \cup WriteiSteps
        = NewBlockSteps
  BY DEF NewBlockSteps, WriteiSteps, GetInoSteps, GetBlkSteps
<1> QED
  BY <1>9, <1>10 DEF NewBlockSteps

LEMMA CreateFits == Fits(Create, "lookup", "write inodes", CreateSteps)
<1>1. Fits(<<"lookup">>, "lookup", "lookup", {"lookup"})
  BY FitsOne DEF Step
<1>2. Fits(GetAvailIno, "read ibitmap", "take ino", GetInoSteps)
  BY Pieces
<1>3. Follows("lookup", "read ibitmap")
  BY DEF Follows
<1>4. \A x \in {"lookup"}, y \in GetInoSteps : Before(x, y)
  BY DEF Before, Past, WriteiSteps, GetInoSteps, GetBlkSteps
<1>5. Fits(<<"lookup">> \o GetAvailIno, "lookup", "take ino",
           {"lookup"} \cup GetInoSteps)
  BY <1>1, <1>2, <1>3, <1>4, FitsJoin
<1>6. Fits(<<"add", "new file">>, "add", "new file", {"add", "new file"})
  BY FitsTwo DEF Step, Follows, Before, Past
<1>7. Follows("take ino", "add")
  BY DEF Follows
<1>8. \A x \in {"lookup"} \cup GetInoSteps, y \in {"add", "new file"} : Before(x, y)
  BY DEF Before, Past, WriteiSteps, GetInoSteps, GetBlkSteps
<1>9. Fits((<<"lookup">> \o GetAvailIno) \o <<"add", "new file">>, "lookup", "new file",
           ({"lookup"} \cup GetInoSteps) \cup {"add", "new file"})
  BY <1>5, <1>6, <1>7, <1>8, FitsJoin
<1>10. Fits(Writei, "read inodes", "write inodes", WriteiSteps)
  BY Pieces
<1>11. Follows("new file", "read inodes")
  BY DEF Follows
<1>12. \A x \in ({"lookup"} \cup GetInoSteps) \cup {"add", "new file"}, y \in WriteiSteps : Before(x, y)
  BY WriteiBefore
<1>13. Fits((<<"lookup">> \o GetAvailIno) \o <<"add", "new file">> \o Writei, "lookup", "write inodes",
           (({"lookup"} \cup GetInoSteps) \cup {"add", "new file"}) \cup WriteiSteps)
  BY <1>9, <1>10, <1>11, <1>12, FitsJoin
<1>14. (({"lookup"} \cup GetInoSteps) \cup {"add", "new file"}) \cup WriteiSteps
        = CreateSteps
  BY DEF CreateSteps, WriteiSteps, GetInoSteps, GetBlkSteps
<1> QED
  BY <1>13, <1>14 DEF Create

LEMMA MkdirFits == Fits(Mkdir, "lookup", "write inodes", MkdirSteps)
<1>1. Fits(<<"lookup">>, "lookup", "lookup", {"lookup"})
  BY FitsOne DEF Step
<1>2. Fits(GetAvailIno, "read ibitmap", "take ino", GetInoSteps)
  BY Pieces
<1>3. Follows("lookup", "read ibitmap")
  BY DEF Follows
<1>4. \A x \in {"lookup"}, y \in GetInoSteps : Before(x, y)
  BY DEF Before, Past, WriteiSteps, GetInoSteps, GetBlkSteps
<1>5. Fits(<<"lookup">> \o GetAvailIno, "lookup", "take ino",
           {"lookup"} \cup GetInoSteps)
  BY <1>1, <1>2, <1>3, <1>4, FitsJoin
<1>6. Fits(<<"add", "new directory">>, "add", "new directory", {"add", "new directory"})
  BY FitsTwo DEF Step, Follows, Before, Past
<1>7. Follows("take ino", "add")
  BY DEF Follows
<1>8. \A x \in {"lookup"} \cup GetInoSteps, y \in {"add", "new directory"} : Before(x, y)
  BY DEF Before, Past, WriteiSteps, GetInoSteps, GetBlkSteps
<1>9. Fits((<<"lookup">> \o GetAvailIno) \o <<"add", "new directory">>, "lookup", "new directory",
           ({"lookup"} \cup GetInoSteps) \cup {"add", "new directory"})
  BY <1>5, <1>6, <1>7, <1>8, FitsJoin
<1>10. Fits(Writei, "read inodes", "write inodes", WriteiSteps)
  BY Pieces
<1>11. Follows("new directory", "read inodes")
  BY DEF Follows
<1>12. \A x \in ({"lookup"} \cup GetInoSteps) \cup {"add", "new directory"}, y \in WriteiSteps : Before(x, y)
  BY WriteiBefore
<1>13. Fits((<<"lookup">> \o GetAvailIno) \o <<"add", "new directory">> \o Writei, "lookup", "write inodes",
           (({"lookup"} \cup GetInoSteps) \cup {"add", "new directory"}) \cup WriteiSteps)
  BY <1>9, <1>10, <1>11, <1>12, FitsJoin
<1>14. Fits(<<"add dot", "add dotdot", "link">>, "add dot", "link", {"add dot", "add dotdot", "link"})
  <2>1. {"add dot", "add dotdot", "link"} \subseteq Step
    BY DEF Step
  <2>2. Follows("add dot", "add dotdot") /\ Follows("add dotdot", "link")
    BY DEF Follows
  <2>3. /\ Before("add dot", "add dotdot") /\ Before("add dotdot", "link")
        /\ Before("add dot", "link")
    BY DEF Before, Past
  <2> QED
    BY <2>1, <2>2, <2>3, FitsThree
<1>15. Follows("write inodes", "add dot")
  BY DEF Follows
<1>16. \A x \in (({"lookup"} \cup GetInoSteps) \cup {"add", "new directory"}) \cup WriteiSteps, y \in {"add dot", "add dotdot", "link"} : Before(x, y)
  BY DEF Before, Past, WriteiSteps, GetInoSteps, GetBlkSteps
<1>17. Fits((<<"lookup">> \o GetAvailIno) \o <<"add", "new directory">> \o Writei \o <<"add dot", "add dotdot", "link">>, "lookup", "link",
           ((({"lookup"} \cup GetInoSteps) \cup {"add", "new directory"}) \cup WriteiSteps) \cup {"add dot", "add dotdot", "link"})
  BY <1>13, <1>14, <1>15, <1>16, FitsJoin
<1>18. Fits(Writei, "read inodes", "write inodes", WriteiSteps)
  BY Pieces
<1>19. Follows("link", "read inodes")
  BY DEF Follows
<1>20. \A x \in ((({"lookup"} \cup GetInoSteps) \cup {"add", "new directory"}) \cup WriteiSteps) \cup {"add dot", "add dotdot", "link"}, y \in WriteiSteps : Before(x, y)
  BY WriteiBefore
<1>21. Fits((<<"lookup">> \o GetAvailIno) \o <<"add", "new directory">> \o Writei \o <<"add dot", "add dotdot", "link">> \o Writei, "lookup", "write inodes",
           (((({"lookup"} \cup GetInoSteps) \cup {"add", "new directory"}) \cup WriteiSteps) \cup {"add dot", "add dotdot", "link"}) \cup WriteiSteps)
  BY <1>17, <1>18, <1>19, <1>20, FitsJoin
<1>22. (((({"lookup"} \cup GetInoSteps) \cup {"add", "new directory"}) \cup WriteiSteps) \cup {"add dot", "add dotdot", "link"}) \cup WriteiSteps
        = MkdirSteps
  BY DEF MkdirSteps, WriteiSteps, GetInoSteps, GetBlkSteps
<1> QED
  BY <1>21, <1>22 DEF Mkdir

LEMMA MkfsFits == Fits(Mkfs, "format", "add dotdot", MkfsSteps)
<1>1. Fits(<<"format", "clear inodes", "bitmaps">>, "format", "bitmaps", {"format", "clear inodes", "bitmaps"})
  <2>1. {"format", "clear inodes", "bitmaps"} \subseteq Step
    BY DEF Step
  <2>2. Follows("format", "clear inodes") /\ Follows("clear inodes", "bitmaps")
    BY DEF Follows
  <2>3. /\ Before("format", "clear inodes") /\ Before("clear inodes", "bitmaps")
        /\ Before("format", "bitmaps")
    BY DEF Before, Past
  <2> QED
    BY <2>1, <2>2, <2>3, FitsThree
<1>2. Fits(GetAvailIno, "read ibitmap", "take ino", GetInoSteps)
  BY Pieces
<1>3. Follows("bitmaps", "read ibitmap")
  BY DEF Follows
<1>4. \A x \in {"format", "clear inodes", "bitmaps"}, y \in GetInoSteps : Before(x, y)
  BY DEF Before, Past, WriteiSteps, GetInoSteps, GetBlkSteps
<1>5. Fits(<<"format", "clear inodes", "bitmaps">> \o GetAvailIno, "format", "take ino",
           {"format", "clear inodes", "bitmaps"} \cup GetInoSteps)
  BY <1>1, <1>2, <1>3, <1>4, FitsJoin
<1>6. Fits(<<"root">>, "root", "root", {"root"})
  BY FitsOne DEF Step
<1>7. Follows("take ino", "root")
  BY DEF Follows
<1>8. \A x \in {"format", "clear inodes", "bitmaps"} \cup GetInoSteps, y \in {"root"} : Before(x, y)
  BY DEF Before, Past, WriteiSteps, GetInoSteps, GetBlkSteps
<1>9. Fits((<<"format", "clear inodes", "bitmaps">> \o GetAvailIno) \o <<"root">>, "format", "root",
           ({"format", "clear inodes", "bitmaps"} \cup GetInoSteps) \cup {"root"})
  BY <1>5, <1>6, <1>7, <1>8, FitsJoin
<1>10. Fits(Writei, "read inodes", "write inodes", WriteiSteps)
  BY Pieces
<1>11. Follows("root", "read inodes")
  BY DEF Follows
<1>12. \A x \in ({"format", "clear inodes", "bitmaps"} \cup GetInoSteps) \cup {"root"}, y \in WriteiSteps : Before(x, y)
  BY WriteiBefore
<1>13. Fits((<<"format", "clear inodes", "bitmaps">> \o GetAvailIno) \o <<"root">> \o Writei, "format", "write inodes",
           (({"format", "clear inodes", "bitmaps"} \cup GetInoSteps) \cup {"root"}) \cup WriteiSteps)
  BY <1>9, <1>10, <1>11, <1>12, FitsJoin
<1>14. Fits(<<"add dot", "add dotdot">>, "add dot", "add dotdot", {"add dot", "add dotdot"})
  BY FitsTwo DEF Step, Follows, Before, Past
<1>15. Follows("write inodes", "add dot")
  BY DEF Follows
<1>16. \A x \in (({"format", "clear inodes", "bitmaps"} \cup GetInoSteps) \cup {"root"}) \cup WriteiSteps, y \in {"add dot", "add dotdot"} : Before(x, y)
  BY DEF Before, Past, WriteiSteps, GetInoSteps, GetBlkSteps
<1>17. Fits((<<"format", "clear inodes", "bitmaps">> \o GetAvailIno) \o <<"root">> \o Writei \o <<"add dot", "add dotdot">>, "format", "add dotdot",
           ((({"format", "clear inodes", "bitmaps"} \cup GetInoSteps) \cup {"root"}) \cup WriteiSteps) \cup {"add dot", "add dotdot"})
  BY <1>13, <1>14, <1>15, <1>16, FitsJoin
<1>18. ((({"format", "clear inodes", "bitmaps"} \cup GetInoSteps) \cup {"root"}) \cup WriteiSteps) \cup {"add dot", "add dotdot"}
        = MkfsSteps
  BY DEF MkfsSteps, WriteiSteps, GetInoSteps, GetBlkSteps
<1> QED
  BY <1>17, <1>18 DEF Mkfs

LEMMA TransferFits ==
    /\ Fits(<<"lookup", "read">>, "lookup", "read", {"lookup", "read"})
    /\ Fits(<<"lookup", "write">>, "lookup", "write", {"lookup", "write"})
<1>1. /\ {"lookup", "read", "write"} \subseteq Step
      /\ Follows("lookup", "read") /\ Follows("lookup", "write")
      /\ Before("lookup", "read") /\ Before("lookup", "write")
  BY DEF Step, Follows, Before, Past
<1> QED
  BY <1>1, FitsTwo

\* A piece before what is left.
LEMMA FitsPut ==
    ASSUME NEW a, NEW s, NEW f, NEW g, NEW S, Fits(a, f, g, S), Program(s),
           s # <<>> => Follows(g, Head(s)),
           \A x \in S, y \in Range(s) : Before(x, y)
    PROVE  /\ Program(a \o s) /\ a \o s # <<>>
           /\ Head(a \o s) = f /\ Range(a \o s) = S \cup Range(s)
<1>1. CASE s = <<>>
  <2>1. a \in Seq(Step)
    BY DEF Fits, Program
  <2>2. a \o s = a
    BY <1>1, <2>1
  <2>3. Range(s) = {}
    <3>1. s \in Seq(Step) /\ Len(s) = 0 /\ 1..0 = {}
      BY <1>1
    <3> QED
      BY <3>1, RangeOfSequence
  <2> QED
    BY <2>2, <2>3 DEF Fits
<1>2. CASE s # <<>>
  BY <1>2, ProgramJoin DEF Fits
<1> QED
  BY <1>1, <1>2

-----------------------------------------------------------------------------
(* The types.                                                              *)

CellValue == Entry \cup Data \cup {Zero}
Bufs == UNION {[S -> Inode] : S \in SUBSET Slot}

Local == [op : {"none", "mkfs", "create", "mkdir", "read", "write"},
          path : Paths \cup {<<>>}, off : Nat, len : Nat, val : Values \cup {Zero},
          done : Nat, node : Inode, ino : Nat, bits : SUBSET (Inum \cup Block),
          blk : Block \cup {NoBlock}, dir : Inode, out : Inode, entry : Entry,
          buf : Bufs]

(* What the local variables hold that a handler with steps s still uses.    *)
LocAt(s, l) ==
    /\ Head(s) = "take ino" => l.bits \subseteq Inum
    /\ Head(s) = "take block" => l.bits \subseteq Block
    /\ "clear inodes" \in Range(s) => "take ino" \in Range(s)
    /\ "take ino" \notin Range(s) => l.ino \in Slot
    /\ {"lookup", "add"} \cap Range(s) # {} => l.path \in Paths
    /\ "write" \in Range(s) => l.done <= l.len
    /\ {"write", "fill"} \cap Range(s) # {} => l.val \in Values
    /\ "fill" \in Range(s) => l.done < l.len /\ Pointer(l) \in Ptr

DiskTypes ==
    /\ found \in BOOLEAN /\ mounted \in BOOLEAN
    /\ ibitmap \subseteq Inum /\ dbitmap \subseteq Block
    /\ inodes \in [Slot -> Inode]
    /\ data \in [DataBlock -> [Cell -> CellValue]]
    /\ crashes \in 0..MaxCrashes

HandlerTypes ==
    /\ todo \in [Thread -> Seq(Step)]
    /\ loc \in [Thread -> Local]
    /\ \A t \in Thread : /\ Program(todo[t])
                         /\ todo[t] # <<>> => LocAt(todo[t], loc[t])

TypeInv == DiskTypes /\ HandlerTypes

\* The constants, one by one.
LEMMA Sizes ==
    /\ MaxInum \in Nat /\ MaxInum > 0 /\ MaxInum < 65535
    /\ InodesPerBlock \in Nat /\ InodesPerBlock > 0
    /\ DataStart \in Nat /\ DataStart > 0 /\ DataStart <= MaxDnum
    /\ MaxDnum \in Nat /\ MaxDnum > 0
    /\ Ptrs \in Nat /\ Ptrs > 0 /\ Cells \in Nat /\ Cells > 0
    /\ MaxCrashes \in Nat
  BY RufsAssumption

LEMMA SizesOfTypes ==
    /\ Inum \subseteq Nat /\ Slot = Inum \cup {65535} /\ Root \in Inum
    /\ NoIno \notin Inum /\ NoIno \in Slot
    /\ Block \subseteq Nat /\ DataBlock \subseteq Block /\ INVALID \in Block
    /\ INVALID \notin DataBlock /\ NoBlock \notin Block
    /\ Ptr \subseteq Nat /\ Cell \subseteq Nat /\ 0 \in Cell /\ 0 \in Ptr
  BY Sizes DEF Inum, Slot, Root, NoIno, Block, DataBlock, INVALID, NoBlock, Ptr, Cell

LEMMA BlankTyped ==
    \A i \in Slot : Blank(i) \in Inode /\ ~Blank(i).valid
  BY SizesOfTypes DEF Blank, Inode, NoPtrs

LEMMA RestTyped ==
    Rest \in Local
<1>1. Blank(0) \in Inode /\ 0 \in Slot
  BY BlankTyped, SizesOfTypes DEF Root
<1>2. <<>> \in Bufs
  <2>1. <<>> \in Seq(Inode) /\ Len(<<>>) = 0
    OBVIOUS
  <2>2. <<>> \in [1..Len(<<>>) -> Inode]
    BY <2>1, LenProperties
  <2>3. 1..Len(<<>>) = {}
    BY <2>1
  <2>4. <<>> \in [{} -> Inode]
    BY <2>2, <2>3
  <2> QED
    BY <2>4 DEF Bufs
<1>3. [name |-> ".", ino |-> 0] \in Entry
  BY <1>1 DEF Entry
<1> QED
  BY <1>1, <1>2, <1>3, SizesOfTypes DEF Rest, Local, INVALID

LEMMA EmptyProgram == Program(<<>>)
  BY DEF Program

LEMMA ZeroedTyped == Zeroed \in [Cell -> CellValue]
  BY DEF Zeroed, CellValue

LEMMA TypeInit == Init => TypeInv
<1> SUFFICES ASSUME Init PROVE TypeInv
  OBVIOUS
<1>1. DiskTypes
  <2>1. inodes \in [Slot -> Inode]
    <3>1. Blank(0) \in Inode
      BY SizesOfTypes, BlankTyped DEF Root
    <3> QED
      BY <3>1 DEF Init
  <2>2. data \in [DataBlock -> [Cell -> CellValue]]
    BY ZeroedTyped DEF Init
  <2>3. crashes \in 0..MaxCrashes
    BY Sizes DEF Init
  <2>4. found \in BOOLEAN /\ mounted \in BOOLEAN /\ ibitmap = {} /\ dbitmap = {}
    BY DEF Init
  <2> QED
    BY <2>1, <2>2, <2>3, <2>4 DEF DiskTypes
<1>2. HandlerTypes
  BY RestTyped, EmptyProgram DEF Init, HandlerTypes
<1> QED
  BY <1>1, <1>2 DEF TypeInv

-----------------------------------------------------------------------------
(* Operators.                                                              *)

LEMMA BioReadTyped ==
    ASSUME DiskTypes, NEW b
    PROVE  BioRead(b) \in [Cell -> CellValue]
  BY ZeroedTyped DEF BioRead, DiskTypes

LEMMA BioWriteTyped ==
    ASSUME DiskTypes, NEW b, NEW cells \in [Cell -> CellValue], BioWrite(b, cells)
    PROVE  data' \in [DataBlock -> [Cell -> CellValue]]
  BY DEF BioWrite, DiskTypes

\* The first of some places in a directory.
LEMMA FirstPlace ==
    ASSUME NEW S \in SUBSET (Ptr \X Cell), S # {}
    PROVE  \E at \in S : \A b \in S : at[1] < b[1] \/ (at[1] = b[1] /\ at[2] <= b[2])
<1> DEFINE K == {b[1] : b \in S}
<1>0. \A b \in S : b[1] \in Nat /\ b[2] \in Nat
  <2>1. ASSUME NEW b \in S PROVE b[1] \in Ptr /\ b[2] \in Cell
    OBVIOUS
  <2>2. Ptr \subseteq Nat /\ Cell \subseteq Nat
    BY SizesOfTypes
  <2> QED
    BY <2>1, <2>2
<1>1. K \in SUBSET Nat /\ K # {}
  BY <1>0
<1>2. PICK k \in K : \A y \in K : k <= y
  BY <1>1, LeastElement
<1> DEFINE C == {b[2] : b \in {x \in S : x[1] = k}}
<1>3. C \in SUBSET Nat /\ C # {}
  BY <1>0, <1>2
<1>4. PICK c \in C : \A y \in C : c <= y
  BY <1>3, LeastElement
<1>5. PICK at \in S : at[1] = k /\ at[2] = c
  BY <1>4
<1>6. ASSUME NEW b \in S PROVE at[1] < b[1] \/ (at[1] = b[1] /\ at[2] <= b[2])
  <2>1. b[1] \in K /\ b[1] \in Nat /\ k \in Nat /\ k <= b[1]
    BY <1>1, <1>2
  <2>2. CASE b[1] = k
    <3>1. b[2] \in C
      BY <2>2
    <3> QED
      BY <1>4, <1>5, <2>2, <3>1
  <2>3. CASE b[1] # k
    BY <1>5, <2>1, <2>3
  <2> QED
    BY <2>2, <2>3
<1> QED
  BY <1>5, <1>6

\* Places where dir_find finds a name.
Matches(i, name) ==
    {at \in Ptr \X Cell : LET cell == EntryAt(inodes[i], at)
                          IN  IsEntry(cell) /\ cell.name = name}

LEMMA DirFindMatches ==
    ASSUME NEW i, NEW name
    PROVE  \/ /\ DirFind(i, name) = Missing
              /\ ~inodes[i].valid \/ Matches(i, name) = {}
           \/ /\ inodes[i].valid
              /\ \E at \in Matches(i, name) : DirFind(i, name) = EntryAt(inodes[i], at).ino
<1> DEFINE S == Matches(i, name)
           First(at) == \A b \in S : at[1] < b[1] \/ (at[1] = b[1] /\ at[2] <= b[2])
<1>1. S \in SUBSET (Ptr \X Cell)
  BY DEF Matches
<1>2. DirFind(i, name) = IF ~inodes[i].valid \/ S = {} THEN Missing
                         ELSE EntryAt(inodes[i], CHOOSE at \in S : First(at)).ino
  BY DEF DirFind, Matches
<1> HIDE DEF S
<1>3. CASE inodes[i].valid /\ S # {}
  <2>1. \E at \in S : First(at)
    BY <1>1, <1>3, FirstPlace
  <2>2. (CHOOSE at \in S : First(at)) \in S
    BY <2>1
  <2> QED
    BY <1>2, <1>3, <2>2 DEF S
<1> QED
  BY <1>2, <1>3 DEF S

LEMMA DirFindTyped ==
    ASSUME DiskTypes, NEW i, NEW name
    PROVE  DirFind(i, name) \in Slot \cup {Missing}
<1>1. ASSUME NEW at \in Matches(i, name)
      PROVE  EntryAt(inodes[i], at).ino \in Slot
  <2>1. at \in Ptr \X Cell /\ IsEntry(EntryAt(inodes[i], at))
    BY DEF Matches
  <2>2. EntryAt(inodes[i], at) \in CellValue
    BY <2>1, BioReadTyped DEF EntryAt
  <2>3. EntryAt(inodes[i], at) \in Entry
    BY <2>1, <2>2 DEF IsEntry, CellValue
  <2> QED
    BY <2>3 DEF Entry
<1> QED
  BY <1>1, DirFindMatches

\* get_node_by_path goes down name by name.
IsWalk(f, path, n) ==
    f = [k \in 0..n |-> IF k = 0 THEN Root
                        ELSE IF f[k - 1] = Missing THEN Missing
                        ELSE DirFind(f[k - 1], path[k])]

LEMMA WalkIterates ==
    ASSUME NEW path, NEW n \in Nat
    PROVE  \E f : IsWalk(f, path, n)
<1> DEFINE S == {k \in Nat : \E f : IsWalk(f, path, k)}
<1>1. 0 \in S
  <2> DEFINE f == [k \in 0..0 |-> Root]
  <2>1. IsWalk(f, path, 0)
    BY DEF IsWalk
  <2> QED
    BY <2>1
<1>2. ASSUME NEW k \in Nat, k \in S PROVE k + 1 \in S
  <2>1. PICK f : IsWalk(f, path, k)
    BY <1>2
  <2> DEFINE e == IF f[k] = Missing THEN Missing ELSE DirFind(f[k], path[k + 1])
             g == [j \in 0..(k + 1) |-> IF j = k + 1 THEN e ELSE f[j]]
  <2>2. \A j \in 0..k : g[j] = f[j]
    OBVIOUS
  <2>3. ASSUME NEW j \in 0..(k + 1)
        PROVE  g[j] = IF j = 0 THEN Root
                      ELSE IF g[j - 1] = Missing THEN Missing
                      ELSE DirFind(g[j - 1], path[j])
    <3>1. CASE j = k + 1
      <4>1. j - 1 = k /\ j # 0 /\ k \in 0..k
        BY <3>1
      <4>2. g[j - 1] = f[k] /\ g[j] = e
        BY <2>2, <3>1, <4>1
      <4> QED
        BY <3>1, <4>1, <4>2
    <3>2. CASE j # k + 1
      <4>1. j \in 0..k /\ (j # 0 => j - 1 \in 0..k)
        BY <3>2
      <4>2. f[j] = IF j = 0 THEN Root
                   ELSE IF f[j - 1] = Missing THEN Missing
                   ELSE DirFind(f[j - 1], path[j])
        BY <2>1, <4>1 DEF IsWalk
      <4> QED
        BY <2>2, <4>1, <4>2
    <3> QED
      BY <3>1, <3>2
  <2>4. IsWalk(g, path, k + 1)
    BY <2>3 DEF IsWalk
  <2> QED
    BY <2>4
<1> QED
  BY <1>1, <1>2, InductionOverNat

LEMMA WalkSteps ==
    ASSUME NEW path, Len(path) \in Nat
    PROVE  \E f : IsWalk(f, path, Len(path)) /\ Walk(path) = f[Len(path)]
<1> DEFINE reach == CHOOSE f : IsWalk(f, path, Len(path))
<1>1. IsWalk(reach, path, Len(path))
  BY WalkIterates
<1>2. Walk(path) = reach[Len(path)]
  BY DEF Walk, IsWalk
<1> QED
  BY <1>1, <1>2

LEMMA WalkTyped ==
    ASSUME DiskTypes, NEW path, Len(path) \in Nat
    PROVE  Walk(path) \in Slot \cup {Missing}
<1>1. PICK f : IsWalk(f, path, Len(path)) /\ Walk(path) = f[Len(path)]
  BY WalkSteps
<1> DEFINE n == Len(path)
           S == {k \in Nat : k \in 0..n => f[k] \in Slot \cup {Missing}}
<1>2. 0 \in S
  BY <1>1, SizesOfTypes DEF IsWalk
<1>3. ASSUME NEW k \in Nat, k \in S PROVE k + 1 \in S
  <2> SUFFICES ASSUME k + 1 \in 0..n PROVE f[k + 1] \in Slot \cup {Missing}
    OBVIOUS
  <2>1. k + 1 # 0 /\ (k + 1) - 1 = k
    OBVIOUS
  <2>2. f[k + 1] = IF f[k] = Missing THEN Missing ELSE DirFind(f[k], path[k + 1])
    BY <1>1, <2>1 DEF IsWalk
  <2> QED
    BY <2>2, DirFindTyped
<1>4. n \in S
  BY <1>2, <1>3, InductionOverNat
<1> QED
  BY <1>1, <1>4

\* Room for an entry: a pointer, and if it names a block, a cell of that.
LEMMA RoomPlace ==
    ASSUME NEW dir, Room(dir) # {}
    PROVE  /\ Min(Room(dir)) \in Ptr
           /\ dir.ptr[Min(Room(dir))] # INVALID =>
                 \E c \in Cell : /\ c = Min({d \in Cell : ~IsEntry(BioRead(dir.ptr[Min(Room(dir))])[d])})
                                 /\ ~IsEntry(BioRead(dir.ptr[Min(Room(dir))])[c])
<1> DEFINE k == Min(Room(dir))
           C == {d \in Cell : ~IsEntry(BioRead(dir.ptr[k])[d])}
<1>1. Room(dir) \in SUBSET Nat
  <2>1. Ptr \subseteq Nat
    BY SizesOfTypes
  <2>2. Room(dir) \subseteq Ptr
    BY DEF Room
  <2> QED
    BY <2>1, <2>2
<1>2. k \in Room(dir)
  BY <1>1, MinProperties
<1> HIDE DEF k
<1>3. k \in Ptr /\ (dir.ptr[k] # INVALID => C # {})
  BY <1>2 DEF Room
<1>4. C \in SUBSET Nat
  <2>1. Cell \subseteq Nat
    BY SizesOfTypes
  <2> QED
    BY <2>1
<1>5. C # {} => Min(C) \in C
  BY <1>4, MinProperties
<1> HIDE DEF C
<1>6. ASSUME dir.ptr[k] # INVALID
      PROVE  \E c \in Cell : c = Min(C) /\ ~IsEntry(BioRead(dir.ptr[k])[c])
  <2>1. Min(C) \in C
    BY <1>3, <1>5, <1>6
  <2> QED
    BY <2>1 DEF C
<1> QED
  BY <1>3, <1>6 DEF k, C

LEMMA LowestClearProperties ==
    ASSUME NEW bits, NEW n \in Nat, NEW none, NEW b, b = LowestClear(bits, n, none)
    PROVE  \/ b = none /\ 0..(n - 1) \subseteq bits
           \/ b \in (0..(n - 1)) \ bits
<1> DEFINE S == (0..(n - 1)) \ bits
<1>1. S \in SUBSET Nat
  OBVIOUS
<1>2. S # {} => Min(S) \in S
  BY <1>1, MinProperties
<1>3. b = IF 0..(n - 1) \subseteq bits THEN none ELSE Min(S)
  BY DEF LowestClear
<1> HIDE DEF S
<1>4. 0..(n - 1) \subseteq bits \/ S # {}
  BY DEF S
<1> QED
  BY <1>2, <1>3, <1>4 DEF S

LEMMA MinOfTwo ==
    ASSUME NEW x \in Nat, NEW y \in Nat
    PROVE  /\ Min({x, y}) \in {x, y}
           /\ Min({x, y}) <= x /\ Min({x, y}) <= y
  BY MinProperties

-----------------------------------------------------------------------------
(* Steps keep the types.                                                   *)

LEMMA GoTypes ==
    ASSUME HandlerTypes, NEW t \in Thread, NEW s, NEW l, Go(t, s, l),
           Program(s), s # <<>> => l \in Local /\ LocAt(s, l)
    PROVE  HandlerTypes'
<1>1. s \in Seq(Step) /\ (s = <<>> => Rest \in Local)
  BY RestTyped DEF Program
<1>2. /\ todo' = [todo EXCEPT ![t] = s]
      /\ loc' = [loc EXCEPT ![t] = IF s = <<>> THEN Rest ELSE l]
  BY DEF Go
<1>3. (IF s = <<>> THEN Rest ELSE l) \in Local
  BY <1>1
<1>4. todo' \in [Thread -> Seq(Step)] /\ loc' \in [Thread -> Local]
  BY <1>1, <1>2, <1>3 DEF HandlerTypes
<1>5. ASSUME NEW u \in Thread
      PROVE  Program(todo'[u]) /\ (todo'[u] # <<>> => LocAt(todo'[u], loc'[u]))
  <2>1. CASE u = t
    <3>1. todo'[u] = s /\ (s # <<>> => loc'[u] = l)
      BY <1>2, <2>1 DEF HandlerTypes
    <3> QED
      BY <3>1
  <2>2. CASE u # t
    <3>1. todo'[u] = todo[u] /\ loc'[u] = loc[u]
      BY <1>2, <2>2 DEF HandlerTypes
    <3> QED
      BY <3>1 DEF HandlerTypes
  <2> QED
    BY <2>1, <2>2
<1> QED
  BY <1>4, <1>5 DEF HandlerTypes

\* Where a thread is and what it has.
LEMMA HandlerAt ==
    ASSUME HandlerTypes, NEW t \in Thread, Busy(t)
    PROVE  /\ loc[t] \in Local /\ LocAt(todo[t], loc[t])
           /\ Program(todo[t]) /\ todo[t] # <<>> /\ Program(Tail(todo[t]))
           /\ Head(todo[t]) \in Step
           /\ Range(todo[t]) = {Head(todo[t])} \cup Range(Tail(todo[t]))
           /\ \A b \in Range(Tail(todo[t])) : Before(Head(todo[t]), b)
           /\ Tail(todo[t]) # <<>> => /\ Follows(Head(todo[t]), Head(Tail(todo[t])))
                                      /\ Head(Tail(todo[t])) \in Range(Tail(todo[t]))
  BY ProgramTail DEF HandlerTypes, Busy

\* Most steps touch nothing that later ones rely on.
Same(l, m) ==
    /\ l.ino = m.ino /\ l.path = m.path /\ l.val = m.val
    /\ l.done = m.done /\ l.len = m.len /\ l.off = m.off

LEMMA ContinueTypes ==
    ASSUME HandlerTypes, NEW t \in Thread, Busy(t), NEW l \in Local,
           Continue(t, l), Same(l, loc[t]),
           Head(todo[t]) \notin {"read ibitmap", "take ino", "read dbitmap"}
    PROVE  HandlerTypes'
<1> DEFINE s == todo[t]
           r == Tail(s)
<1>1. ASSUME r # <<>> PROVE LocAt(r, l)
  <2>1. Head(r) # "take ino" /\ Head(r) # "take block"
    BY <1>1, HandlerAt DEF Follows
  <2>2. Range(r) \subseteq Range(s)
    BY HandlerAt
  <2>3. "take ino" \in Range(s) => "take ino" \in Range(r)
    BY HandlerAt
  <2>4. LocAt(s, loc[t])
    BY HandlerAt
  <2>5. Pointer(l) = Pointer(loc[t])
    BY DEF Same, Pointer
  <2> HIDE DEF s, r
  <2> QED
    BY <2>1, <2>2, <2>3, <2>4, <2>5 DEF LocAt, Same
<1> QED
  BY <1>1, HandlerAt, GoTypes DEF Continue

LEMMA CallTypes ==
    ASSUME TypeInv, NEW t \in Thread, CallStep(t)
    PROVE  TypeInv'
<1>1. CASE Mount(t)
  <2>1. HandlerTypes'
    <3>1. CASE found
      BY <1>1, <3>1 DEF Mount, TypeInv, HandlerTypes
    <3>2. CASE ~found
      <4> DEFINE l == [Rest EXCEPT !.op = "mkfs", !.ino = 1]
      <4>1. l \in Local
        BY RestTyped DEF Local
      <4>2. /\ Program(Mkfs) /\ Head(Mkfs) = "format" /\ Range(Mkfs) = MkfsSteps
        BY MkfsFits DEF Fits
      <4>3. LocAt(Mkfs, l)
        BY <4>2 DEF LocAt, MkfsSteps
      <4> QED
        BY <1>1, <3>2, <4>1, <4>2, <4>3, GoTypes DEF Mount, TypeInv
    <3> QED
      BY <3>1, <3>2
  <2> QED
    BY <1>1, <2>1 DEF Mount, TypeInv, DiskTypes, disk
<1>2. ASSUME NEW op \in {"create", "mkdir"}, NEW path \in Paths, CallNew(t, op, path)
      PROVE  TypeInv'
  <2> DEFINE s == IF op = "create" THEN Create ELSE Mkdir
             l == [Rest EXCEPT !.op = op, !.path = path]
  <2>1. l \in Local /\ l.ino = 0 /\ l.path = path
    BY RestTyped DEF Local, Rest
  <2>2. /\ Program(s) /\ Head(s) = "lookup"
        /\ "take ino" \in Range(s) /\ "write" \notin Range(s) /\ "fill" \notin Range(s)
        /\ "clear inodes" \notin Range(s)
    BY CreateFits, MkdirFits DEF Fits, CreateSteps, MkdirSteps
  <2>3. LocAt(s, l)
    <3> HIDE DEF s, l
    <3> QED
      BY <2>1, <2>2 DEF LocAt
  <2>4. HandlerTypes'
    BY <1>2, <2>1, <2>2, <2>3, GoTypes DEF CallNew, TypeInv
  <2> QED
    BY <1>2, <2>4 DEF CallNew, TypeInv, DiskTypes, disk
<1>3. ASSUME NEW op \in {"read", "write"}, NEW path \in Paths,
             NEW at \in Nat \X Nat, NEW v \in Values \cup {Zero},
             op = "write" => v \in Values, CallTransfer(t, op, path, at, v)
      PROVE  TypeInv'
  <2> DEFINE s == <<"lookup", op>>
             l == [Rest EXCEPT !.op = op, !.path = path, !.off = at[1], !.len = at[2],
                               !.val = v]
  <2>1. /\ l \in Local /\ l.ino = 0 /\ l.path = path /\ l.done = 0 /\ l.len \in Nat
        /\ l.val = v
    BY RestTyped DEF Local, Rest
  <2>2. Program(s) /\ Head(s) = "lookup" /\ Range(s) = {"lookup", op}
    BY TransferFits DEF Fits
  <2>3. LocAt(s, l)
    <3>1. 0 \in Slot
      BY SizesOfTypes DEF Root
    <3>2. "take ino" \notin {"lookup", op} /\ "fill" \notin {"lookup", op}
          /\ "clear inodes" \notin {"lookup", op}
      OBVIOUS
    <3> HIDE DEF s, l
    <3>3. l.done <= l.len
      BY <2>1
    <3> QED
      BY <1>3, <2>1, <2>2, <3>1, <3>2, <3>3 DEF LocAt
  <2>4. HandlerTypes'
    BY <1>3, <2>1, <2>2, <2>3, GoTypes DEF CallTransfer, TypeInv
  <2> QED
    BY <1>3, <2>4 DEF CallTransfer, TypeInv, DiskTypes, disk
<1>4. Reads \cup Writes \subseteq Nat \X Nat /\ Zero \in Values \cup {Zero}
  BY RufsAssumption
<1> QED
  BY <1>1, <1>2, <1>3, <1>4 DEF CallStep, Paths

\* The path or dirname that a call looks up.
LEMMA LookUpPath ==
    ASSUME HandlerTypes, NEW t \in Thread, Busy(t), Head(todo[t]) = "lookup"
    PROVE  /\ loc[t].path \in Paths /\ Len(Dirname(loc[t].path)) \in Nat
           /\ Len(loc[t].path) \in Nat
           /\ Len(IF loc[t].op \in {"create", "mkdir"} THEN Dirname(loc[t].path)
                  ELSE loc[t].path) \in Nat
<1> DEFINE path == loc[t].path
<1>1. path \in Paths
  BY HandlerAt DEF LocAt
<1>2. PICK S : path \in Seq(S) /\ path # <<>>
  BY <1>1, RufsAssumption DEF Paths
<1>3. Dirname(path) \in Seq(S)
  BY <1>2 DEF Dirname
<1>4. Len(path) \in Nat /\ Len(Dirname(path)) \in Nat
  BY <1>2, <1>3
<1> QED
  BY <1>1, <1>4

LEMMA LookUpTypes ==
    ASSUME TypeInv, NEW t \in Thread, LookUp(t)
    PROVE  TypeInv'
<1> DEFINE l == loc[t]
           p == IF l.op \in {"create", "mkdir"} THEN Dirname(l.path) ELSE l.path
           i == Walk(p)
<1>1. Busy(t) /\ Head(todo[t]) = "lookup" /\ HandlerTypes /\ DiskTypes
  BY DEF LookUp, At, TypeInv
<1>2. l \in Local /\ l.path \in Paths
  BY <1>1, HandlerAt DEF LocAt
<1>3. Len(p) \in Nat
  BY <1>1, LookUpPath
<1>4. i \in Slot \cup {Missing}
  BY <1>1, <1>3, WalkTyped
<1>5. CASE i = Missing
  <2>1. Return(t)
    BY <1>5 DEF LookUp
  <2>2. HandlerTypes'
    BY <1>1, <2>1, EmptyProgram, GoTypes DEF Return
  <2> QED
    BY <1>1, <2>2 DEF LookUp, TypeInv, DiskTypes, disk
<1>6. CASE i # Missing
  <2> DEFINE m == [l EXCEPT !.node = inodes[i]]
  <2>1. Continue(t, m)
    BY <1>6 DEF LookUp
  <2>2. inodes[i] \in Inode
    BY <1>1, <1>4, <1>6 DEF DiskTypes
  <2>3. m \in Local /\ Same(m, l)
    BY <1>2, <2>2 DEF Local, Same
  <2>4. HandlerTypes'
    BY <1>1, <2>1, <2>3, ContinueTypes
  <2> QED
    BY <1>1, <2>4 DEF LookUp, TypeInv, DiskTypes, disk
<1> QED
  BY <1>5, <1>6

LEMMA BitmapTypes ==
    ASSUME TypeInv, NEW t \in Thread, ReadBitmap(t) \/ TakeIno(t) \/ TakeBlock(t)
    PROVE  TypeInv'
<1> DEFINE l == loc[t]
           s == todo[t]
           r == Tail(s)
<1>1. HandlerTypes /\ DiskTypes /\ Busy(t) /\ l \in Local /\ Program(r)
  BY HandlerAt DEF TypeInv, ReadBitmap, TakeIno, TakeBlock, At
<1>2. Range(s) = {Head(s)} \cup Range(r) /\ LocAt(s, l)
  BY <1>1, HandlerAt
<1>3. CASE At(t, "read ibitmap") /\ Continue(t, [l EXCEPT !.bits = ibitmap])
           /\ UNCHANGED <<disk, mounted, crashes>>
  <2> DEFINE m == [l EXCEPT !.bits = ibitmap]
  <2>1. m \in Local /\ m.bits = ibitmap /\ Same(m, l)
    BY <1>1 DEF Local, DiskTypes, Same
  <2>2. ASSUME r # <<>> PROVE LocAt(r, m)
    <3>1. Head(s) = "read ibitmap" /\ Head(r) = "take ino" /\ Head(r) \in Range(r)
      BY <1>1, <1>3, <2>2, HandlerAt DEF Follows, At
    <3>2. Pointer(m) = Pointer(l)
      BY <2>1 DEF Same, Pointer
    <3>3. ibitmap \subseteq Inum
      BY <1>1 DEF DiskTypes
    <3> HIDE DEF m, r, s, l
    <3> QED
      BY <1>2, <2>1, <3>1, <3>2, <3>3 DEF LocAt, Same
  <2>3. HandlerTypes'
    BY <1>1, <1>3, <2>1, <2>2, GoTypes DEF Continue
  <2> QED
    BY <1>1, <1>3, <2>3 DEF TypeInv, DiskTypes, disk
<1>4. CASE At(t, "read dbitmap") /\ Continue(t, [l EXCEPT !.bits = dbitmap])
           /\ UNCHANGED <<disk, mounted, crashes>>
  <2> DEFINE m == [l EXCEPT !.bits = dbitmap]
  <2>1. m \in Local /\ m.bits = dbitmap /\ Same(m, l)
    BY <1>1 DEF Local, DiskTypes, Same
  <2>2. ASSUME r # <<>> PROVE LocAt(r, m)
    <3>1. Head(s) = "read dbitmap" /\ Head(r) = "take block" /\ Head(r) \in Range(r)
      BY <1>1, <1>4, <2>2, HandlerAt DEF Follows, At
    <3>2. Pointer(m) = Pointer(l)
      BY <2>1 DEF Same, Pointer
    <3>3. dbitmap \subseteq Block
      BY <1>1 DEF DiskTypes
    <3> HIDE DEF m, r, s, l
    <3> QED
      BY <1>2, <2>1, <3>1, <3>2, <3>3 DEF LocAt, Same
  <2>3. HandlerTypes'
    BY <1>1, <1>4, <2>1, <2>2, GoTypes DEF Continue
  <2> QED
    BY <1>1, <1>4, <2>3 DEF TypeInv, DiskTypes, disk
<1>5. CASE TakeIno(t)
  <2> DEFINE i == LowestClear(l.bits, MaxInum, NoIno)
             m == [l EXCEPT !.ino = i]
  <2>1. i = NoIno \/ i \in Inum
    <3>1. \A n \in Nat : LowestClear(l.bits, n, NoIno) = NoIno
                         \/ LowestClear(l.bits, n, NoIno) \in 0..(n - 1)
      BY LowestClearProperties
    <3> QED
      BY <3>1, Sizes DEF Inum
  <2>2. i \in Slot /\ i \in Nat
    <3>1. NoIno \in Slot /\ NoIno \in Nat /\ Inum \subseteq Slot /\ Inum \subseteq Nat
      BY SizesOfTypes DEF NoIno
    <3> HIDE DEF i
    <3> QED
      BY <2>1, <3>1
  <2>3. Head(s) = "take ino" /\ l.bits \subseteq Inum
    BY <1>2, <1>5 DEF TakeIno, At, LocAt
  <2>4. ibitmap' \subseteq Inum
    BY <1>1, <1>5, <2>1, <2>3 DEF TakeIno, DiskTypes
  <2> HIDE DEF i
  <2>5. m \in Local /\ m.ino = i /\ m.path = l.path /\ m.done = l.done /\ m.len = l.len
        /\ m.val = l.val /\ Pointer(m) = Pointer(l)
    BY <1>1, <2>2 DEF Local, Pointer
  <2>6. ASSUME r # <<>> PROVE LocAt(r, m)
    <3>1. Head(r) # "take ino" /\ Head(r) # "take block"
      BY <1>1, <2>3, <2>6, HandlerAt DEF Follows
    <3>2. "clear inodes" \notin Range(r)
      BY <1>1, <2>3, HandlerAt DEF Before, Past
    <3> HIDE DEF m, r, s, l
    <3> QED
      BY <1>2, <2>2, <2>5, <3>1, <3>2 DEF LocAt
  <2>7. HandlerTypes'
    BY <1>1, <1>5, <2>5, <2>6, GoTypes DEF TakeIno, Continue, i
  <2> QED
    BY <1>1, <1>5, <2>4, <2>7 DEF TakeIno, TypeInv, DiskTypes
<1>6. CASE TakeBlock(t)
  <2> DEFINE b == LowestClear(l.bits, MaxDnum, NoBlock)
             m == [l EXCEPT !.blk = b]
  <2>1. b = NoBlock \/ b \in Block
    BY LowestClearProperties, Sizes DEF Block
  <2>2. Head(s) = "take block" /\ l.bits \subseteq Block
    BY <1>2, <1>6 DEF TakeBlock, At, LocAt
  <2>3. dbitmap' \subseteq Block
    BY <1>1, <1>6, <2>1, <2>2 DEF TakeBlock, DiskTypes
  <2> HIDE DEF b
  <2>4. m \in Local /\ Same(m, l)
    BY <1>1, <2>1 DEF Local, Same
  <2>5. HandlerTypes'
    BY <1>1, <1>6, <2>2, <2>4, ContinueTypes DEF TakeBlock, b
  <2> QED
    BY <1>1, <1>6, <2>3, <2>5 DEF TakeBlock, TypeInv, DiskTypes
<1> QED
  BY <1>3, <1>4, <1>5, <1>6 DEF ReadBitmap

\* The last name of a path.
LEMMA NamesOfPaths ==
    ASSUME NEW path \in Paths
    PROVE  /\ Len(path) \in Nat \ {0} /\ Basename(path) \in Names
           /\ \A k \in 1..Len(path) : path[k] \in Names
<1>1. path # <<>> /\ path \in Seq(Range(path))
  BY RufsAssumption DEF Paths
<1>2. Len(path) \in Nat \ {0} /\ \A k \in 1..Len(path) : path[k] \in Range(path)
  BY <1>1
<1>3. Range(path) \subseteq Names
  BY DEF Names
<1> QED
  BY <1>2, <1>3 DEF Basename

LEMMA StrictlyLess == \A x, y \in Nat : x <= y /\ x # y => x < y
  OBVIOUS

LEMMA EmptyRange == Range(<<>>) = {}
<1>1. <<>> \in Seq(Step) /\ Len(<<>>) = 0 /\ 1..0 = {}
  OBVIOUS
<1> QED
  BY <1>1, RangeOfSequence

LEMMA InodesTypes ==
    ASSUME TypeInv, NEW t \in Thread, ReadInodes(t) \/ WriteInodes(t)
    PROVE  TypeInv'
<1> DEFINE l == loc[t]
<1>1. HandlerTypes /\ DiskTypes /\ Busy(t) /\ l \in Local
  BY HandlerAt DEF TypeInv, ReadInodes, WriteInodes, At
<1>2. CASE ReadInodes(t)
  <2> DEFINE B == [j \in InodeBlock(l.out.ino) |-> inodes[j]]
             m == [l EXCEPT !.buf = B]
  <2>1. InodeBlock(l.out.ino) \subseteq Slot
    BY DEF InodeBlock
  <2>2. B \in [InodeBlock(l.out.ino) -> Inode]
    BY <1>1, <2>1 DEF DiskTypes
  <2>3. B \in Bufs
    BY <2>1, <2>2 DEF Bufs
  <2> HIDE DEF B
  <2>4. m \in Local /\ Same(m, l)
    BY <1>1, <2>3 DEF Local, Same
  <2>5. HandlerTypes'
    BY <1>1, <1>2, <2>4, ContinueTypes DEF ReadInodes, At, B
  <2> QED
    BY <1>1, <1>2, <2>5 DEF ReadInodes, TypeInv, DiskTypes, disk
<1>3. CASE WriteInodes(t)
  <2>1. inodes' \in [Slot -> Inode]
    <3>1. l.out \in Inode /\ l.buf \in Bufs
      BY <1>1 DEF Local
    <3>2. \A j \in DOMAIN l.buf : l.buf[j] \in Inode
      BY <3>1 DEF Bufs
    <3>3. inodes \in [Slot -> Inode]
      BY <1>1 DEF DiskTypes
    <3> QED
      BY <1>3, <3>1, <3>2, <3>3 DEF WriteInodes
  <2>2. Same(l, l)
    BY DEF Same
  <2>3. HandlerTypes'
    BY <1>1, <1>3, <2>2, ContinueTypes DEF WriteInodes, At
  <2>4. data' \in [DataBlock -> [Cell -> CellValue]]
    <3>1. data \in [DataBlock -> [Cell -> CellValue]] /\ Entry \cup {Zero} \subseteq CellValue
      BY <1>1 DEF DiskTypes, CellValue
    <3>2. data' = data \/ StrayWrite
      BY <1>3 DEF WriteInodes
    <3> QED
      BY <3>1, <3>2 DEF StrayWrite
  <2> QED
    BY <1>1, <1>3, <2>1, <2>3, <2>4 DEF WriteInodes, TypeInv, DiskTypes
<1> QED
  BY <1>2, <1>3

\* dir_add's new block before what is left.
LEMMA AddSteps ==
    ASSUME HandlerTypes, NEW t \in Thread, Busy(t),
           Head(todo[t]) \in {"add", "add dot", "add dotdot"},
           NEW r, r = Tail(todo[t]),
           NEW q, q = GetAvailBlkno \o <<"new block">> \o Writei \o r
    PROVE  /\ Program(q) /\ q # <<>> /\ Head(q) = "read dbitmap"
           /\ Range(q) = NewBlockSteps \cup Range(r)
<1>1. r # <<>> => Follows("write inodes", Head(r))
  BY HandlerAt DEF Follows
<1>2. \A x \in NewBlockSteps, y \in Range(r) : Before(x, y)
  BY DEF NewBlockSteps, Before, Past
<1>3. Program(r)
  BY HandlerAt
<1> QED
  BY ONLY <1>1, <1>2, <1>3, NewBlockFits, FitsPut, q = GetAvailBlkno \o <<"new block">> \o Writei \o r

\* dir_add goes on, ends the call, or gets a block first.
LEMMA AddTypes ==
    ASSUME TypeInv, NEW t \in Thread, Busy(t),
           Head(todo[t]) \in {"add", "add dot", "add dotdot"},
           NEW dir \in Inode, NEW name \in Names \cup {".", ".."}, NEW ino \in Slot,
           AddEntry(t, dir, name, ino)
    PROVE  TypeInv'
<1> DEFINE s == todo[t]
           r == Tail(s)
           e == [name |-> name, ino |-> ino]
           l == [loc[t] EXCEPT !.dir = dir, !.entry = e]
           k == Min(Room(dir))
           b == dir.ptr[k]
           c == Min({d \in Cell : ~IsEntry(BioRead(b)[d])})
           full == ~dir.valid \/ Room(dir) = {}
           P == GetAvailBlkno \o <<"new block">> \o Writei
<1>1. HandlerTypes /\ DiskTypes /\ loc[t] \in Local /\ Program(r) /\ LocAt(s, loc[t])
      /\ Range(s) = {Head(s)} \cup Range(r)
  BY HandlerAt DEF TypeInv
<1>2. e \in Entry
  BY DEF Entry
<1>3. l \in Local /\ Same(l, loc[t])
  BY <1>1, <1>2 DEF Local, Same
<1> HIDE DEF l
<1>4. \/ Return(t) /\ data' = data
      \/ Continue(t, l) /\ data' = data
      \/ Go(t, P \o r, l) /\ data' = data
      \/ ~full /\ b # INVALID /\ Continue(t, l) /\ BioWrite(b, [BioRead(b) EXCEPT ![c] = l.entry])
  BY DEF AddEntry, l
<1>5. HandlerTypes'
  <2>1. CASE Return(t)
    BY <1>1, <2>1, EmptyProgram, GoTypes DEF Return
  <2>2. CASE Continue(t, l)
    BY <1>1, <1>3, <2>2, ContinueTypes
  <2>3. CASE Go(t, P \o r, l)
    <3> DEFINE q == P \o r
    <3>4. /\ Program(q) /\ q # <<>> /\ Head(q) = "read dbitmap"
          /\ Range(q) = NewBlockSteps \cup Range(r)
      BY <1>1, AddSteps
    <3> HIDE DEF q, P, r, s
    <3>5. \A x \in Step \ NewBlockSteps : x # Head(s) => (x \in Range(q) <=> x \in Range(s))
      BY <1>1, <3>4
    <3>6. /\ Head(s) \notin {"clear inodes", "take ino", "write", "fill"}
          /\ \A x \in {"clear inodes", "take ino", "write", "fill", "lookup"} :
                x \in Step \ NewBlockSteps /\ x # Head(s)
      BY DEF Step, NewBlockSteps, s
    <3>7. "add" \in Range(q) => "add" \in Range(s)
      BY <1>1, <3>4 DEF NewBlockSteps
    <3>8. Pointer(l) = Pointer(loc[t])
      BY <1>3 DEF Same, Pointer
    <3>9. LocAt(q, l)
      BY <1>1, <1>3, <3>4, <3>5, <3>6, <3>7, <3>8 DEF LocAt, Same
    <3> QED
      BY <1>1, <1>3, <2>3, <3>4, <3>9, GoTypes DEF q
  <2> QED
    BY <1>4, <2>1, <2>2, <2>3
<1>6. data' \in [DataBlock -> [Cell -> CellValue]]
  <2>1. CASE data' = data
    BY <1>1, <2>1 DEF DiskTypes
  <2>2. CASE BioWrite(b, [BioRead(b) EXCEPT ![c] = l.entry])
    <3>1. BioRead(b) \in [Cell -> CellValue]
      BY <1>1, BioReadTyped
    <3>2. l.entry \in CellValue
      BY <1>3 DEF Local, CellValue
    <3> HIDE DEF b, c
    <3>3. [BioRead(b) EXCEPT ![c] = l.entry] \in [Cell -> CellValue]
      BY <3>1, <3>2
    <3> QED
      BY <1>1, <2>2, <3>3, BioWriteTyped
  <2> QED
    BY <1>4, <2>1, <2>2
<1> QED
  BY <1>1, <1>5, <1>6 DEF AddEntry, TypeInv, DiskTypes

\* Steps that leave the disk alone, but for the bitmaps or the file itself.
LEMMA SetTypes ==
    ASSUME TypeInv, NEW t \in Thread,
           NewInode(t) \/ LinkParent(t) \/ Format(t) \/ WriteBitmaps(t)
    PROVE  TypeInv'
<1> DEFINE l == loc[t]
           s == todo[t]
<1>1. HandlerTypes /\ DiskTypes /\ Busy(t) /\ l \in Local /\ LocAt(s, l)
  BY HandlerAt DEF TypeInv, NewInode, LinkParent, Format, WriteBitmaps, At
<1>2. ASSUME NEW o \in Inode, Continue(t, [l EXCEPT !.out = o]),
             Head(s) \in {"new file", "new directory", "root", "link"},
             UNCHANGED <<disk, mounted, crashes>>
      PROVE  TypeInv'
  <2> DEFINE m == [l EXCEPT !.out = o]
  <2>1. m \in Local /\ Same(m, l)
    BY <1>1 DEF Local, Same
  <2>2. HandlerTypes'
    BY <1>1, <1>2, <2>1, ContinueTypes
  <2> QED
    BY <1>1, <1>2, <2>2 DEF TypeInv, DiskTypes, disk
<1>3. CASE NewInode(t)
  <2> DEFINE n == [inodes[l.ino] EXCEPT !.valid = TRUE, !.ino = l.ino, !.ptr = NoPtrs]
  <2>1. Head(s) \in {"new file", "new directory", "root"}
    BY <1>3 DEF NewInode, At
  <2>2. "take ino" \notin Range(s)
    <3>1. ~Before(Head(s), "take ino") /\ Head(s) # "take ino"
      BY <2>1 DEF Before, Past
    <3> QED
      BY <1>1, <3>1, HandlerAt
  <2>3. l.ino \in Slot
    BY <1>1, <2>2 DEF LocAt
  <2>4. NoPtrs \in [Ptr -> Block \cup {NoBlock}]
    BY SizesOfTypes DEF NoPtrs
  <2>5. n \in Inode
    <3>1. inodes[l.ino] \in Inode
      BY <1>1, <2>3 DEF DiskTypes
    <3> QED
      BY <2>3, <2>4, <3>1 DEF Inode
  <2> HIDE DEF n
  <2>6. [n EXCEPT !.type = "file", !.size = 0] \in Inode
        /\ [n EXCEPT !.type = "directory"] \in Inode
    BY <2>5 DEF Inode
  <2>7. /\ \/ Continue(t, [l EXCEPT !.out = [n EXCEPT !.type = "file", !.size = 0]])
           \/ Continue(t, [l EXCEPT !.out = [n EXCEPT !.type = "directory"]])
        /\ UNCHANGED <<disk, mounted, crashes>>
    BY <1>3 DEF NewInode, n
  <2> QED
    BY <1>2, <2>1, <2>6, <2>7
<1>4. CASE LinkParent(t)
  <2>1. inodes[l.node.ino] \in Inode
    BY <1>1 DEF DiskTypes, Local, Inode
  <2> QED
    BY <1>2, <1>4, <2>1 DEF LinkParent, At
<1>5. CASE Format(t) \/ WriteBitmaps(t)
  <2>1. /\ Head(s) \in {"format", "bitmaps"} /\ Continue(t, l) /\ Same(l, l)
        /\ UNCHANGED <<inodes, data, mounted, crashes>>
    BY <1>5 DEF Format, WriteBitmaps, At, Same
  <2>2. HandlerTypes'
    BY <1>1, <2>1, ContinueTypes
  <2>3. 0..(DataStart - 1) \subseteq Block
    BY Sizes DEF Block
  <2>4. found' \in BOOLEAN /\ ibitmap' \subseteq Inum /\ dbitmap' \subseteq Block
    BY <1>1, <1>5, <2>3 DEF Format, WriteBitmaps, DiskTypes
  <2> QED
    BY <1>1, <2>1, <2>2, <2>4 DEF TypeInv, DiskTypes
<1> QED
  BY <1>3, <1>4, <1>5

LEMMA NewBlockTypes ==
    ASSUME TypeInv, NEW t \in Thread, NewBlock(t)
    PROVE  TypeInv'
<1> DEFINE l == loc[t]
           k == Min({j \in Ptr : l.dir.ptr[j] = INVALID})
           o == [l.dir EXCEPT !.ptr[k] = l.blk]
           m == [l EXCEPT !.out = o]
<1>1. HandlerTypes /\ DiskTypes /\ Busy(t) /\ l \in Local /\ Head(todo[t]) = "new block"
  BY HandlerAt DEF TypeInv, NewBlock, At
<1>2. /\ BioWrite(l.blk, [Zeroed EXCEPT ![0] = l.entry]) /\ Continue(t, m)
      /\ UNCHANGED <<found, ibitmap, dbitmap, inodes, mounted, crashes>>
  BY DEF NewBlock
<1>3. [Zeroed EXCEPT ![0] = l.entry] \in [Cell -> CellValue]
  BY <1>1, ZeroedTyped DEF Local, CellValue
<1>4. data' \in [DataBlock -> [Cell -> CellValue]]
  BY <1>1, <1>2, <1>3, BioWriteTyped
<1> HIDE DEF k
<1>5. o \in Inode
  <2>1. l.dir \in Inode /\ l.blk \in Block \cup {NoBlock}
    BY <1>1 DEF Local
  <2> QED
    BY <2>1 DEF Inode
<1> HIDE DEF o
<1>6. m \in Local /\ Same(m, l)
  BY <1>1, <1>5 DEF Local, Same
<1>7. HandlerTypes'
  BY <1>1, <1>2, <1>6, ContinueTypes
<1> QED
  BY <1>1, <1>2, <1>4, <1>7 DEF TypeInv, DiskTypes

\* writei before the loop that clears the inodes.
LEMMA ClearSteps ==
    ASSUME NEW s, Program(s), s # <<>>, Head(s) = "clear inodes"
    PROVE  /\ Program(Writei \o s) /\ Writei \o s # <<>> /\ Head(Writei \o s) = "read inodes"
           /\ Range(Writei \o s) = WriteiSteps \cup Range(s)
<1>1. Follows("write inodes", Head(s))
  BY DEF Follows
<1>2. Fits(Writei, "read inodes", "write inodes", WriteiSteps)
  BY Pieces
<1> QED
  BY <1>1, <1>2, WriteiBefore, FitsPut

LEMMA ClearTypes ==
    ASSUME TypeInv, NEW t \in Thread, ClearInodes(t)
    PROVE  TypeInv'
<1> DEFINE l == loc[t]
           s == todo[t]
           q == Writei \o s
           m == [l EXCEPT !.out = Blank(l.ino), !.ino = @ + 1]
<1>1. /\ HandlerTypes /\ DiskTypes /\ Busy(t) /\ l \in Local /\ Head(s) = "clear inodes"
      /\ LocAt(s, l) /\ Program(s) /\ s # <<>> /\ "clear inodes" \in Range(s)
  BY HandlerAt DEF TypeInv, ClearInodes, At
<1>2. /\ \/ l.ino < MaxInum /\ Go(t, q, m)
         \/ Continue(t, l)
      /\ UNCHANGED <<disk, mounted, crashes>>
  BY DEF ClearInodes
<1>3. CASE Continue(t, l)
  <2>1. Same(l, l)
    BY DEF Same
  <2>2. HandlerTypes'
    BY <1>1, <1>3, <2>1, ContinueTypes
  <2> QED
    BY <1>1, <1>2, <2>2 DEF TypeInv, DiskTypes, disk
<1>4. CASE l.ino < MaxInum /\ Go(t, q, m)
  <2>1. l.ino \in Nat /\ l.ino \in Slot
    <3>1. l.ino \in Nat
      BY <1>1 DEF Local
    <3>2. l.ino \in 0..(MaxInum - 1)
      BY <1>4, <3>1, Sizes
    <3> QED
      BY <3>1, <3>2 DEF Slot, Inum
  <2>2. Blank(l.ino) \in Inode
    BY <2>1, BlankTyped
  <2>3. m \in Local /\ m.path = l.path /\ m.done = l.done /\ m.len = l.len
        /\ m.val = l.val /\ Pointer(m) = Pointer(l)
    <3>1. l.ino + 1 \in Nat
      BY <2>1
    <3>2. m = [[l EXCEPT !.out = Blank(l.ino)] EXCEPT !.ino = l.ino + 1]
      BY <1>1 DEF Local
    <3> HIDE DEF m
    <3> QED
      BY <1>1, <2>2, <3>1, <3>2 DEF Local, Pointer
  <2>6. /\ Program(q) /\ q # <<>> /\ Head(q) = "read inodes"
        /\ Range(q) = WriteiSteps \cup Range(s)
    BY <1>1, ClearSteps
  <2>7. "take ino" \in Range(s)
    BY <1>1 DEF LocAt
  <2> HIDE DEF q, m, s, l
  <2>8. LocAt(q, m)
    <3>1. \A x \in {"lookup", "add", "write", "fill"} : x \in Range(q) => x \in Range(s)
      BY <2>6 DEF WriteiSteps
    <3>2. "take ino" \in Range(q)
      BY <2>6, <2>7
    <3> QED
      BY <1>1, <2>3, <2>6, <3>1, <3>2 DEF LocAt
  <2>9. HandlerTypes'
    BY <1>1, <1>4, <2>3, <2>6, <2>8, GoTypes
  <2> QED
    BY <1>1, <1>2, <2>9 DEF TypeInv, DiskTypes, disk
<1> QED
  BY <1>2, <1>3, <1>4

\* Nothing comes after the steps of reading and writing.
LEMMA TransferLast ==
    ASSUME HandlerTypes, NEW t \in Thread, Busy(t), Head(todo[t]) \in {"read", "write"}
    PROVE  Range(todo[t]) = {Head(todo[t])} /\ Tail(todo[t]) = <<>>
<1>1. Tail(todo[t]) = <<>>
  BY HandlerAt DEF Follows
<1> QED
  BY <1>1, HandlerAt, EmptyRange

\* The call writes an inode and ends.
LEMMA WriteOutTypes ==
    ASSUME TypeInv, NEW t \in Thread, Busy(t), Head(todo[t]) \in {"read", "write"},
           NEW o \in Inode, Go(t, Writei, [loc[t] EXCEPT !.out = o])
    PROVE  HandlerTypes'
<1> DEFINE l == loc[t]
           m == [l EXCEPT !.out = o]
<1>1. HandlerTypes /\ l \in Local /\ LocAt(todo[t], l)
  BY HandlerAt DEF TypeInv
<1>2. Range(todo[t]) = {Head(todo[t])}
  BY <1>1, TransferLast
<1>3. l.ino \in Slot
  BY <1>1, <1>2 DEF LocAt
<1>4. m \in Local /\ m.ino \in Slot
  BY <1>1, <1>3 DEF Local
<1>5. Program(Writei) /\ Head(Writei) = "read inodes" /\ Range(Writei) = WriteiSteps
  BY Pieces DEF Fits
<1> HIDE DEF m
<1>6. LocAt(Writei, m)
  BY <1>4, <1>5 DEF LocAt, WriteiSteps
<1> QED
  BY <1>1, <1>4, <1>5, <1>6, GoTypes DEF m

\* A block to fill, taken first or not, before the loop's next pass.
LEMMA LoopSteps ==
    ASSUME NEW s, Program(s), s # <<>>, Range(s) = {"write"}
    PROVE  /\ \A q : q = GetAvailBlkno \o <<"fill">> \o s =>
                 /\ Program(q) /\ q # <<>> /\ Head(q) = "read dbitmap"
                 /\ Range(q) = GetBlkSteps \cup {"fill", "write"}
           /\ \A q : q = <<>> \o <<"fill">> \o s =>
                 /\ Program(q) /\ q # <<>> /\ Head(q) = "fill"
                 /\ Range(q) = {"fill", "write"}
<1>1. Fits(<<"fill">>, "fill", "fill", {"fill"})
  BY FitsOne DEF Step
<1>2. Fits(GetAvailBlkno, "read dbitmap", "take block", GetBlkSteps)
  BY Pieces
<1>3. Follows("take block", "fill") /\ \A x \in GetBlkSteps, y \in {"fill"} : Before(x, y)
  BY DEF Follows, Before, Past, GetBlkSteps
<1>4. Fits(GetAvailBlkno \o <<"fill">>, "read dbitmap", "fill", GetBlkSteps \cup {"fill"})
  BY <1>1, <1>2, <1>3, FitsJoin
<1>5. <<>> \o <<"fill">> = <<"fill">>
  OBVIOUS
<1>6. Follows("fill", Head(s))
  <2>1. Head(s) \in Range(s)
    BY ProgramTail
  <2> QED
    BY <2>1 DEF Follows
<1>7. \A x \in GetBlkSteps \cup {"fill"}, y \in Range(s) : Before(x, y)
  BY DEF GetBlkSteps, Before, Past
<1>8. \A x \in {"fill"}, y \in Range(s) : Before(x, y)
  BY <1>7
<1> DEFINE a == GetAvailBlkno \o <<"fill">>
           b == <<"fill">>
<1> HIDE DEF a, b
<1>9. /\ Program(a \o s) /\ a \o s # <<>> /\ Head(a \o s) = "read dbitmap"
      /\ Range(a \o s) = (GetBlkSteps \cup {"fill"}) \cup Range(s)
  <2>1. Fits(a, "read dbitmap", "fill", GetBlkSteps \cup {"fill"})
    BY <1>4 DEF a
  <2> QED
    BY ONLY <2>1, <1>6, <1>7, Program(s), FitsPut
<1>10. /\ Program(b \o s) /\ b \o s # <<>> /\ Head(b \o s) = "fill"
       /\ Range(b \o s) = {"fill"} \cup Range(s)
  <2>1. Fits(b, "fill", "fill", {"fill"})
    BY <1>1 DEF b
  <2> QED
    BY ONLY <2>1, <1>6, <1>8, Program(s), FitsPut
<1> QED
  BY <1>5, <1>9, <1>10 DEF a, b

LEMMA WriteLoopTypes ==
    ASSUME TypeInv, NEW t \in Thread, WriteLoop(t)
    PROVE  TypeInv'
<1> DEFINE l == loc[t]
           s == todo[t]
           o == [l.node EXCEPT !.size = @ + l.done]
           a == (IF l.node.ptr[Pointer(l)] = INVALID THEN GetAvailBlkno ELSE <<>>) \o <<"fill">>
           q == a \o s
<1>1. /\ HandlerTypes /\ DiskTypes /\ Busy(t) /\ l \in Local /\ Head(s) = "write"
      /\ LocAt(s, l) /\ Program(s) /\ s # <<>> /\ UNCHANGED <<disk, mounted, crashes>>
  BY HandlerAt DEF TypeInv, WriteLoop, At
<1>2. Range(s) = {"write"}
  BY <1>1, TransferLast
<1>3. CASE Go(t, Writei, [l EXCEPT !.out = o])
  <2>1. l.node \in Inode /\ l.done \in Nat
    BY <1>1 DEF Local
  <2>2. l.node.size + l.done \in Nat
    BY <2>1 DEF Inode
  <2>3. o \in Inode
    BY <2>1, <2>2 DEF Inode
  <2>4. HandlerTypes'
    BY <1>1, <1>3, <2>3, WriteOutTypes
  <2> QED
    BY <1>1, <2>4 DEF TypeInv, DiskTypes, disk
<1>4. CASE l.done # l.len /\ Pointer(l) \in Ptr /\ Go(t, q, l)
  <2>1. \E f \in {"read dbitmap", "fill"}, S \in SUBSET (GetBlkSteps \cup {"fill"}) :
           /\ Program(q) /\ q # <<>> /\ Head(q) = f /\ Range(q) = S \cup Range(s)
    <3>1. q = GetAvailBlkno \o <<"fill">> \o s \/ q = <<>> \o <<"fill">> \o s
      OBVIOUS
    <3>2. Program(s) /\ s # <<>>
      BY <1>1
    <3> HIDE DEF q, s
    <3>3. CASE q = GetAvailBlkno \o <<"fill">> \o s
      <4>1. /\ Program(q) /\ q # <<>> /\ Head(q) = "read dbitmap"
            /\ Range(q) = GetBlkSteps \cup {"fill", "write"}
        BY ONLY <1>2, <3>2, <3>3, LoopSteps
      <4>2. Range(q) = (GetBlkSteps \cup {"fill"}) \cup Range(s)
        BY <1>2, <4>1
      <4> QED
        BY <4>1, <4>2
    <3>4. CASE q = <<>> \o <<"fill">> \o s
      <4>1. /\ Program(q) /\ q # <<>> /\ Head(q) = "fill"
            /\ Range(q) = {"fill", "write"}
        BY ONLY <1>2, <3>2, <3>4, LoopSteps
      <4> QED
        BY <1>2, <4>1
    <3> QED
      BY <3>1, <3>3, <3>4
  <2>2. PICK f \in {"read dbitmap", "fill"}, S \in SUBSET (GetBlkSteps \cup {"fill"}) :
           /\ Program(q) /\ q # <<>> /\ Head(q) = f /\ Range(q) = S \cup Range(s)
    BY <2>1
  <2>5. /\ Program(q) /\ q # <<>> /\ Head(q) = f /\ Range(q) = S \cup Range(s)
    BY <2>2
  <2> HIDE DEF a
  <2>6. /\ l.done <= l.len /\ l.done \in Nat /\ l.len \in Nat /\ l.ino \in Slot
        /\ l.val \in Values
    BY <1>1, <1>2 DEF LocAt, Local
  <2>7. l.done < l.len
    <3>1. l.done # l.len
      BY <1>4
    <3> QED
      BY <2>6, <3>1, StrictlyLess, Zenon
  <2> HIDE DEF q, l, s
  <2>8. LocAt(q, l)
    <3>1. \A x \in {"lookup", "add", "take ino", "clear inodes"} : x \notin Range(q)
      BY <1>2, <2>5 DEF GetBlkSteps
    <3> QED
      BY <1>4, <2>2, <2>5, <2>6, <2>7, <3>1 DEF LocAt
  <2>9. HandlerTypes'
    BY <1>1, <1>4, <2>5, <2>8, GoTypes
  <2> QED
    BY <1>1, <2>9 DEF TypeInv, DiskTypes, disk
<1> QED
  BY <1>3, <1>4 DEF WriteLoop

LEMMA FillTypes ==
    ASSUME TypeInv, NEW t \in Thread, FillBlock(t)
    PROVE  TypeInv'
<1> DEFINE l == loc[t]
           s == todo[t]
           r == Tail(s)
           k == Pointer(l)
           c == Offset(l)
           n == Min({l.len - l.done, Cells - c})
           b == IF l.node.ptr[k] = INVALID THEN l.blk ELSE l.node.ptr[k]
           cells == [d \in Cell |-> IF d \in c..(c + n - 1) THEN Datum(l, d - c)
                                   ELSE BioRead(b)[d]]
           m == [l EXCEPT !.node.ptr[k] = b, !.done = @ + n]
<1>1. /\ HandlerTypes /\ DiskTypes /\ Busy(t) /\ l \in Local /\ Head(s) = "fill"
      /\ LocAt(s, l) /\ Program(r) /\ Range(s) = {"fill"} \cup Range(r)
      /\ \A x \in Range(r) : Before("fill", x)
      /\ r # <<>> => Head(r) = "write"
  BY HandlerAt DEF TypeInv, FillBlock, At, Follows
<1>2. /\ BioWrite(b, cells) /\ Continue(t, m)
      /\ UNCHANGED <<found, ibitmap, dbitmap, inodes, mounted, crashes>>
  BY DEF FillBlock
<1>3. l.done < l.len /\ k \in Ptr
  BY <1>1 DEF LocAt
<1>4. /\ l.done \in Nat /\ l.len \in Nat /\ l.off \in Nat /\ l.node \in Inode
      /\ l.blk \in Block \cup {NoBlock} /\ l.val \in Values
  BY <1>1 DEF Local, LocAt
<1>5. b \in Block \cup {NoBlock}
  BY <1>3, <1>4 DEF Inode
<1>6. cells \in [Cell -> CellValue]
  <2>1. BioRead(b) \in [Cell -> CellValue]
    BY <1>1, BioReadTyped
  <2>2. c \in Nat /\ n \in Nat
    <3>1. c \in Nat /\ c < Cells
      BY <1>4, Sizes DEF Offset
    <3> HIDE DEF c
    <3>2. l.len - l.done \in Nat /\ Cells - c \in Nat
      BY <1>3, <1>4, <3>1, Sizes
    <3> QED
      BY <3>1, <3>2, MinOfTwo
  <2> HIDE DEF b, n, c
  <2>3. ASSUME NEW d \in c..(c + n - 1) PROVE Datum(l, d - c) \in CellValue
    <3>1. l.done + (d - c) \in Nat
      BY <1>4, <2>2
    <3> QED
      BY <1>4, <3>1 DEF Datum, Data, CellValue
  <2> QED
    BY <2>1, <2>3
<1>7. data' \in [DataBlock -> [Cell -> CellValue]]
  BY <1>1, <1>2, <1>6, BioWriteTyped
<1>8. n \in Nat /\ l.done + n <= l.len
  <2>1. c \in Nat /\ c < Cells
    BY <1>4, Sizes DEF Offset
  <2> HIDE DEF c
  <2>2. l.len - l.done \in Nat /\ Cells - c \in Nat
    BY <1>3, <1>4, <2>1, Sizes
  <2>3. n \in {l.len - l.done, Cells - c} /\ n <= l.len - l.done
    BY <2>2, MinOfTwo
  <2> HIDE DEF n
  <2> QED
    BY <1>4, <2>2, <2>3
<1> HIDE DEF n, b, k, cells
<1>9. m \in Local /\ m.done = l.done + n /\ m.len = l.len /\ m.ino = l.ino /\ m.path = l.path
      /\ m.val = l.val
  <2>1. [l.node EXCEPT !.ptr[k] = b] \in Inode
    BY <1>4, <1>5 DEF Inode
  <2>2. l.done + n \in Nat
    BY <1>4, <1>8
  <2>3. m = [[l EXCEPT !.node = [l.node EXCEPT !.ptr[k] = b]] EXCEPT !.done = l.done + n]
    BY <1>1 DEF Local
  <2> HIDE DEF m
  <2> QED
    BY <1>1, <2>1, <2>2, <2>3 DEF Local
<1>10. ASSUME r # <<>> PROVE LocAt(r, m)
  <2>1. "fill" \notin Range(r)
    BY <1>1 DEF Before, Past
  <2>2. \A x \in Step : x # "fill" => (x \in Range(r) <=> x \in Range(s))
    BY <1>1
  <2>3. {"take ino", "clear inodes", "lookup", "add", "write"} \subseteq Step
    BY DEF Step
  <2> HIDE DEF m, r, s, l
  <2> QED
    BY <1>1, <1>8, <1>9, <1>10, <2>1, <2>2, <2>3 DEF LocAt
<1>11. HandlerTypes'
  BY <1>1, <1>2, <1>9, <1>10, GoTypes DEF Continue
<1> QED
  BY <1>1, <1>2, <1>7, <1>11 DEF TypeInv, DiskTypes

LEMMA ReadFileTypes ==
    ASSUME TypeInv, NEW t \in Thread, ReadFile(t)
    PROVE  TypeInv'
<1>1. /\ HandlerTypes /\ DiskTypes /\ Busy(t) /\ Head(todo[t]) = "read"
      /\ loc[t].node \in Inode /\ UNCHANGED <<disk, mounted, crashes>>
  BY HandlerAt DEF TypeInv, ReadFile, At, Local
<1>2. Return(t) \/ Go(t, Writei, [loc[t] EXCEPT !.out = loc[t].node])
  BY DEF ReadFile
<1>3. HandlerTypes'
  <2>1. CASE Return(t)
    BY <1>1, <2>1, EmptyProgram, GoTypes DEF Return
  <2> QED
    BY <1>1, <1>2, <2>1, WriteOutTypes
<1> QED
  BY <1>1, <1>3 DEF TypeInv, DiskTypes, disk

LEMMA EndTypes ==
    ASSUME TypeInv, Unmount \/ Crash
    PROVE  TypeInv'
<1>1. CASE Unmount
  BY <1>1 DEF Unmount, TypeInv, DiskTypes, HandlerTypes, disk
<1>2. CASE Crash
  <2>1. /\ todo' = [t \in Thread |-> <<>>] /\ loc' = [t \in Thread |-> Rest]
        /\ crashes < MaxCrashes /\ crashes' = crashes + 1
        /\ mounted' = FALSE /\ UNCHANGED disk
    BY <1>2 DEF Crash
  <2>2. HandlerTypes'
    BY <2>1, RestTyped, EmptyProgram DEF HandlerTypes
  <2>3. crashes' \in 0..MaxCrashes
    BY <2>1, Sizes DEF TypeInv, DiskTypes
  <2> QED
    BY <2>1, <2>2, <2>3 DEF TypeInv, DiskTypes, disk
<1> QED
  BY <1>1, <1>2

LEMMA TypeNext == TypeInv /\ [Next]_vars => TypeInv'
<1> SUFFICES ASSUME TypeInv, [Next]_vars PROVE TypeInv'
  OBVIOUS
<1>1. CASE UNCHANGED vars
  BY <1>1 DEF vars, disk, TypeInv, DiskTypes, HandlerTypes
<1>2. ASSUME NEW t \in Thread, DiskStep(t) PROVE TypeInv'
  <2>1. CASE AddName(t) \/ AddDot(t) \/ AddDotdot(t)
    <3>1. HandlerTypes /\ DiskTypes /\ Busy(t) /\ loc[t] \in Local
          /\ LocAt(todo[t], loc[t])
          /\ Range(todo[t]) = {Head(todo[t])} \cup Range(Tail(todo[t]))
      BY <2>1, HandlerAt DEF TypeInv, AddName, AddDot, AddDotdot, At
    <3>2. Head(todo[t]) \in {"add", "add dot", "add dotdot"}
      BY <2>1 DEF AddName, AddDot, AddDotdot, At
    <3>3. loc[t].ino \in Slot
      <4>1. ~Before(Head(todo[t]), "take ino") /\ Head(todo[t]) # "take ino"
        BY <3>2 DEF Before, Past
      <4>2. "take ino" \notin Range(todo[t])
        BY <3>1, <4>1, HandlerAt
      <4> QED
        BY <3>1, <4>2 DEF LocAt
    <3>4. inodes[loc[t].ino] \in Inode /\ loc[t].node \in Inode /\ loc[t].out \in Inode
          /\ loc[t].node.ino \in Slot
      BY <3>1, <3>3 DEF DiskTypes, Local, Inode
    <3>5. CASE AddName(t)
      <4>1. Head(todo[t]) = "add" /\ AddEntry(t, loc[t].node, Basename(loc[t].path), loc[t].ino)
        BY <3>5 DEF AddName, At
      <4>2. loc[t].path \in Paths
        BY <3>1, <4>1 DEF LocAt
      <4>3. Basename(loc[t].path) \in Names
        BY <4>2, NamesOfPaths
      <4> QED
        BY <3>1, <3>2, <3>3, <3>4, <4>1, <4>3, AddTypes
    <3>6. CASE AddDot(t)
      BY <3>1, <3>2, <3>3, <3>4, <3>6, AddTypes DEF AddDot
    <3>7. CASE AddDotdot(t)
      BY <3>1, <3>2, <3>3, <3>4, <3>7, AddTypes DEF AddDotdot
    <3> QED
      BY <2>1, <3>5, <3>6, <3>7
  <2> QED
    BY <1>2, <2>1, LookUpTypes, BitmapTypes, InodesTypes, NewBlockTypes, SetTypes,
       ClearTypes, WriteLoopTypes, FillTypes, ReadFileTypes DEF DiskStep
<1> QED
  BY <1>1, <1>2, CallTypes, EndTypes DEF Next

LEMMA TypeInvariant == Spec => []TypeInv
  BY TypeInit, TypeNext, PTL DEF Spec

\* The types: the bitmaps stay within their bounds, and inodes and directory entries
\* are well-formed, with any number of threads and whatever a crash leaves behind
\* (rufs.c:73-200, 205-327, 594-881).
THEOREM TypeCorrect == Spec => []TypeOK
<1>1. TypeInv => TypeOK
  BY DEF TypeInv, DiskTypes, TypeOK, IsEntry, CellValue
<1> QED
  BY <1>1, TypeInvariant, PTL

-----------------------------------------------------------------------------
(* One handler at a time: blocks.                                          *)

(* FUSE with -s.                                                           *)
Single == \A t, u \in Thread : t = u

Live == {i \in Slot : inodes[i].valid}
Metadata == 0..(DataStart - 1)

(* The blocks that an inode names, and that it alone names them.           *)
Uses(n) == {n.ptr[k] : k \in Ptr} \ {INVALID, NoBlock}
Own(n) ==
    /\ Uses(n) \subseteq DataBlock \cap dbitmap
    /\ \A j, k \in Ptr : n.ptr[j] = n.ptr[k] /\ n.ptr[j] \in Uses(n) => j = k
    /\ \A i \in Live \ {n.ino} : Uses(n) \cap Uses(inodes[i]) = {}

(* A block that was taken and is not yet named.                            *)
Taken(b) == b \in DataBlock \cap dbitmap /\ \A i \in Live : b \notin Uses(inodes[i])

Formatted == found /\ Metadata \subseteq dbitmap

DiskInv ==
    /\ \A i \in Live : inodes[i].ino = i /\ Own(inodes[i])
    /\ Live # {} => Formatted

(* The steps of a call.                                                    *)
StepsOf(op) ==
    IF op = "mkfs" THEN MkfsSteps \cup NewBlockSteps
    ELSE IF op = "create" THEN CreateSteps \cup NewBlockSteps
    ELSE IF op = "mkdir" THEN MkdirSteps \cup NewBlockSteps
    ELSE IF op = "read" THEN {"lookup", "read"} \cup WriteiSteps
    ELSE IF op = "write" THEN {"lookup", "write", "fill"} \cup GetBlkSteps \cup WriteiSteps
    ELSE {}

CallInv(s, l) ==
    /\ Range(s) \subseteq StepsOf(l.op)
    /\ Range(s) \cap {"format", "clear inodes", "bitmaps"} # {} => "root" \in Range(s)
    /\ l.op \in {"create", "mkdir"} /\ Head(s) = "lookup" => "add" \in Range(s)

(* rufs_mkfs clears what there is before it writes the root.               *)
MkfsInv(s, l) ==
    /\ "root" \in Range(s) => Live = {}
    /\ l.op = "mkfs" /\ Head(s) # "format" => found
    /\ l.op = "mkfs" /\ "bitmaps" \notin Range(s) => Metadata \subseteq dbitmap

(* The inode that is about to be written, and its neighbours.              *)
OutInv(s, l) ==
    /\ Head(s) \in WriteiSteps =>
          IF "root" \in Range(s) THEN ~l.out.valid
          ELSE l.out.valid /\ Own(l.out) /\ Formatted
    /\ Head(s) = "write inodes" => \A j \in DOMAIN l.buf : l.buf[j] = inodes[j]
    /\ Head(s) = "add dot" => inodes[l.out.ino] = l.out

(* The inode that was looked up.                                           *)
NodeInv(s, l) ==
    /\ l.op \in {"create", "mkdir"} =>
          /\ Head(s) \in {"read ibitmap", "take ino", "add"} /\ l.node.valid =>
                inodes[l.node.ino] = l.node
          /\ "add" \notin Range(s) => inodes[l.node.ino].valid
    /\ l.op \in {"read", "write"} =>
          IF Head(s) = "lookup" THEN Holds("file", l.path)
          ELSE inodes[l.node.ino].valid /\ l.node.valid /\ Own(l.node)

(* A block that was taken, and the directory that dir_add takes it for.    *)
TakenInv(s, l) ==
    /\ Head(s) = "take block" => l.bits = dbitmap
    /\ Head(s) = "new block" => l.blk = NoBlock \/ Taken(l.blk)
    /\ Head(s) = "fill" /\ l.node.ptr[Pointer(l)] = INVALID =>
          l.blk = NoBlock \/ (Taken(l.blk) /\ l.blk \notin Uses(l.node))
    /\ Head(s) \in {"read dbitmap", "take block", "new block"} /\ l.op # "write" =>
          l.dir.valid /\ inodes[l.dir.ino] = l.dir

HandlerInv(s, l) ==
    CallInv(s, l) /\ MkfsInv(s, l) /\ OutInv(s, l) /\ NodeInv(s, l) /\ TakenInv(s, l)

BlockInv ==
    /\ DiskInv
    /\ \A t \in Thread : todo[t] # <<>> => HandlerInv(todo[t], loc[t])

LEMMA LiveInodes ==
    ASSUME DiskTypes, NEW i, inodes[i].valid, i \in Slot
    PROVE  i \in Live /\ inodes[i] \in Inode
  BY DEF Live, DiskTypes

\* What is owned depends on the pointers, on the valid inodes and on the bitmap.
LEMMA OwnSame ==
    ASSUME NEW m, NEW n, m.ptr = n.ptr, m.ino = n.ino, Own(n)
    PROVE  Own(m) /\ Uses(m) = Uses(n)
  BY DEF Own, Uses

LEMMA OwnNothing ==
    ASSUME NEW n, n.ptr = NoPtrs
    PROVE  Own(n)
<1>1. Uses(n) = {}
  BY DEF Uses, NoPtrs
<1>2. ASSUME NEW j \in Ptr, NEW k \in Ptr, n.ptr[j] \in Uses(n) PROVE j = k
  BY <1>1, <1>2
<1> QED
  BY <1>1, <1>2 DEF Own

\* A block that was taken becomes a pointer.
LEMMA OwnTaken ==
    ASSUME NEW n \in Inode, Own(n), NEW k, NEW b,
           b = NoBlock \/ (Taken(b) /\ b \notin Uses(n)),
           NEW m, m.ino = n.ino, m.ptr = [n.ptr EXCEPT ![k] = b]
    PROVE  Own(m)
<1>1. n.ptr \in [Ptr -> Block \cup {NoBlock}]
  BY DEF Inode
<1>2. \A j \in Ptr : m.ptr[j] = IF j = k THEN b ELSE n.ptr[j]
  BY <1>1
<1>3. \A j \in Ptr : n.ptr[j] \notin {INVALID, NoBlock} => n.ptr[j] \in Uses(n)
  BY DEF Uses
<1>4. Uses(m) \subseteq Uses(n) \cup ({b} \ {NoBlock})
  BY <1>2 DEF Uses
<1>5. b \notin Uses(n)
  BY DEF Uses
<1>6. Uses(m) \subseteq DataBlock \cap dbitmap
  BY <1>4 DEF Own, Taken
<1>7. ASSUME NEW j \in Ptr, NEW i \in Ptr, m.ptr[j] = m.ptr[i], m.ptr[j] \in Uses(m)
      PROVE  j = i
  <2>1. m.ptr[j] \notin {INVALID, NoBlock}
    BY <1>7 DEF Uses
  <2>2. CASE j # k /\ i # k
    <3>1. n.ptr[j] = n.ptr[i] /\ n.ptr[j] \in Uses(n)
      BY <1>2, <1>3, <1>7, <2>1, <2>2
    <3> QED
      BY <3>1 DEF Own
  <2>3. CASE j = k /\ i # k
    BY <1>2, <1>3, <1>5, <1>7, <2>1, <2>3
  <2>4. CASE j # k /\ i = k
    BY <1>2, <1>3, <1>5, <1>7, <2>1, <2>4
  <2> QED
    BY <2>2, <2>3, <2>4
<1>8. ASSUME NEW i \in Live \ {m.ino} PROVE Uses(m) \cap Uses(inodes[i]) = {}
  <2>1. Uses(n) \cap Uses(inodes[i]) = {}
    BY <1>8 DEF Own
  <2>2. b = NoBlock \/ b \notin Uses(inodes[i])
    BY <1>8 DEF Taken
  <2> QED
    BY <1>4, <2>1, <2>2
<1> QED
  BY <1>6, <1>7, <1>8 DEF Own

\* Where inodes and bitmap stay.
LEMMA SameDisk ==
    ASSUME UNCHANGED <<found, dbitmap, inodes>>
    PROVE  /\ Live' = Live /\ (Formatted' <=> Formatted)
           /\ \A n : Own(n)' <=> Own(n)
           /\ \A b : Taken(b)' <=> Taken(b)
           /\ DiskInv' <=> DiskInv
<1>1. Live' = Live
  BY DEF Live
<1>2. Formatted' <=> Formatted
  BY DEF Formatted
<1>3. ASSUME NEW n PROVE Own(n)' <=> Own(n)
  BY <1>1 DEF Own
<1>4. ASSUME NEW b PROVE Taken(b)' <=> Taken(b)
  BY <1>1 DEF Taken
<1>5. DiskInv' <=> DiskInv
  BY <1>1, <1>2, <1>3 DEF DiskInv
<1> QED
  BY <1>1, <1>2, <1>3, <1>4, <1>5

LEMMA BlockGo ==
    ASSUME HandlerTypes, Single, NEW t \in Thread, NEW s, NEW l, Go(t, s, l), DiskInv',
           s # <<>> => HandlerInv(s, l)'
    PROVE  BlockInv'
<1>1. todo'[t] = s /\ (s # <<>> => loc'[t] = l)
  BY DEF Go, HandlerTypes
<1>2. ASSUME NEW u \in Thread, todo'[u] # <<>> PROVE HandlerInv(todo[u], loc[u])'
  <2>1. u = t
    BY DEF Single
  <2> QED
    BY <1>1, <1>2, <2>1
<1> QED
  BY <1>2 DEF BlockInv

\* The handler before its next step.
LEMMA BlockAt ==
    ASSUME HandlerTypes, BlockInv, NEW t \in Thread, Busy(t)
    PROVE  DiskInv /\ HandlerInv(todo[t], loc[t])
  BY DEF BlockInv, Busy

\* What is left after a step belongs to the same call.
LEMMA CallTail ==
    ASSUME NEW s, NEW l, NEW r, NEW m, Program(s), s # <<>>, r = Tail(s), m.op = l.op,
           CallInv(s, l)
    PROVE  /\ Range(r) \subseteq StepsOf(m.op)
           /\ r # <<>> => CallInv(r, m)
           /\ Head(s) \in StepsOf(m.op)
<1>1. /\ Range(s) = {Head(s)} \cup Range(r)
      /\ \A b \in Range(r) : Before(Head(s), b)
      /\ r # <<>> => Follows(Head(s), Head(r))
  BY ProgramTail
<1>2. "root" \in Range(s) /\ "root" \notin Range(r) =>
         Range(r) \cap {"format", "clear inodes", "bitmaps"} = {}
  <2>1. ASSUME Head(s) = "root"
        PROVE  \A b \in {"format", "clear inodes", "bitmaps"} : ~Before(Head(s), b)
    BY <2>1 DEF Before, Past
  <2> QED
    BY <1>1, <2>1
<1>3. r # <<>> => Head(r) # "lookup"
  BY <1>1 DEF Follows
<1> QED
  BY <1>1, <1>2, <1>3 DEF CallInv

\* A step that touches neither inodes nor data bitmap.
LEMMA QuietGo ==
    ASSUME TypeInv, BlockInv, Single, NEW t \in Thread, NEW q, NEW m, Go(t, q, m),
           UNCHANGED <<found, dbitmap, inodes>>,
           q # <<>> => /\ HandlerInv(q, m) /\ Head(q) # "lookup"
    PROVE  BlockInv'
<1>1. DiskInv'
  BY SameDisk DEF BlockInv
<1>2. ASSUME q # <<>> PROVE HandlerInv(q, m)'
  <2>1. HandlerInv(q, m) /\ Head(q) # "lookup"
    BY <1>2
  <2>2. CallInv(q, m)'
    BY <2>1 DEF HandlerInv, CallInv
  <2>3. MkfsInv(q, m)'
    BY <2>1, SameDisk DEF HandlerInv, MkfsInv
  <2>4. OutInv(q, m)'
    BY <2>1, SameDisk DEF HandlerInv, OutInv
  <2>5. NodeInv(q, m)'
    BY <2>1, SameDisk DEF HandlerInv, NodeInv
  <2>6. TakenInv(q, m)'
    BY <2>1, SameDisk DEF HandlerInv, TakenInv
  <2> QED
    BY <2>2, <2>3, <2>4, <2>5, <2>6 DEF HandlerInv
<1> QED
  BY <1>1, <1>2, BlockGo DEF TypeInv

LEMMA MkfsTail ==
    ASSUME NEW s, NEW l, NEW r, NEW m, Program(s), s # <<>>, r = Tail(s), m.op = l.op,
           MkfsInv(s, l), Head(s) \notin {"format", "bitmaps"}
    PROVE  MkfsInv(r, m)
<1>1. Range(s) = {Head(s)} \cup Range(r)
  BY ProgramTail
<1> QED
  BY <1>1 DEF MkfsInv

\* The parts that say nothing once the head has moved on.
LEMMA OutTail ==
    ASSUME NEW s, NEW r, NEW m, Program(s), s # <<>>, r = Tail(s), r # <<>>,
           Head(s) \notin {"new file", "new directory", "root", "link", "new block",
                           "read inodes", "write inodes"}
    PROVE  OutInv(r, m)
<1>1. Follows(Head(s), Head(r))
  BY ProgramTail
<1>2. Head(r) \notin WriteiSteps \cup {"add dot"}
  BY <1>1 DEF Follows, WriteiSteps
<1> QED
  BY <1>2 DEF OutInv, WriteiSteps

LEMMA TakenTail ==
    ASSUME NEW s, NEW r, NEW m, Program(s), s # <<>>, r = Tail(s), r # <<>>,
           Head(s) \notin {"read dbitmap", "take block"}
    PROVE  TakenInv(r, m)
<1>1. Follows(Head(s), Head(r))
  BY ProgramTail
<1>2. Head(r) \notin {"read dbitmap", "take block", "new block", "fill"}
  BY <1>1 DEF Follows
<1> QED
  BY <1>2 DEF TakenInv

LEMMA NodeTail ==
    ASSUME NEW s, NEW l, NEW r, NEW m, Program(s), s # <<>>, r = Tail(s), r # <<>>,
           m.op = l.op, m.node = l.node, CallInv(s, l), NodeInv(s, l),
           Head(s) \notin {"lookup", "add"}
    PROVE  NodeInv(r, m)
<1>1. Follows(Head(s), Head(r)) /\ Range(s) = {Head(s)} \cup Range(r)
  BY ProgramTail
<1>2. ASSUME l.op \in {"create", "mkdir"}, Head(r) \in {"read ibitmap", "take ino", "add"}
      PROVE  Head(s) \in {"read ibitmap", "take ino", "add"}
  <2>1. Head(s) \in StepsOf(l.op)
    BY CallTail
  <2>2. Head(s) # "bitmaps"
    BY <1>2, <2>1 DEF StepsOf, CreateSteps, MkdirSteps, NewBlockSteps
  <2> QED
    BY <1>1, <1>2, <2>2 DEF Follows
<1>3. "add" \notin Range(r) => "add" \notin Range(s)
  BY <1>1
<1>4. Head(r) # "lookup"
  BY <1>1 DEF Follows
<1> QED
  BY <1>2, <1>3, <1>4 DEF NodeInv

\* The same, for steps that go on with what is left.
LEMMA QuietContinue ==
    ASSUME TypeInv, BlockInv, Single, NEW t \in Thread, Busy(t), NEW m, Continue(t, m),
           m.op = loc[t].op, UNCHANGED <<found, dbitmap, inodes>>,
           Head(todo[t]) \notin {"format", "bitmaps"},
           Tail(todo[t]) # <<>> => /\ OutInv(Tail(todo[t]), m) /\ NodeInv(Tail(todo[t]), m)
                                   /\ TakenInv(Tail(todo[t]), m)
    PROVE  BlockInv'
<1> DEFINE s == todo[t]
           r == Tail(s)
<1>1. /\ HandlerInv(s, loc[t]) /\ Program(s) /\ s # <<>>
      /\ r # <<>> => Follows(Head(s), Head(r))
  BY BlockAt, HandlerAt DEF TypeInv
<1>2. CallInv(s, loc[t]) /\ MkfsInv(s, loc[t])
  BY <1>1 DEF HandlerInv
<1>3. ASSUME r # <<>> PROVE HandlerInv(r, m) /\ Head(r) # "lookup"
  <2>1. CallInv(r, m)
    BY <1>1, <1>2, <1>3, CallTail
  <2>2. MkfsInv(r, m)
    BY <1>1, <1>2, MkfsTail
  <2>3. Head(r) # "lookup"
    BY <1>1, <1>3 DEF Follows
  <2> QED
    BY <1>3, <2>1, <2>2, <2>3 DEF HandlerInv
<1>4. Go(t, r, m)
  BY DEF Continue
<1> QED
  BY <1>3, <1>4, QuietGo

LEMMA ReturnBlocks ==
    ASSUME TypeInv, BlockInv, Single, NEW t \in Thread, Return(t),
           UNCHANGED <<found, dbitmap, inodes>>
    PROVE  BlockInv'
  BY QuietGo DEF Return

LEMMA LookUpBlocks ==
    ASSUME TypeInv, BlockInv, Single, NEW t \in Thread, LookUp(t)
    PROVE  BlockInv'
<1> DEFINE l == loc[t]
           s == todo[t]
           r == Tail(s)
           p == IF l.op \in {"create", "mkdir"} THEN Dirname(l.path) ELSE l.path
           i == Walk(p)
           m == [l EXCEPT !.node = inodes[i]]
<1>1. /\ Busy(t) /\ Head(s) = "lookup" /\ HandlerTypes /\ DiskTypes /\ l \in Local
      /\ Program(s) /\ s # <<>> /\ DiskInv /\ HandlerInv(s, l)
      /\ UNCHANGED <<found, dbitmap, inodes>>
  BY BlockAt, HandlerAt DEF LookUp, At, TypeInv, disk
<1>2. Return(t) \/ (i # Missing /\ Continue(t, m))
  BY DEF LookUp
<1>3. CASE Return(t)
  BY <1>1, <1>3, ReturnBlocks
<1>4. CASE i # Missing /\ Continue(t, m)
  <2>1. i \in Slot
    <3>1. Len(p) \in Nat
      BY <1>1, LookUpPath
    <3> QED
      BY <1>1, <1>4, <3>1, WalkTyped
  <2>2. inodes[i].valid => inodes[inodes[i].ino] = inodes[i] /\ Own(inodes[i])
    BY <1>1, <2>1, LiveInodes DEF DiskInv
  <2>3. m.op = l.op /\ m.node = inodes[i]
    BY <1>1 DEF Local
  <2>4. l.op \in {"create", "mkdir"} => "add" \in Range(r)
    BY <1>1, ProgramTail DEF HandlerInv, CallInv
  <2>5. l.op \in {"read", "write"} => inodes[i].valid
    BY <1>1 DEF HandlerInv, NodeInv, Holds
  <2> HIDE DEF m, i
  <2>6. ASSUME r # <<>> PROVE NodeInv(r, m)
    BY <2>2, <2>3, <2>4, <2>5, <1>1, <2>6, ProgramTail DEF NodeInv, Follows
  <2> QED
    BY <1>1, <1>4, <2>3, <2>6, OutTail, TakenTail, QuietContinue
<1> QED
  BY <1>2, <1>3, <1>4

LEMMA TakeInoBlocks ==
    ASSUME TypeInv, BlockInv, Single, NEW t \in Thread,
           ReadBitmap(t) \/ TakeIno(t)
    PROVE  BlockInv'
<1> DEFINE l == loc[t]
           s == todo[t]
           r == Tail(s)
<1>1. /\ Busy(t) /\ Head(s) \in {"read ibitmap", "take ino", "read dbitmap"}
      /\ HandlerTypes /\ DiskTypes /\ l \in Local
      /\ Program(s) /\ s # <<>> /\ HandlerInv(s, l)
      /\ UNCHANGED <<found, dbitmap, inodes>>
  BY BlockAt, HandlerAt DEF ReadBitmap, TakeIno, At, TypeInv, disk
<1>2. \E m : /\ Continue(t, m) /\ m.op = l.op /\ m.node = l.node /\ m.dir = l.dir
             /\ Head(s) = "read dbitmap" => m.bits = dbitmap
  <2>1. CASE ReadBitmap(t)
    <3>1. PICK b : /\ Continue(t, [l EXCEPT !.bits = b])
                   /\ Head(s) = "read dbitmap" => b = dbitmap
      BY <1>1, <2>1 DEF ReadBitmap, At
    <3> WITNESS [l EXCEPT !.bits = b]
    <3> QED
      BY <1>1, <3>1 DEF Local
  <2>2. CASE TakeIno(t)
    BY <1>1, <2>2 DEF TakeIno, Local, At
  <2> QED
    BY <2>1, <2>2
<1>3. PICK m : /\ Continue(t, m) /\ m.op = l.op /\ m.node = l.node /\ m.dir = l.dir
               /\ Head(s) = "read dbitmap" => m.bits = dbitmap
  BY <1>2
<1>4. ASSUME r # <<>> PROVE TakenInv(r, m)
  <2>1. CASE Head(s) = "read dbitmap"
    <3>1. Head(r) = "take block"
      BY <1>1, <1>4, <2>1, ProgramTail DEF Follows
    <3> QED
      BY <1>1, <1>3, <2>1, <3>1 DEF TakenInv, HandlerInv
  <2>2. CASE Head(s) # "read dbitmap"
    BY <1>1, <1>4, <2>2, TakenTail
  <2> QED
    BY <2>1, <2>2
<1>5. ASSUME r # <<>> PROVE OutInv(r, m) /\ NodeInv(r, m)
  BY <1>1, <1>3, <1>5, OutTail, NodeTail DEF HandlerInv
<1> QED
  BY <1>1, <1>3, <1>4, <1>5, QuietContinue

LEMMA TakeBlockBlocks ==
    ASSUME TypeInv, BlockInv, Single, NEW t \in Thread, TakeBlock(t)
    PROVE  BlockInv'
<1> DEFINE l == loc[t]
           s == todo[t]
           c == LowestClear(l.bits, MaxDnum, NoBlock)
<1>0. PICK b, r, m : b = c /\ r = Tail(s) /\ m = [l EXCEPT !.blk = b]
  OBVIOUS
<1>1. /\ Busy(t) /\ Head(s) = "take block" /\ HandlerTypes /\ DiskTypes /\ l \in Local
      /\ Program(s) /\ s # <<>> /\ DiskInv /\ HandlerInv(s, l)
      /\ Go(t, r, m) /\ UNCHANGED <<found, inodes>>
      /\ dbitmap' = IF b = NoBlock THEN dbitmap ELSE l.bits \cup {b}
  BY <1>0, BlockAt, HandlerAt DEF TakeBlock, At, TypeInv, Continue
<1>2. l.bits = dbitmap
  BY <1>1 DEF HandlerInv, TakenInv
<1>3. b = NoBlock \/ (b \in Block /\ b \notin dbitmap)
  <2>1. \A n \in Nat : \/ LowestClear(l.bits, n, NoBlock) = NoBlock
                       \/ LowestClear(l.bits, n, NoBlock) \in (0..(n - 1)) \ l.bits
    BY LowestClearProperties
  <2> QED
    BY <1>0, <1>2, <2>1, Sizes DEF Block
<1> HIDE DEF c
<1>4. r = Tail(s) /\ m = [l EXCEPT !.blk = b]
  BY <1>0
<1>5. m.op = l.op /\ m.node = l.node /\ m.dir = l.dir /\ m.blk = b
      /\ Pointer(m) = Pointer(l)
  BY <1>1, <1>4 DEF Local, Pointer
<1>6. dbitmap \subseteq dbitmap' /\ (b # NoBlock => b \in dbitmap')
  BY <1>1, <1>2
<1>7. Live' = Live
  BY <1>1 DEF Live
<1>8. ASSUME NEW n, Own(n) PROVE Own(n)' /\ (b \in Block => b \notin Uses(n))
  <2>1. Uses(n) \subseteq DataBlock \cap dbitmap'
    BY <1>6, <1>8 DEF Own
  <2>2. \A i \in Live' \ {n.ino} : Uses(n) \cap Uses(inodes'[i]) = {}
    BY <1>1, <1>7, <1>8 DEF Own
  <2>3. b \in Block => b \notin Uses(n)
    <3>1. b \in Block => b # NoBlock
      BY SizesOfTypes
    <3> QED
      BY <1>3, <1>8, <3>1 DEF Own
  <2> QED
    BY <1>8, <2>1, <2>2, <2>3 DEF Own
<1>9. Live # {} => Formatted /\ Formatted'
  BY <1>1, <1>6 DEF DiskInv, Formatted
<1>10. DiskInv'
  BY <1>1, <1>7, <1>8, <1>9 DEF DiskInv
<1>11. Live # {}
  <2>1. TakenInv(s, l) /\ Head(s) = "take block"
    BY <1>1 DEF HandlerInv
  <2>2. l.op # "write" => l.dir.valid /\ inodes[l.dir.ino] = l.dir
    BY <2>1 DEF TakenInv
  <2>3. l.op = "write" => inodes[l.node.ino].valid
    BY <1>1 DEF HandlerInv, NodeInv
  <2>4. l.dir.ino \in Slot /\ l.node.ino \in Slot
    BY <1>1 DEF Local, Inode
  <2> QED
    BY <2>2, <2>3, <2>4 DEF Live
<1>12. b # NoBlock => Taken(b)'
  <2> SUFFICES ASSUME b # NoBlock PROVE Taken(b)'
    OBVIOUS
  <2>1. b \in DataBlock
    <3>1. b \in Block /\ b \notin Metadata
      BY <1>3, <1>9, <1>11 DEF Formatted
    <3> QED
      BY <3>1, Sizes DEF Block, Metadata, DataBlock
  <2>2. \A i \in Live : b \notin Uses(inodes[i])
    BY <1>1, <1>3, <1>8 DEF DiskInv
  <2>3. \A i \in Live' : b \notin Uses(inodes'[i])
    BY <1>1, <1>7, <2>2
  <2> QED
    BY <1>6, <2>1, <2>3 DEF Taken
<1>13. ASSUME r # <<>> PROVE HandlerInv(r, m)'
  <2>1. Follows("take block", Head(r)) /\ Range(s) = {"take block"} \cup Range(r)
    BY <1>1, <1>4, <1>13, ProgramTail
  <2>2. Head(r) \in {"new block", "fill"}
    BY <2>1 DEF Follows
  <2>3. CallInv(r, m) /\ Range(r) \subseteq StepsOf(l.op)
    BY <1>1, <1>4, <1>5, <1>13, CallTail DEF HandlerInv
  <2>4. CallInv(r, m)'
    BY <2>3 DEF CallInv
  <2>5. MkfsInv(r, m)'
    <3>1. MkfsInv(s, l) /\ Live # {}
      BY <1>1, <1>11 DEF HandlerInv
    <3> QED
      BY <1>1, <1>5, <1>6, <1>7, <1>9, <1>11, <2>1, <3>1 DEF MkfsInv, Formatted
  <2>6. OutInv(r, m)'
    BY <2>2 DEF OutInv, WriteiSteps
  <2>7. NodeInv(r, m) /\ Head(r) # "lookup"
    BY <1>1, <1>4, <1>5, <1>13, <2>2, NodeTail DEF HandlerInv
  <2>8. NodeInv(r, m)'
    BY <1>1, <1>8, <2>7 DEF NodeInv
  <2>9. Head(r) = "fill" => b = NoBlock \/ b \notin Uses(l.node)
    <3>1. Head(r) = "fill" => l.op = "write"
      <4>1. Head(r) \in Range(r)
        BY <1>1, <1>4, <1>13, ProgramTail
      <4>2. Head(r) = "fill" => "fill" \in StepsOf(l.op)
        BY <2>3, <4>1
      <4>3. l.op \in {"none", "mkfs", "create", "mkdir", "read", "write"}
        BY <1>1 DEF Local
      <4>4. "fill" \in StepsOf(l.op) => l.op = "write"
        BY DEF StepsOf, MkfsSteps, CreateSteps, MkdirSteps, NewBlockSteps, WriteiSteps
      <4> QED
        BY <4>2, <4>3, <4>4
    <3>2. l.op = "write" => Own(l.node)
      BY <1>1 DEF HandlerInv, NodeInv
    <3> QED
      BY <1>3, <1>8, <3>1, <3>2
  <2>10. TakenInv(r, m)'
    <3>1. TakenInv(s, l) /\ Head(s) = "take block"
      BY <1>1 DEF HandlerInv
    <3>2. l.op # "write" => l.dir.valid /\ inodes[l.dir.ino] = l.dir
      BY <3>1 DEF TakenInv
    <3>3. inodes' = inodes
      BY <1>1
    <3> QED
      BY ONLY <1>5, <1>12, <2>2, <2>9, <3>2, <3>3 DEF TakenInv
  <2> QED
    BY <2>4, <2>5, <2>6, <2>8, <2>10 DEF HandlerInv
<1> QED
  BY <1>1, <1>4, <1>10, <1>13, BlockGo

LEMMA InodesBlocks ==
    ASSUME TypeInv, BlockInv, Single, NEW t \in Thread, ReadInodes(t)
    PROVE  BlockInv'
<1> DEFINE l == loc[t]
           s == todo[t]
           r == Tail(s)
           m == [l EXCEPT !.buf = [j \in InodeBlock(l.out.ino) |-> inodes[j]]]
<1>1. /\ Busy(t) /\ Head(s) = "read inodes" /\ HandlerTypes /\ l \in Local
      /\ Program(s) /\ s # <<>> /\ HandlerInv(s, l) /\ Continue(t, m)
      /\ UNCHANGED <<found, dbitmap, inodes>>
  BY BlockAt, HandlerAt DEF ReadInodes, At, TypeInv, disk
<1>2. /\ m.op = l.op /\ m.node = l.node /\ m.out = l.out
      /\ \A j \in DOMAIN m.buf : m.buf[j] = inodes[j]
  BY <1>1 DEF Local
<1> HIDE DEF m
<1>3. ASSUME r # <<>> PROVE OutInv(r, m) /\ NodeInv(r, m) /\ TakenInv(r, m)
  <2>1. Head(r) = "write inodes" /\ Range(s) = {Head(s)} \cup Range(r)
    BY <1>1, <1>3, ProgramTail DEF Follows
  <2>2. OutInv(r, m)
    BY <1>1, <1>2, <2>1 DEF OutInv, HandlerInv, WriteiSteps
  <2> QED
    BY <1>1, <1>2, <1>3, <2>2, NodeTail, TakenTail DEF HandlerInv
<1> QED
  BY <1>1, <1>2, <1>3, QuietContinue

\* Steps that set the inode to be written.
LEMMA OutBlocks ==
    ASSUME TypeInv, BlockInv, Single, NEW t \in Thread, Busy(t),
           Head(todo[t]) \in {"new file", "new directory", "root", "link", "new block"},
           NEW m, Continue(t, m), m.op = loc[t].op, m.node = loc[t].node,
           UNCHANGED <<found, dbitmap, inodes>>,
           m.out.valid, Own(m.out), Formatted, "root" \notin Range(Tail(todo[t]))
    PROVE  BlockInv'
<1> DEFINE s == todo[t]
           r == Tail(s)
<1>1. HandlerInv(s, loc[t]) /\ Program(s) /\ s # <<>>
  BY BlockAt, HandlerAt DEF TypeInv
<1>2. ASSUME r # <<>> PROVE OutInv(r, m) /\ NodeInv(r, m) /\ TakenInv(r, m)
  <2>1. Head(r) = "read inodes"
    BY <1>1, <1>2, ProgramTail DEF Follows
  <2>2. OutInv(r, m)
    BY <2>1 DEF OutInv
  <2> QED
    BY <1>1, <1>2, <2>2, NodeTail, TakenTail DEF HandlerInv
<1> QED
  BY <1>2, QuietContinue

LEMMA NewBlockBlocks ==
    ASSUME TypeInv, BlockInv, Single, NEW t \in Thread, NewBlock(t)
    PROVE  BlockInv'
<1> DEFINE l == loc[t]
           s == todo[t]
           r == Tail(s)
           c == Min({j \in Ptr : l.dir.ptr[j] = INVALID})
<1>0. PICK k : k = c
  OBVIOUS
<1> DEFINE o == [l.dir EXCEPT !.ptr[k] = l.blk]
           m == [l EXCEPT !.out = o]
<1>1. /\ Busy(t) /\ Head(s) = "new block" /\ DiskTypes /\ l \in Local
      /\ Program(s) /\ s # <<>> /\ DiskInv /\ HandlerInv(s, l)
      /\ Continue(t, m) /\ UNCHANGED <<found, dbitmap, inodes>>
  BY <1>0, BlockAt, HandlerAt DEF NewBlock, At, TypeInv
<1>2. l.dir \in Inode /\ l.dir.ino \in Slot /\ l.op # "write"
  <2>1. "new block" \in StepsOf(l.op)
    BY <1>1, CallTail DEF HandlerInv
  <2>2. l.op # "write"
    BY <2>1 DEF StepsOf, GetBlkSteps, WriteiSteps
  <2> QED
    BY <1>1, <2>2 DEF Local, Inode
<1>3. /\ l.dir.valid /\ inodes[l.dir.ino] = l.dir
      /\ l.blk = NoBlock \/ Taken(l.blk)
  <2>1. TakenInv(s, l) /\ Head(s) = "new block"
    BY <1>1 DEF HandlerInv
  <2> QED
    BY <1>2, <2>1 DEF TakenInv
<1>4. l.dir.ino \in Live
  BY <1>2, <1>3 DEF Live
<1>5. Own(l.dir) /\ Formatted /\ "root" \notin Range(s)
  BY <1>1, <1>3, <1>4 DEF DiskInv, HandlerInv, MkfsInv
<1>6. l.blk = NoBlock \/ (Taken(l.blk) /\ l.blk \notin Uses(l.dir))
  BY <1>3, <1>4 DEF Taken
<1>7. o.ino = l.dir.ino /\ o.ptr = [l.dir.ptr EXCEPT ![k] = l.blk] /\ o.valid
  BY <1>2, <1>3 DEF Inode
<1>8. m.op = l.op /\ m.node = l.node /\ m.out = o
  BY <1>1 DEF Local
<1> HIDE DEF m, o
<1>9. Own(o)
  BY <1>2, <1>5, <1>6, <1>7, OwnTaken
<1>10. "root" \notin Range(r)
  BY <1>1, <1>5, ProgramTail
<1> QED
  BY <1>1, <1>5, <1>7, <1>8, <1>9, <1>10, OutBlocks

LEMMA NewInodeBlocks ==
    ASSUME TypeInv, BlockInv, Single, NEW t \in Thread, NewInode(t)
    PROVE  BlockInv'
<1> DEFINE l == loc[t]
           s == todo[t]
           n == [inodes[l.ino] EXCEPT !.valid = TRUE, !.ino = l.ino, !.ptr = NoPtrs]
<1>1. /\ Busy(t) /\ Head(s) \in {"new file", "new directory", "root"}
      /\ HandlerTypes /\ DiskTypes /\ l \in Local
      /\ Program(s) /\ s # <<>> /\ DiskInv /\ HandlerInv(s, l)
      /\ UNCHANGED <<found, dbitmap, inodes>>
  BY BlockAt, HandlerAt DEF NewInode, At, TypeInv, disk
<1>2. /\ Range(s) = {Head(s)} \cup Range(Tail(s))
      /\ Range(Tail(s)) \cap {"take ino", "add", "bitmaps", "root"} = {}
  <2>1. \A b \in {"take ino", "add", "bitmaps", "root"} : ~Before(Head(s), b)
    BY <1>1 DEF Before, Past
  <2>2. /\ Range(s) = {Head(s)} \cup Range(Tail(s))
        /\ \A b \in Range(Tail(s)) : Before(Head(s), b)
        /\ Head(s) \in {"new file", "new directory", "root"}
    BY <1>1, ProgramTail
  <2> QED
    BY ONLY <2>1, <2>2
<1>3. l.ino \in Slot
  BY <1>1, <1>2, HandlerAt DEF LocAt
<1>4. n.valid /\ n.ptr = NoPtrs /\ inodes[l.ino] \in Inode /\ n \in Inode
  <2>1. inodes[l.ino] \in Inode
    BY <1>1, <1>3 DEF DiskTypes
  <2>2. NoPtrs \in [Ptr -> Block \cup {NoBlock}]
    BY SizesOfTypes DEF NoPtrs
  <2> QED
    BY <1>3, <2>1, <2>2 DEF Inode
<1> HIDE DEF n
<1>5. PICK o : /\ o = [n EXCEPT !.type = "file", !.size = 0] \/ o = [n EXCEPT !.type = "directory"]
               /\ Continue(t, [l EXCEPT !.out = o])
  BY DEF NewInode, n
<1>6. PICK m : m = [l EXCEPT !.out = o]
  OBVIOUS
<1>7. m.op = l.op /\ m.node = l.node /\ m.out = o /\ o.valid /\ o.ptr = NoPtrs
  BY <1>1, <1>4, <1>5, <1>6 DEF Local, Inode
<1>8. Formatted
  <2>1. Head(s) \in StepsOf(l.op)
    BY <1>1, CallTail DEF HandlerInv
  <2>2. CASE Head(s) = "root"
    <3>1. l.op = "mkfs"
      BY <2>1, <2>2 DEF StepsOf, CreateSteps, MkdirSteps, NewBlockSteps, WriteiSteps, GetBlkSteps
    <3>2. "bitmaps" \notin Range(s)
      BY <1>2, <2>2
    <3>3. MkfsInv(s, l)
      BY <1>1 DEF HandlerInv
    <3> QED
      BY <2>2, <3>1, <3>2, <3>3 DEF MkfsInv, Formatted
  <2>3. CASE Head(s) # "root"
    <3>1. l.op \in {"create", "mkdir"}
      BY <1>1, <2>1, <2>3 DEF StepsOf, MkfsSteps, NewBlockSteps, WriteiSteps, GetBlkSteps
    <3>2. "add" \notin Range(s)
      BY <1>1, <1>2
    <3>3. inodes[l.node.ino].valid /\ l.node.ino \in Slot
      <4>1. NodeInv(s, l)
        BY <1>1 DEF HandlerInv
      <4>2. l.node \in Inode
        BY <1>1 DEF Local
      <4> QED
        BY <3>1, <3>2, <4>1, <4>2 DEF NodeInv, Inode
    <3> QED
      BY <1>1, <3>3 DEF DiskInv, Live
  <2> QED
    BY <2>2, <2>3
<1> QED
  BY <1>1, <1>2, <1>5, <1>6, <1>7, <1>8, OwnNothing, OutBlocks

LEMMA LinkBlocks ==
    ASSUME TypeInv, BlockInv, Single, NEW t \in Thread, LinkParent(t)
    PROVE  BlockInv'
<1> DEFINE l == loc[t]
           s == todo[t]
<1>1. /\ Busy(t) /\ Head(s) = "link" /\ l \in Local
      /\ Program(s) /\ s # <<>> /\ DiskInv /\ HandlerInv(s, l)
      /\ Continue(t, [l EXCEPT !.out = inodes[l.node.ino]])
      /\ UNCHANGED <<found, dbitmap, inodes>>
  BY BlockAt, HandlerAt DEF LinkParent, At, TypeInv, disk
<1>2. PICK m : m = [l EXCEPT !.out = inodes[l.node.ino]]
  OBVIOUS
<1>3. m.op = l.op /\ m.node = l.node /\ m.out = inodes[l.node.ino]
  BY <1>1, <1>2 DEF Local
<1>4. Head(s) \in StepsOf(l.op) /\ NodeInv(s, l) /\ MkfsInv(s, l)
  BY <1>1, CallTail DEF HandlerInv
<1>5. l.op = "mkdir"
  BY <1>1, <1>4 DEF StepsOf, MkfsSteps, CreateSteps, NewBlockSteps, WriteiSteps, GetBlkSteps
<1>6. /\ Range(s) = {Head(s)} \cup Range(Tail(s)) /\ "add" \notin Range(s)
  <2>1. ~Before(Head(s), "add")
    BY <1>1 DEF Before, Past
  <2>2. /\ Range(s) = {Head(s)} \cup Range(Tail(s))
        /\ \A b \in Range(Tail(s)) : Before(Head(s), b)
        /\ Head(s) = "link"
    BY <1>1, ProgramTail
  <2> QED
    BY ONLY <2>1, <2>2
<1>7. l.node.ino \in Live
  <2>1. l.node \in Inode
    BY <1>1 DEF Local
  <2> QED
    BY <1>4, <1>5, <1>6, <2>1 DEF NodeInv, Inode, Live
<1>8. /\ m.out.valid /\ Own(m.out) /\ Formatted /\ "root" \notin Range(Tail(s))
  BY <1>1, <1>3, <1>4, <1>6, <1>7 DEF DiskInv, Live, MkfsInv
<1> QED
  BY <1>1, <1>2, <1>3, <1>8, OutBlocks


\* dir_add: a full directory ends the call of rufs_create or rufs_mkdir.
LEMMA AddBlocks ==
    ASSUME TypeInv, BlockInv, Single, NEW t \in Thread, Busy(t),
           Head(todo[t]) \in {"add", "add dot", "add dotdot"},
           NEW dir, NEW name, NEW ino, AddEntry(t, dir, name, ino),
           dir.valid => inodes[dir.ino] = dir,
           Head(todo[t]) = "add" => dir = loc[t].node
    PROVE  BlockInv'
<1> DEFINE l == loc[t]
           s == todo[t]
           f == [l EXCEPT !.dir = dir, !.entry = [name |-> name, ino |-> ino]]
           P == GetAvailBlkno \o <<"new block">> \o Writei
<1>0. PICK m, r, q : m = f /\ r = Tail(s) /\ q = P \o r
  OBVIOUS
<1>1. /\ l \in Local /\ Program(s) /\ s # <<>> /\ HandlerInv(s, l)
      /\ Range(s) = {Head(s)} \cup Range(r) /\ \A b \in Range(r) : Before(Head(s), b)
      /\ r # <<>> => Follows(Head(s), Head(r))
      /\ HandlerTypes
  BY <1>0, BlockAt, HandlerAt DEF TypeInv
<1>2. /\ \/ Return(t)
         \/ Continue(t, m) /\ (Head(s) = "add" => dir.valid)
         \/ Go(t, q, m) /\ dir.valid
      /\ UNCHANGED <<found, dbitmap, inodes>>
  BY <1>0 DEF AddEntry, At
<1>3. m.op = l.op /\ m.node = l.node /\ m.dir = dir
  BY <1>0, <1>1 DEF Local
<1>4. /\ CallInv(s, l) /\ MkfsInv(s, l) /\ OutInv(s, l) /\ NodeInv(s, l) /\ TakenInv(s, l)
      /\ Head(s) \in StepsOf(l.op)
  BY <1>1, CallTail DEF HandlerInv
<1>5. l.op \in {"mkfs", "create", "mkdir"}
  BY <1>1, <1>4 DEF StepsOf, WriteiSteps, GetBlkSteps, Local
<1>6. "add" \in Range(s) => Head(s) = "add"
  BY <1>1 DEF Before, Past
<1>7. CASE Return(t)
  BY <1>2, <1>7, ReturnBlocks
<1>8. CASE Continue(t, m) /\ (Head(s) = "add" => dir.valid)
  <2>1. ASSUME r # <<>> PROVE NodeInv(r, m)
    <3>1. CASE Head(s) = "add"
      <4>1. Head(r) \in {"new file", "new directory"}
        BY <1>1, <2>1, <3>1 DEF Follows
      <4>2. inodes[m.node.ino].valid
        BY <1>3, <1>8, <3>1
      <4> QED
        BY <1>3, <1>5, <4>1, <4>2 DEF NodeInv
    <3>2. CASE Head(s) # "add"
      BY <1>0, <1>1, <1>3, <1>4, <2>1, <3>2, NodeTail
    <3> QED
      BY <3>1, <3>2
  <2>2. ASSUME r # <<>> PROVE OutInv(r, m) /\ TakenInv(r, m)
    BY <1>0, <1>1, <2>2, OutTail, TakenTail
  <2> QED
    BY <1>0, <1>2, <1>3, <1>8, <2>1, <2>2, QuietContinue
<1>9. CASE Go(t, q, m) /\ dir.valid
  <2>1. /\ q # <<>> /\ Head(q) = "read dbitmap"
        /\ Range(q) = NewBlockSteps \cup Range(r)
    BY <1>0, <1>1, AddSteps
  <2>2. \A x : x \notin NewBlockSteps => (x \in Range(q) <=> x \in Range(r))
    BY <2>1
  <2>3. CallInv(q, m)
    <3>1. Range(r) \cap {"format", "clear inodes", "bitmaps"} = {}
      BY <1>1 DEF Before, Past
    <3>2. Range(q) \cap {"format", "clear inodes", "bitmaps"} = {}
      BY <2>1, <3>1 DEF NewBlockSteps
    <3>3. Range(q) \subseteq StepsOf(m.op)
      <4>1. Range(r) \subseteq StepsOf(m.op)
        BY <1>1, <1>3, <1>4 DEF CallInv
      <4>2. NewBlockSteps \subseteq StepsOf(m.op)
        BY <1>3, <1>5 DEF StepsOf
      <4> QED
        BY <2>1, <4>1, <4>2
    <3> QED
      BY <2>1, <3>2, <3>3 DEF CallInv
  <2>4. MkfsInv(q, m)
    <3>1. \A x \in {"root", "bitmaps"} : x \in Range(q) <=> x \in Range(s)
      BY <1>1, <2>1 DEF NewBlockSteps
    <3>2. m.op = "mkfs" => Head(s) # "format"
      OBVIOUS
    <3> QED
      BY <1>3, <1>4, <3>1, <3>2 DEF MkfsInv
  <2>5. OutInv(q, m)
    BY <2>1 DEF OutInv, WriteiSteps
  <2>6. NodeInv(q, m)
    <3>1. "add" \in Range(q) <=> "add" \in Range(r)
      BY <2>2 DEF NewBlockSteps
    <3>2. Head(s) = "add" => inodes[l.node.ino].valid
      BY <1>9
    <3>3. l.op \in {"create", "mkdir"} => inodes[l.node.ino].valid
      BY <1>4, <1>6, <3>2 DEF NodeInv
    <3> QED
      BY <1>3, <1>5, <2>1, <3>3 DEF NodeInv
  <2>7. TakenInv(q, m)
    BY <1>3, <1>9, <2>1 DEF TakenInv
  <2> QED
    BY <1>2, <1>9, <2>1, <2>3, <2>4, <2>5, <2>6, <2>7, QuietGo DEF HandlerInv
<1> QED
  BY <1>2, <1>7, <1>8, <1>9

LEMMA AddsBlocks ==
    ASSUME TypeInv, BlockInv, Single, NEW t \in Thread,
           AddName(t) \/ AddDot(t) \/ AddDotdot(t)
    PROVE  BlockInv'
<1> DEFINE l == loc[t]
           s == todo[t]
<1>1. /\ Busy(t) /\ Head(s) \in {"add", "add dot", "add dotdot"}
      /\ l \in Local /\ LocAt(s, l) /\ HandlerInv(s, l) /\ DiskInv /\ HandlerTypes
      /\ Range(s) = {Head(s)} \cup Range(Tail(s))
      /\ \A b \in Range(Tail(s)) : Before(Head(s), b)
  BY BlockAt, HandlerAt DEF AddName, AddDot, AddDotdot, At, TypeInv
<1>2. OutInv(s, l) /\ NodeInv(s, l) /\ Head(s) \in StepsOf(l.op)
  BY <1>1, HandlerAt, CallTail DEF HandlerInv
<1>3. CASE AddName(t)
  <2>1. Head(s) = "add"
    BY <1>3 DEF AddName, At
  <2>2. l.op \in {"create", "mkdir"}
    BY <1>2, <2>1 DEF StepsOf, MkfsSteps, NewBlockSteps, WriteiSteps, GetBlkSteps
  <2>3. l.node.valid => inodes[l.node.ino] = l.node
    BY <1>2, <2>1, <2>2 DEF NodeInv
  <2> QED
    BY <1>1, <1>3, <2>1, <2>3, AddBlocks DEF AddName
<1>4. CASE AddDot(t)
  <2>1. Head(s) = "add dot"
    BY <1>4 DEF AddDot, At
  <2>2. inodes[l.out.ino] = l.out
    BY <1>2, <2>1 DEF OutInv
  <2> QED
    BY <1>1, <1>4, <2>1, <2>2, AddBlocks DEF AddDot
<1>5. CASE AddDotdot(t)
  <2>1. Head(s) = "add dotdot"
    BY <1>5 DEF AddDotdot, At
  <2>2. "take ino" \notin Range(s)
    BY <1>1, <2>1 DEF Before, Past
  <2>3. l.ino \in Slot
    BY <1>1, <2>2 DEF LocAt
  <2>4. inodes[l.ino].valid => inodes[inodes[l.ino].ino] = inodes[l.ino]
    BY <1>1, <2>3 DEF DiskInv, Live
  <2> QED
    BY <1>1, <1>5, <2>1, <2>4, AddBlocks DEF AddDotdot
<1> QED
  BY <1>3, <1>4, <1>5


\* rufs_mkfs before the root: there are no inodes, so nothing can be shared.
LEMMA FormatBlocks ==
    ASSUME TypeInv, BlockInv, Single, NEW t \in Thread, Format(t) \/ WriteBitmaps(t)
    PROVE  BlockInv'
<1> DEFINE l == loc[t]
           s == todo[t]
<1>0. PICK r, m : r = Tail(s) /\ m = l
  OBVIOUS
<1>1. /\ Head(s) \in {"format", "bitmaps"} /\ Program(s) /\ s # <<>> /\ HandlerInv(s, l)
      /\ Range(s) = {Head(s)} \cup Range(r) /\ HandlerTypes
      /\ r # <<>> => Follows(Head(s), Head(r))
      /\ Go(t, r, m) /\ inodes' = inodes
  BY <1>0, BlockAt, HandlerAt DEF Format, WriteBitmaps, At, TypeInv, Continue
<1>2. /\ CallInv(s, l) /\ MkfsInv(s, l) /\ Head(s) \in StepsOf(l.op)
      /\ r # <<>> => CallInv(r, m)
  BY <1>0, <1>1, CallTail DEF HandlerInv
<1>3. l.op = "mkfs"
  BY <1>1, <1>2 DEF StepsOf, CreateSteps, MkdirSteps, NewBlockSteps, WriteiSteps, GetBlkSteps
<1>4. Live = {} /\ Live' = {}
  <2>1. "root" \in Range(s)
    BY <1>1, <1>2 DEF CallInv
  <2> QED
    BY <1>1, <1>2, <2>1 DEF MkfsInv, Live
<1>5. found' /\ ("bitmaps" \notin Range(r) => Metadata \subseteq dbitmap')
  <2>1. CASE Format(t)
    <3>1. Head(s) = "format" /\ found' /\ dbitmap' = dbitmap
      BY <2>1 DEF Format, At
    <3> QED
      BY <1>1, <1>2, <1>3, <3>1 DEF MkfsInv
  <2>2. CASE WriteBitmaps(t)
    <3>1. Head(s) = "bitmaps" /\ found' = found /\ dbitmap' = Metadata
      BY <2>2 DEF WriteBitmaps, At, Metadata
    <3> QED
      BY <1>2, <1>3, <3>1 DEF MkfsInv
  <2> QED
    BY <2>1, <2>2
<1>6. ASSUME r # <<>> PROVE HandlerInv(r, m)'
  <2>1. Head(r) \in {"clear inodes", "read ibitmap"}
    BY <1>1, <1>6 DEF Follows
  <2>2. CallInv(r, m)'
    BY <1>2, <1>6 DEF CallInv
  <2>3. MkfsInv(r, m)'
    <3>1. Metadata' = Metadata
      BY DEF Metadata
    <3> QED
      BY <1>4, <1>5, <3>1 DEF MkfsInv
  <2>4. OutInv(r, m)' /\ NodeInv(r, m)' /\ TakenInv(r, m)'
    BY <1>0, <1>3, <2>1 DEF OutInv, NodeInv, TakenInv, WriteiSteps
  <2> QED
    BY <2>2, <2>3, <2>4 DEF HandlerInv
<1>7. DiskInv'
  BY <1>4 DEF DiskInv
<1> QED
  BY <1>1, <1>6, <1>7, BlockGo

LEMMA ClearBlocks ==
    ASSUME TypeInv, BlockInv, Single, NEW t \in Thread, ClearInodes(t)
    PROVE  BlockInv'
<1> DEFINE l == loc[t]
           s == todo[t]
<1>0. PICK r, q, m : /\ r = Tail(s) /\ q = Writei \o s
                     /\ m = [l EXCEPT !.out = Blank(l.ino), !.ino = @ + 1]
  OBVIOUS
<1>1. /\ Busy(t) /\ Head(s) = "clear inodes" /\ l \in Local /\ Program(s) /\ s # <<>>
      /\ HandlerInv(s, l) /\ Range(s) = {Head(s)} \cup Range(r) /\ HandlerTypes
      /\ UNCHANGED <<found, dbitmap, inodes>>
  BY <1>0, BlockAt, HandlerAt DEF ClearInodes, At, TypeInv, disk
<1>2. Continue(t, l) \/ (l.ino < MaxInum /\ Go(t, q, m))
  BY <1>0 DEF ClearInodes
<1>3. CallInv(s, l) /\ MkfsInv(s, l) /\ NodeInv(s, l) /\ Head(s) \in StepsOf(l.op)
  BY <1>1, CallTail DEF HandlerInv
<1>4. l.op = "mkfs"
  BY <1>1, <1>3 DEF StepsOf, CreateSteps, MkdirSteps, NewBlockSteps, WriteiSteps, GetBlkSteps
<1>5. CASE Continue(t, l)
  <2>1. ASSUME r # <<>> PROVE OutInv(r, l) /\ NodeInv(r, l) /\ TakenInv(r, l)
    BY <1>0, <1>1, <1>3, <2>1, OutTail, NodeTail, TakenTail
  <2> QED
    BY <1>0, <1>1, <1>5, <2>1, QuietContinue
<1>6. CASE l.ino < MaxInum /\ Go(t, q, m)
  <2>1. /\ q # <<>> /\ Head(q) = "read inodes" /\ Range(q) = WriteiSteps \cup Range(s)
    BY <1>0, <1>1, ClearSteps
  <2>2. m.op = "mkfs" /\ ~m.out.valid
    <3>1. m.op = "mkfs" /\ m.out = Blank(l.ino)
      BY <1>0, <1>1, <1>4 DEF Local
    <3> QED
      BY <3>1 DEF Blank
  <2>3. "root" \in Range(s) /\ "root" \in Range(q)
    BY <1>1, <1>3, <2>1 DEF CallInv
  <2>4. CallInv(q, m)
    <3>1. WriteiSteps \subseteq StepsOf("mkfs")
      BY DEF StepsOf, NewBlockSteps, WriteiSteps
    <3> QED
      BY <1>3, <1>4, <2>1, <2>2, <2>3, <3>1 DEF CallInv
  <2>5. MkfsInv(q, m)
    <3>1. "bitmaps" \in Range(q) <=> "bitmaps" \in Range(s)
      BY <2>1 DEF WriteiSteps
    <3> QED
      BY <1>1, <1>3, <1>4, <2>3, <3>1 DEF MkfsInv
  <2>6. OutInv(q, m)
    BY <2>1, <2>2, <2>3 DEF OutInv
  <2>7. NodeInv(q, m) /\ TakenInv(q, m)
    BY <2>1, <2>2 DEF NodeInv, TakenInv
  <2> QED
    BY <1>1, <1>6, <2>1, <2>4, <2>5, <2>6, <2>7, QuietGo DEF HandlerInv
<1> QED
  BY <1>2, <1>5, <1>6


\* What rufs_read and rufs_write know of the inode they looked up.
LEMMA TransferAt ==
    ASSUME TypeInv, BlockInv, NEW t \in Thread, Busy(t),
           Head(todo[t]) \in {"read", "write", "fill"}
    PROVE  /\ loc[t] \in Local /\ loc[t].op \in {"read", "write"}
           /\ Head(todo[t]) # "read" => loc[t].op = "write"
           /\ loc[t].node \in Inode /\ loc[t].node.valid /\ Own(loc[t].node)
           /\ inodes[loc[t].node.ino].valid /\ loc[t].node.ino \in Slot
           /\ Formatted /\ DiskInv /\ HandlerInv(todo[t], loc[t])
<1>1. /\ HandlerTypes /\ DiskInv /\ HandlerInv(todo[t], loc[t]) /\ loc[t] \in Local
      /\ Program(todo[t]) /\ todo[t] # <<>>
  BY BlockAt, HandlerAt DEF TypeInv
<1>2. NodeInv(todo[t], loc[t]) /\ Head(todo[t]) \in StepsOf(loc[t].op)
  BY <1>1, CallTail DEF HandlerInv
<1>3. loc[t].op \in {"read", "write"} /\ (Head(todo[t]) # "read" => loc[t].op = "write")
  BY <1>2 DEF StepsOf, MkfsSteps, CreateSteps, MkdirSteps, NewBlockSteps, WriteiSteps,
              GetBlkSteps
<1>4. loc[t].node.valid /\ Own(loc[t].node) /\ inodes[loc[t].node.ino].valid
  BY <1>2, <1>3 DEF NodeInv
<1>5. loc[t].node \in Inode /\ loc[t].node.ino \in Slot
  BY <1>1 DEF Local, Inode
<1>6. Formatted
  BY <1>1, <1>4, <1>5 DEF DiskInv, Live
<1> QED
  BY <1>1, <1>3, <1>4, <1>5, <1>6

LEMMA WriteOutBlocks ==
    ASSUME TypeInv, BlockInv, Single, NEW t \in Thread, Busy(t),
           Head(todo[t]) \in {"read", "write"}, NEW o, o.valid,
           o.ino = loc[t].node.ino, o.ptr = loc[t].node.ptr,
           Go(t, Writei, [loc[t] EXCEPT !.out = o]),
           UNCHANGED <<found, dbitmap, inodes>>
    PROVE  BlockInv'
<1> DEFINE l == loc[t]
           s == todo[t]
<1>0. PICK q, m : q = Writei /\ m = [l EXCEPT !.out = o]
  OBVIOUS
<1>1. /\ l.op \in {"read", "write"} /\ m.op = l.op /\ m.node = l.node /\ m.out = o
      /\ l.node.valid /\ Own(l.node) /\ inodes[l.node.ino].valid /\ Formatted
  BY <1>0, TransferAt DEF Local
<1>2. Own(o)
  BY <1>1, OwnSame
<1>3. q # <<>> /\ Head(q) = "read inodes" /\ Range(q) = WriteiSteps
  BY <1>0, Pieces DEF Fits
<1>4. CallInv(q, m)
  BY <1>1, <1>3 DEF CallInv, StepsOf, WriteiSteps
<1>5. MkfsInv(q, m)
  BY <1>1, <1>3 DEF MkfsInv, WriteiSteps
<1>6. OutInv(q, m)
  BY <1>1, <1>2, <1>3 DEF OutInv, WriteiSteps
<1>7. NodeInv(q, m) /\ TakenInv(q, m)
  BY <1>1, <1>3 DEF NodeInv, TakenInv
<1> QED
  BY <1>0, <1>3, <1>4, <1>5, <1>6, <1>7, QuietGo DEF HandlerInv

LEMMA ReadFileBlocks ==
    ASSUME TypeInv, BlockInv, Single, NEW t \in Thread, ReadFile(t)
    PROVE  BlockInv'
<1>1. Busy(t) /\ Head(todo[t]) = "read" /\ UNCHANGED <<found, dbitmap, inodes>>
  BY DEF ReadFile, At, disk
<1>2. Return(t) \/ Go(t, Writei, [loc[t] EXCEPT !.out = loc[t].node])
  BY DEF ReadFile
<1>3. loc[t].node.valid
  BY <1>1, TransferAt
<1> QED
  BY <1>1, <1>2, <1>3, ReturnBlocks, WriteOutBlocks

LEMMA WriteLoopBlocks ==
    ASSUME TypeInv, BlockInv, Single, NEW t \in Thread, WriteLoop(t)
    PROVE  BlockInv'
<1> DEFINE l == loc[t]
           s == todo[t]
           o == [l.node EXCEPT !.size = @ + l.done]
           x == IF l.node.ptr[Pointer(l)] = INVALID THEN GetAvailBlkno ELSE <<>>
<1>0. PICK q : q = x \o <<"fill">> \o s
  OBVIOUS
<1>1. /\ Busy(t) /\ Head(s) = "write" /\ UNCHANGED <<found, dbitmap, inodes>>
      /\ Program(s) /\ s # <<>> /\ HandlerTypes
  BY HandlerAt DEF WriteLoop, At, disk, TypeInv
<1>2. Go(t, Writei, [l EXCEPT !.out = o]) \/ Go(t, q, l)
  BY <1>0 DEF WriteLoop
<1>3. /\ l.op = "write" /\ l.node \in Inode /\ l.node.valid /\ Own(l.node)
      /\ inodes[l.node.ino].valid
  BY <1>1, TransferAt
<1>4. CASE Go(t, Writei, [l EXCEPT !.out = o])
  <2>1. o.valid /\ o.ino = l.node.ino /\ o.ptr = l.node.ptr
    BY <1>3 DEF Inode
  <2> QED
    BY <1>1, <1>4, <2>1, WriteOutBlocks
<1>5. CASE Go(t, q, l)
  <2>1. Range(s) = {"write"}
    BY <1>1, TransferLast
  <2>2. /\ q # <<>> /\ Range(q) \subseteq GetBlkSteps \cup {"fill", "write"}
        /\ \/ Head(q) = "read dbitmap"
           \/ Head(q) = "fill" /\ l.node.ptr[Pointer(l)] # INVALID
    BY <1>0, <1>1, <2>1, LoopSteps
  <2>3. CallInv(q, l)
    BY <1>3, <2>2 DEF CallInv, StepsOf, GetBlkSteps
  <2>4. MkfsInv(q, l)
    BY <1>3, <2>2 DEF MkfsInv, GetBlkSteps
  <2>5. OutInv(q, l) /\ NodeInv(q, l)
    BY <1>3, <2>2 DEF OutInv, NodeInv, WriteiSteps
  <2>6. TakenInv(q, l)
    BY <1>3, <2>2 DEF TakenInv
  <2> QED
    BY <1>1, <1>5, <2>2, <2>3, <2>4, <2>5, <2>6, QuietGo DEF HandlerInv
<1> QED
  BY <1>2, <1>4, <1>5

LEMMA FillBlocks ==
    ASSUME TypeInv, BlockInv, Single, NEW t \in Thread, FillBlock(t)
    PROVE  BlockInv'
<1> DEFINE l == loc[t]
           s == todo[t]
           b == IF l.node.ptr[Pointer(l)] = INVALID THEN l.blk ELSE l.node.ptr[Pointer(l)]
           n == Min({l.len - l.done, Cells - Offset(l)})
<1>0. PICK r, k, d : r = Tail(s) /\ k = Pointer(l) /\ d = b
  OBVIOUS
<1> DEFINE m == [l EXCEPT !.node.ptr[k] = d, !.done = @ + n]
<1>1. /\ Busy(t) /\ Head(s) = "fill" /\ UNCHANGED <<found, dbitmap, inodes>>
      /\ Program(s) /\ s # <<>> /\ Continue(t, m)
      /\ HandlerTypes /\ LocAt(s, l) /\ "fill" \in Range(s)
  BY <1>0, HandlerAt DEF FillBlock, At, TypeInv
<1>2. /\ l.op = "write" /\ l \in Local /\ l.node \in Inode /\ l.node.valid /\ Own(l.node)
      /\ inodes[l.node.ino].valid /\ HandlerInv(s, l)
  BY <1>1, TransferAt
<1>3. k \in Ptr
  BY <1>0, <1>1 DEF LocAt
<1> DEFINE o == [l.node EXCEPT !.ptr[k] = d]
<1>4. o.ino = l.node.ino /\ o.valid /\ o.ptr = [l.node.ptr EXCEPT ![k] = d]
  BY <1>2 DEF Inode
<1>5. Own(o)
  <2>1. CASE l.node.ptr[k] = INVALID
    <3>1. TakenInv(s, l)
      BY <1>2 DEF HandlerInv
    <3>2. d = NoBlock \/ (Taken(d) /\ d \notin Uses(l.node))
      BY <1>0, <1>1, <2>1, <3>1 DEF TakenInv
    <3> HIDE DEF o, b
    <3> QED
      BY <1>2, <1>4, <3>2, OwnTaken
  <2>2. CASE l.node.ptr[k] # INVALID
    <3>1. d = l.node.ptr[k]
      BY <1>0, <2>2
    <3>2. l.node.ptr \in [Ptr -> Block \cup {NoBlock}]
      BY <1>2 DEF Inode
    <3>3. o.ptr = l.node.ptr
      BY <1>3, <1>4, <3>1, <3>2
    <3> HIDE DEF o
    <3> QED
      BY <1>2, <1>4, <3>3, OwnSame
  <2> QED
    BY <2>1, <2>2
<1>6. m.op = "write" /\ m.node = o
  BY <1>2 DEF Local
<1> HIDE DEF m, o
<1>7. ASSUME r # <<>> PROVE OutInv(r, m) /\ NodeInv(r, m) /\ TakenInv(r, m)
  <2>1. Head(r) = "write"
    BY <1>0, <1>1, <1>7, HandlerAt DEF Follows
  <2> QED
    BY <1>2, <1>4, <1>5, <1>6, <2>1 DEF OutInv, NodeInv, TakenInv, WriteiSteps
<1> QED
  BY <1>0, <1>1, <1>2, <1>6, <1>7, QuietContinue


\* writei: no data is lost to inode 65535.
LEMMA ShelteredWrite ==
    ASSUME Sheltered, NEW t \in Thread, WriteInodes(t)
    PROVE  UNCHANGED data
  BY DEF Sheltered, WriteInodes, StrayWrite

\* writei: the inodes beside the one it writes are as they were read.
LEMMA WriteInodesEffect ==
    ASSUME TypeInv, BlockInv, NEW t \in Thread, WriteInodes(t)
    PROVE  LET o == loc[t].out
           IN  /\ o.ino \in Slot
               /\ \A j \in Slot : inodes'[j] = IF j = o.ino THEN o ELSE inodes[j]
               /\ Live' = (Live \ {o.ino}) \cup (IF o.valid THEN {o.ino} ELSE {})
<1> DEFINE l == loc[t]
<1>0. PICK o : o = l.out
  OBVIOUS
<1>1. /\ Busy(t) /\ Head(todo[t]) = "write inodes" /\ l \in Local
      /\ HandlerInv(todo[t], l)
      /\ inodes' = [j \in Slot |-> IF j = o.ino THEN o
                                   ELSE IF j \in DOMAIN l.buf THEN l.buf[j]
                                   ELSE inodes[j]]
  BY <1>0, BlockAt, HandlerAt DEF WriteInodes, At, TypeInv
<1>2. OutInv(todo[t], l) /\ o \in Inode
  BY <1>0, <1>1 DEF HandlerInv, Local
<1>3. \A j \in DOMAIN l.buf : l.buf[j] = inodes[j]
  BY <1>1, <1>2 DEF OutInv
<1>4. o.ino \in Slot
  BY <1>2 DEF Inode
<1>5. \A j \in Slot : inodes'[j] = IF j = o.ino THEN o ELSE inodes[j]
  BY <1>1, <1>3
<1>6. Live' = {j \in Slot : inodes'[j].valid}
  BY DEF Live
<1>7. \A j : j \in Live' <=> j \in (Live \ {o.ino}) \cup (IF o.valid THEN {o.ino} ELSE {})
  BY <1>4, <1>5, <1>6 DEF Live
<1>8. Live' = (Live \ {o.ino}) \cup (IF o.valid THEN {o.ino} ELSE {})
  BY <1>7
<1> QED
  BY <1>0, <1>4, <1>5, <1>8

LEMMA WriteInodesBlocks ==
    ASSUME TypeInv, BlockInv, Single, NEW t \in Thread, WriteInodes(t)
    PROVE  BlockInv'
<1> DEFINE l == loc[t]
           s == todo[t]
<1>0. PICK o, r, m : o = l.out /\ r = Tail(s) /\ m = l
  OBVIOUS
<1>1. /\ Busy(t) /\ Head(s) = "write inodes" /\ Program(s) /\ s # <<>> /\ m \in Local
      /\ DiskInv /\ HandlerInv(s, m) /\ HandlerTypes
      /\ Range(s) = {Head(s)} \cup Range(r)
      /\ r # <<>> => Follows(Head(s), Head(r)) /\ Head(r) \in Range(r)
      /\ Go(t, r, m) /\ UNCHANGED <<found, dbitmap>>
  BY <1>0, BlockAt, HandlerAt DEF WriteInodes, At, TypeInv, Continue
<1>2. /\ o.ino \in Slot
      /\ \A j \in Slot : inodes'[j] = IF j = o.ino THEN o ELSE inodes[j]
      /\ Live' = (Live \ {o.ino}) \cup (IF o.valid THEN {o.ino} ELSE {})
  BY <1>0, WriteInodesEffect
<1>3. /\ CallInv(s, m) /\ MkfsInv(s, m) /\ OutInv(s, m) /\ NodeInv(s, m)
      /\ Range(r) \subseteq StepsOf(m.op)
      /\ r # <<>> => CallInv(r, m)
  BY <1>0, <1>1, CallTail DEF HandlerInv
<1>4. IF "root" \in Range(s) THEN ~o.valid ELSE o.valid /\ Own(o) /\ Formatted
  BY <1>0, <1>1, <1>3 DEF OutInv, WriteiSteps
<1>5. Formatted' <=> Formatted
  BY <1>1 DEF Formatted
<1>6. CASE "root" \in Range(s)
  <2>1. Live = {} /\ Live' = {}
    BY <1>2, <1>3, <1>4, <1>6 DEF MkfsInv
  <2>2. DiskInv'
    BY <2>1 DEF DiskInv
  <2>3. m.op = "mkfs"
    <3>1. "root" \in StepsOf(m.op)
      BY <1>3, <1>6 DEF CallInv
    <3> QED
      BY <3>1 DEF StepsOf, CreateSteps, MkdirSteps, NewBlockSteps, WriteiSteps, GetBlkSteps
  <2>4. ASSUME r # <<>> PROVE HandlerInv(r, m)'
    <3>1. Head(r) \notin WriteiSteps \cup {"read dbitmap", "take block", "new block", "fill"}
      BY <1>1, <2>4 DEF Follows, WriteiSteps
    <3>2. CallInv(r, m)'
      BY <1>3, <2>4 DEF CallInv
    <3>3. MkfsInv(r, m)'
      BY <1>1, <1>3, <2>1 DEF MkfsInv
    <3>4. inodes'[m.out.ino] = m.out
      BY <1>0, <1>2
    <3>5. OutInv(r, m)'
      BY <3>1, <3>4 DEF OutInv, WriteiSteps
    <3>6. NodeInv(r, m)' /\ TakenInv(r, m)'
      BY <2>3, <3>1 DEF NodeInv, TakenInv
    <3> QED
      BY <3>2, <3>3, <3>5, <3>6 DEF HandlerInv
  <2> QED
    BY <1>1, <2>2, <2>4, BlockGo
<1>7. CASE "root" \notin Range(s)
  <2>1. /\ o.valid /\ Own(o) /\ Formatted /\ Formatted'
        /\ Live' = (Live \ {o.ino}) \cup {o.ino}
    BY <1>2, <1>4, <1>5, <1>7
  <2>2. Own(o)'
    <3>1. Uses(o) \subseteq DataBlock \cap dbitmap'
      BY <1>1, <2>1 DEF Own
    <3>2. \A i \in Live' \ {o.ino} : Uses(o) \cap Uses(inodes'[i]) = {}
      <4> SUFFICES ASSUME NEW i \in Live' \ {o.ino} PROVE Uses(o) \cap Uses(inodes'[i]) = {}
        OBVIOUS
      <4>1. i \in Live \ {o.ino} /\ inodes'[i] = inodes[i]
        BY <1>2, <2>1 DEF Live
      <4>2. Uses(o) \cap Uses(inodes[i]) = {}
        BY <2>1, <4>1 DEF Own
      <4> QED
        BY <4>1, <4>2
    <3> QED
      BY <2>1, <3>1, <3>2 DEF Own
  <2>3. ASSUME NEW i \in Live \ {o.ino}
        PROVE  inodes'[i] = inodes[i] /\ inodes[i].ino = i /\ Own(inodes[i])'
    <3>1. i \in Slot /\ inodes'[i] = inodes[i]
      BY <1>2, <2>3 DEF Live
    <3>2. inodes[i].ino = i /\ Own(inodes[i])
      BY <1>1, <2>3 DEF DiskInv
    <3>3. PICK n : n = inodes[i]
      OBVIOUS
    <3>4. Uses(n) \subseteq DataBlock \cap dbitmap'
      BY <1>1, <3>2, <3>3 DEF Own
    <3>5. \A j \in Live' \ {n.ino} : Uses(n) \cap Uses(inodes'[j]) = {}
      <4> SUFFICES ASSUME NEW j \in Live', j # i PROVE Uses(n) \cap Uses(inodes'[j]) = {}
        BY <3>2, <3>3
      <4>1. CASE j = o.ino
        <5>1. Uses(o) \cap Uses(n) = {}
          BY <2>1, <2>3, <3>3 DEF Own
        <5> QED
          BY <1>2, <4>1, <5>1
      <4>2. CASE j # o.ino
        <5>1. j \in Live /\ inodes'[j] = inodes[j]
          BY <1>2, <2>1, <4>2 DEF Live
        <5>2. Uses(n) \cap Uses(inodes[j]) = {}
          BY <3>2, <3>3, <5>1 DEF Own
        <5> QED
          BY <5>1, <5>2
      <4> QED
        BY <4>1, <4>2
    <3>6. Own(n)'
      BY <3>2, <3>3, <3>4, <3>5 DEF Own
    <3> QED
      BY <3>1, <3>2, <3>3, <3>6
  <2>4. DiskInv'
    <3> SUFFICES ASSUME NEW i \in Live' PROVE inodes'[i].ino = i /\ Own(inodes[i])'
      BY <2>1 DEF DiskInv
    <3>1. CASE i = o.ino
      BY <1>2, <2>2, <3>1
    <3>2. CASE i # o.ino
      BY <2>1, <2>3, <3>2
    <3> QED
      BY <3>1, <3>2
  <2>5. ASSUME r # <<>> PROVE HandlerInv(r, m)'
    <3>1. /\ Head(r) \notin WriteiSteps \cup {"read dbitmap", "take block", "new block", "fill"}
          /\ Head(r) \notin {"lookup", "read ibitmap", "take ino", "add"}
          /\ Head(r) \in {"clear inodes", "new file", "new directory", "add dot",
                          "add dotdot", "link"}
      BY <1>1, <2>5 DEF Follows, WriteiSteps
    <3>2. CallInv(r, m)'
      BY <1>3, <2>5 DEF CallInv
    <3>3. MkfsInv(r, m)'
      BY <1>1, <1>3, <1>7 DEF MkfsInv
    <3>4. inodes'[m.out.ino] = m.out
      BY <1>0, <1>2
    <3>5. OutInv(r, m)'
      BY <3>1, <3>4 DEF OutInv
    <3>6. TakenInv(r, m)'
      BY <3>1 DEF TakenInv
    <3>7. m.op \notin {"read", "write"}
      BY <1>1, <1>3, <2>5, <3>1 DEF StepsOf, WriteiSteps, GetBlkSteps
    <3>8. ASSUME m.op \in {"create", "mkdir"}, "add" \notin Range(r)
          PROVE  inodes'[m.node.ino].valid
      <4>1. inodes[m.node.ino].valid
        BY <1>1, <1>3, <3>8 DEF NodeInv
      <4>2. m.node.ino \in Slot
        BY <1>1 DEF Local, Inode
      <4> QED
        BY <1>2, <2>1, <4>1, <4>2
    <3>9. NodeInv(r, m)'
      BY <3>1, <3>7, <3>8 DEF NodeInv
    <3> QED
      BY <3>2, <3>3, <3>5, <3>6, <3>9 DEF HandlerInv
  <2> QED
    BY <1>1, <2>4, <2>5, BlockGo
<1> QED
  BY <1>6, <1>7


\* What a path leads to depends on inodes and directories.
Earliest(S) == CHOOSE at \in S : \A b \in S : at[1] < b[1] \/ (at[1] = b[1] /\ at[2] <= b[2])

LEMMA DirFindIs ==
    ASSUME NEW i, NEW name
    PROVE  DirFind(i, name) =
              IF ~inodes[i].valid \/ Matches(i, name) = {} THEN Missing
              ELSE EntryAt(inodes[i], Earliest(Matches(i, name))).ino
  BY DEF DirFind, Matches, Earliest

LEMMA DirFindSame ==
    ASSUME NEW i, NEW name
    PROVE  UNCHANGED <<inodes, data>> => DirFind(i, name)' = DirFind(i, name)
<1>1. DirFind(i, name) =
         IF ~inodes[i].valid \/ Matches(i, name) = {} THEN Missing
         ELSE EntryAt(inodes[i], Earliest(Matches(i, name))).ino
  BY DirFindIs
<1>2. (DirFind(i, name) =
         IF ~inodes[i].valid \/ Matches(i, name) = {} THEN Missing
         ELSE EntryAt(inodes[i], Earliest(Matches(i, name))).ino)'
  BY <1>1, PTL
<1> SUFFICES ASSUME UNCHANGED <<inodes, data>> PROVE DirFind(i, name)' = DirFind(i, name)
  OBVIOUS
<1>3. \A dir, at : EntryAt(dir, at)' = EntryAt(dir, at)
  BY DEF EntryAt, BioRead
<1>4. Matches(i, name)' = Matches(i, name)
  BY <1>3 DEF Matches
<1> QED
  BY <1>1, <1>2, <1>3, <1>4

LEMMA WalkSame ==
    ASSUME NEW path, Len(path) \in Nat
    PROVE  UNCHANGED <<inodes, data>> => Walk(path)' = Walk(path)
<1> DEFINE n == Len(path)
<1>1. \E f : IsWalk(f, path, n) /\ Walk(path) = f[n]
  BY WalkSteps
<1>2. (\E f : IsWalk(f, path, n) /\ Walk(path) = f[n])'
  BY <1>1, PTL
<1> SUFFICES ASSUME UNCHANGED <<inodes, data>> PROVE Walk(path)' = Walk(path)
  OBVIOUS
<1>3. PICK f : IsWalk(f, path, n) /\ Walk(path) = f[n]
  BY <1>1
<1>4. PICK g : IsWalk(g, path, n)' /\ Walk(path)' = g[n]
  BY <1>2
<1>5. \A i, name : DirFind(i, name)' = DirFind(i, name)
  BY DirFindSame
<1>6. IsWalk(g, path, n)
  BY <1>4, <1>5 DEF IsWalk
<1> DEFINE S == {k \in Nat : k \in 0..n => f[k] = g[k]}
<1>7. 0 \in S
  BY <1>3, <1>6 DEF IsWalk
<1>8. ASSUME NEW k \in Nat, k \in S PROVE k + 1 \in S
  <2> SUFFICES ASSUME k + 1 \in 0..n PROVE f[k + 1] = g[k + 1]
    OBVIOUS
  <2>1. k + 1 # 0 /\ (k + 1) - 1 = k /\ f[k] = g[k]
    BY <1>8
  <2>2. f[k + 1] = IF f[k] = Missing THEN Missing ELSE DirFind(f[k], path[k + 1])
    BY <1>3, <2>1 DEF IsWalk
  <2>3. g[k + 1] = IF g[k] = Missing THEN Missing ELSE DirFind(g[k], path[k + 1])
    BY <1>6, <2>1 DEF IsWalk
  <2> QED
    BY <2>1, <2>2, <2>3
<1>9. n \in S
  BY <1>7, <1>8, InductionOverNat
<1> QED
  BY <1>3, <1>4, <1>9

LEMMA HoldsSame ==
    ASSUME NEW type, NEW path \in Paths, UNCHANGED <<inodes, data>>
    PROVE  Holds(type, path)' <=> Holds(type, path)
<1>1. Len(path) \in Nat
  BY NamesOfPaths
<1>2. Walk(path)' = Walk(path)
  BY <1>1, WalkSame
<1> QED
  BY <1>2 DEF Holds


LEMMA CallGo ==
    ASSUME TypeInv, BlockInv, Single, NEW t \in Thread, NEW q, NEW m, Go(t, q, m),
           UNCHANGED disk, q # <<>>, HandlerInv(q, m), m.path \in Paths
    PROVE  BlockInv'
<1>1. UNCHANGED <<found, dbitmap, inodes>> /\ UNCHANGED <<inodes, data>>
  BY DEF disk
<1>2. DiskInv'
  BY <1>1, SameDisk DEF BlockInv
<1>3. CallInv(q, m)'
  BY DEF HandlerInv, CallInv
<1>4. MkfsInv(q, m)'
  BY <1>1, SameDisk DEF HandlerInv, MkfsInv
<1>5. OutInv(q, m)'
  BY <1>1, SameDisk DEF HandlerInv, OutInv
<1>6. NodeInv(q, m)'
  <2>1. Holds("file", m.path)' <=> Holds("file", m.path)
    BY <1>1, HoldsSame
  <2> QED
    BY <1>1, <2>1, SameDisk DEF HandlerInv, NodeInv
<1>7. TakenInv(q, m)'
  BY <1>1, SameDisk DEF HandlerInv, TakenInv
<1> QED
  BY <1>2, <1>3, <1>4, <1>5, <1>6, <1>7, BlockGo DEF HandlerInv, TypeInv

LEMMA StillBlocks ==
    ASSUME TypeInv, BlockInv, Single, UNCHANGED <<disk, todo, loc>>
    PROVE  BlockInv'
<1>1. UNCHANGED disk /\ UNCHANGED <<todo, loc>> /\ UNCHANGED <<found, dbitmap, inodes>>
  BY DEF disk
<1>2. CASE \E t \in Thread : todo[t] # <<>>
  <2>1. PICK t \in Thread : todo[t] # <<>>
    BY <1>2
  <2>2. PICK q, m : q = todo[t] /\ m = loc[t]
    OBVIOUS
  <2>3. HandlerInv(q, m) /\ q # <<>> /\ HandlerTypes /\ DiskInv
    BY <2>1, <2>2 DEF BlockInv, TypeInv
  <2>4. Go(t, q, m)
    BY <1>1, <2>2, <2>3 DEF Go, HandlerTypes
  <2>5. CASE Head(q) = "lookup"
    <3>1. m.path \in Paths
      <4>1. LocAt(q, m) /\ "lookup" \in Range(q)
        BY <2>1, <2>2, <2>3, <2>5, HandlerAt DEF Busy
      <4> QED
        BY <4>1 DEF LocAt
    <3> QED
      BY <1>1, <2>3, <2>4, <3>1, CallGo
  <2> QED
    BY <1>1, <2>3, <2>4, <2>5, QuietGo
<1>3. CASE \A t \in Thread : todo[t] = <<>>
  BY <1>1, <1>3, SameDisk DEF BlockInv
<1> QED
  BY <1>2, <1>3

LEMMA CallBlocks ==
    ASSUME TypeInv, BlockInv, Single, NEW t \in Thread, CallStep(t)
    PROVE  BlockInv'
<1>1. CASE Mount(t)
  <2>1. CASE found
    BY <1>1, <2>1, StillBlocks DEF Mount
  <2>2. CASE ~found
    <3>0. PICK q, m : q = Mkfs /\ m = [Rest EXCEPT !.op = "mkfs", !.ino = 1]
      OBVIOUS
    <3>1. Go(t, q, m) /\ UNCHANGED <<found, dbitmap, inodes>>
      BY <1>1, <2>2, <3>0 DEF Mount, disk
    <3>2. q # <<>> /\ Head(q) = "format" /\ Range(q) = MkfsSteps
      BY <3>0, MkfsFits DEF Fits
    <3>3. m.op = "mkfs"
      BY <3>0 DEF Rest
    <3>4. Live = {}
      BY <2>2 DEF BlockInv, DiskInv, Formatted
    <3>5. CallInv(q, m) /\ MkfsInv(q, m)
      BY <3>2, <3>3, <3>4 DEF CallInv, MkfsInv, StepsOf, MkfsSteps
    <3>6. OutInv(q, m) /\ NodeInv(q, m) /\ TakenInv(q, m)
      BY <3>2, <3>3 DEF OutInv, NodeInv, TakenInv, WriteiSteps
    <3> QED
      BY <3>1, <3>2, <3>5, <3>6, QuietGo DEF HandlerInv
  <2> QED
    BY <2>1, <2>2
<1>2. ASSUME NEW op \in {"create", "mkdir"}, NEW path \in Paths, CallNew(t, op, path)
      PROVE  BlockInv'
  <2>0. PICK q, m : /\ q = IF op = "create" THEN Create ELSE Mkdir
                    /\ m = [Rest EXCEPT !.op = op, !.path = path]
    OBVIOUS
  <2>1. Go(t, q, m) /\ UNCHANGED disk
    BY <1>2, <2>0 DEF CallNew
  <2>2. /\ q # <<>> /\ Head(q) = "lookup"
        /\ Range(q) = IF op = "create" THEN CreateSteps ELSE MkdirSteps
    BY <2>0, CreateFits, MkdirFits DEF Fits
  <2>3. m.op = op /\ m.path = path
    BY <2>0 DEF Rest
  <2>4. CallInv(q, m)
    BY <2>2, <2>3 DEF CallInv, StepsOf, CreateSteps, MkdirSteps
  <2>5. MkfsInv(q, m)
    <3>1. m.op # "mkfs"
      BY <2>3
    <3>2. "root" \notin CreateSteps /\ "root" \notin MkdirSteps
      BY DEF CreateSteps, MkdirSteps
    <3>3. "root" \notin Range(q)
      BY <2>2, <3>2
    <3> QED
      BY <3>1, <3>3 DEF MkfsInv
  <2>6. OutInv(q, m) /\ NodeInv(q, m) /\ TakenInv(q, m)
    BY <2>2, <2>3 DEF OutInv, NodeInv, TakenInv, WriteiSteps, CreateSteps, MkdirSteps
  <2> QED
    BY <2>1, <2>2, <2>3, <2>4, <2>5, <2>6, CallGo DEF HandlerInv
<1>3. ASSUME NEW op \in {"read", "write"}, NEW path \in Paths, NEW at, NEW v,
             CallTransfer(t, op, path, at, v)
      PROVE  BlockInv'
  <2>0. PICK q, m : /\ q = <<"lookup", op>>
                    /\ m = [Rest EXCEPT !.op = op, !.path = path, !.off = at[1],
                                        !.len = at[2], !.val = v]
    OBVIOUS
  <2>1. Go(t, q, m) /\ UNCHANGED disk /\ Holds("file", path)
    BY <1>3, <2>0 DEF CallTransfer
  <2>2. q # <<>> /\ Head(q) = "lookup" /\ Range(q) = {"lookup", op}
    BY <2>0, TransferFits DEF Fits
  <2>3. m.op = op /\ m.path = path
    BY <2>0 DEF Rest
  <2>4. CallInv(q, m)
    BY <2>2, <2>3 DEF CallInv, StepsOf
  <2>5. MkfsInv(q, m)
    BY <2>2, <2>3 DEF MkfsInv
  <2>6. OutInv(q, m) /\ NodeInv(q, m) /\ TakenInv(q, m)
    BY <2>1, <2>2, <2>3 DEF OutInv, NodeInv, TakenInv, WriteiSteps
  <2> QED
    BY <2>1, <2>2, <2>3, <2>4, <2>5, <2>6, CallGo DEF HandlerInv
<1> QED
  BY <1>1, <1>2, <1>3 DEF CallStep, Paths

LEMMA EndBlocks ==
    ASSUME TypeInv, BlockInv, Unmount \/ Crash
    PROVE  BlockInv'
<1>1. DiskInv'
  BY SameDisk DEF Unmount, Crash, disk, BlockInv
<1>2. \A t \in Thread : todo'[t] = <<>>
  BY DEF Unmount, Crash, Busy
<1> QED
  BY <1>1, <1>2 DEF BlockInv

LEMMA BlockInit == Init => BlockInv
<1> SUFFICES ASSUME Init PROVE BlockInv
  OBVIOUS
<1>1. Live = {}
  BY DEF Init, Live, Blank
<1>2. \A t \in Thread : todo[t] = <<>>
  BY DEF Init
<1> QED
  BY <1>1, <1>2 DEF BlockInv, DiskInv

LEMMA BlockNext ==
    ASSUME Single
    PROVE  TypeInv /\ BlockInv /\ [Next]_vars => BlockInv'
<1> SUFFICES ASSUME TypeInv, BlockInv, [Next]_vars PROVE BlockInv'
  OBVIOUS
<1>1. CASE UNCHANGED vars
  BY <1>1, StillBlocks DEF vars
<1>2. ASSUME NEW t \in Thread, DiskStep(t) PROVE BlockInv'
  BY <1>2, LookUpBlocks, TakeInoBlocks, TakeBlockBlocks, InodesBlocks, WriteInodesBlocks,
     AddsBlocks, NewBlockBlocks, NewInodeBlocks, LinkBlocks, FormatBlocks, ClearBlocks,
     WriteLoopBlocks, FillBlocks, ReadFileBlocks DEF DiskStep
<1> QED
  BY <1>1, <1>2, CallBlocks, EndBlocks DEF Next

LEMMA BlockInvariant ==
    ASSUME Single
    PROVE  Spec => []BlockInv
  BY TypeInvariant, BlockInit, BlockNext, PTL DEF Spec

\* Blocks are never shared and never metadata, and those in use are marked, as long as one
\* handler runs at a time (FUSE with -s): wherever a crash cuts a call short, rufs_mkfs
\* included, and however full the disk is, but for what follows when inodes have run out and
\* inode 65535 lies in a data block (get_avail_blkno, writei, dir_add, rufs_write,
\* rufs_mkfs).  The run rufs_race shows what two handlers do.
THEOREM BlocksCorrect ==
    ASSUME Single
    PROVE  Spec /\ []Sheltered => []BlocksApart
<1>1. TypeInv /\ BlockInv => BlocksApart
  <2> SUFFICES ASSUME TypeInv, BlockInv PROVE BlocksApart
    OBVIOUS
  <2>1. ASSUME NEW x \in Pointers
        PROVE  /\ x[1] \in Live /\ x[2] \in Ptr /\ Target(x) = inodes[x[1]].ptr[x[2]]
               /\ Target(x) \in Uses(inodes[x[1]])
               /\ inodes[x[1]].ino = x[1] /\ Own(inodes[x[1]])
    BY <2>1 DEF Pointers, Target, Live, Uses, BlockInv, DiskInv
  <2>2. ASSUME NEW x \in Pointers PROVE Target(x) \in DataBlock \cap dbitmap
    BY <2>1 DEF Own
  <2>3. ASSUME NEW x \in Pointers, NEW y \in Pointers, Target(x) = Target(y) PROVE x = y
    <3>1. CASE x[1] = y[1]
      <4>1. x[2] = y[2]
        BY <2>1, <2>3, <3>1 DEF Own
      <4>2. x \in Slot \X Ptr /\ y \in Slot \X Ptr
        BY DEF Pointers
      <4> QED
        BY <3>1, <4>1, <4>2
    <3>2. CASE x[1] # y[1]
      <4>1. y[1] \in Live \ {inodes[x[1]].ino}
        BY <2>1, <3>2
      <4>2. Uses(inodes[x[1]]) \cap Uses(inodes[y[1]]) = {}
        BY <2>1, <4>1 DEF Own
      <4> QED
        BY <2>1, <2>3, <4>2
    <3> QED
      BY <3>1, <3>2
  <2> QED
    BY <2>2, <2>3 DEF BlocksApart
<1> QED
  BY <1>1, BlockInvariant, TypeInvariant, PTL


-----------------------------------------------------------------------------
(* One handler at a time: names.                                           *)

NamesIn(n) == {a \in EntriesAt(n) : EntryAt(n, a).name \in Names}

(* An inode that was taken and has no name; a name that a directory lacks; *)
(* an entry that gives such a name to such an inode.                       *)
Unnamed(i) == i = NoIno \/ (i \in ibitmap \ {Root} /\ \A x \in NamesAt : Named(x).ino # i)
Absent(d, name) == \A x \in NamesAt : x[1] = d => Named(x).name # name
Fresh(d, e) == e.name \in Names => Unnamed(e.ino) /\ Absent(d, e.name)

(* The names of a copy of an inode that are on the disk; at most one is    *)
(* not, and is fresh.                                                      *)
Kept(n) == {a \in NamesIn(n) : <<n.ino, a>> \in NamesAt /\ Named(<<n.ino, a>>) = EntryAt(n, a)}
OutNames(n) ==
    n.valid /\ n.type = "directory" =>
       \A a \in NamesIn(n) \ Kept(n) :
          Fresh(n.ino, EntryAt(n, a)) /\ \A b \in NamesIn(n) \ Kept(n) : a = b

(* The inode bitmap, until get_avail_ino has written it.                   *)
BitsNames(s, l) ==
    /\ Head(s) = "take ino" => l.bits = ibitmap
    /\ "bitmaps" \in Range(s) => "take ino" \in Range(s)
    /\ l.op = "mkfs" /\ "bitmaps" \notin Range(s) /\ "take ino" \in Range(s) => ibitmap = {}
    /\ l.op = "mkfs" /\ "take ino" \notin Range(s) => Root \in ibitmap

(* What was looked up.                                                     *)
PathNames(s, l) ==
    /\ l.op \in {"create", "mkdir"} =>
          /\ Head(s) = "lookup" => Walk(l.path) = Missing
          /\ Head(s) \in {"read ibitmap", "take ino", "add"} /\ l.node.valid =>
                Absent(l.node.ino, Basename(l.path))
          /\ Head(s) = "add" /\ l.node.valid => Unnamed(l.ino)
    /\ l.op \in {"read", "write"} /\ Head(s) # "lookup" =>
          l.node.type = "file" /\ inodes[l.node.ino].type = "file"

(* The entry on its way into a directory.                                  *)
PlaceNames(s, l) ==
    /\ Head(s) \in {"read dbitmap", "take block", "new block"} /\ l.op # "write" =>
          Fresh(l.dir.ino, l.entry)
    /\ Head(s) \in WriteiSteps => OutNames(l.out) /\ (l.out.valid => Root \in ibitmap)

NameInv(s, l) == BitsNames(s, l) /\ PathNames(s, l) /\ PlaceNames(s, l)

NamesInv ==
    /\ InodesApart
    /\ Live # {} => Root \in ibitmap
    /\ \A t \in Thread : todo[t] # <<>> => NameInv(todo[t], loc[t])

LEMMA Dots == \A name \in Names : name \notin {".", ".."}
  BY RufsAssumption DEF Names, Paths

\* Where the names of a directory lie.
LEMMA NamesPlaces ==
    /\ \A i, a : <<i, a>> \in NamesAt <=> /\ i \in Slot /\ inodes[i].valid
                                          /\ inodes[i].type = "directory"
                                          /\ a \in NamesIn(inodes[i])
    /\ \A x \in NamesAt : x = <<x[1], x[2]>>
    /\ \A i, a : Named(<<i, a>>) = EntryAt(inodes[i], a)
<1>1. ASSUME NEW i, NEW a
      PROVE  <<i, a>> \in NamesAt <=> /\ i \in Slot /\ inodes[i].valid
                                      /\ inodes[i].type = "directory"
                                      /\ a \in NamesIn(inodes[i])
  BY DEF NamesAt, NamesIn
<1>2. ASSUME NEW x \in NamesAt PROVE x = <<x[1], x[2]>>
  BY <1>2 DEF NamesAt
<1>3. ASSUME NEW i, NEW a PROVE Named(<<i, a>>) = EntryAt(inodes[i], a)
  BY DEF Named
<1> QED
  BY <1>1, <1>2, <1>3

\* Where inodes and data stay, names do.
LEMMA NamesStay ==
    ASSUME UNCHANGED <<inodes, data>>
    PROVE  /\ NamesAt' = NamesAt /\ Live' = Live
           /\ \A n, a : EntryAt(n, a)' = EntryAt(n, a)
           /\ \A x : Named(x)' = Named(x)
           /\ \A n : NamesIn(n)' = NamesIn(n) /\ Kept(n)' = Kept(n)
           /\ \A d, name : Absent(d, name)' <=> Absent(d, name)
<1>1. \A n, a : EntryAt(n, a)' = EntryAt(n, a)
  BY DEF EntryAt, BioRead
<1>2. ASSUME NEW n PROVE EntriesAt(n)' = EntriesAt(n)
  BY <1>1 DEF EntriesAt
<1>3. \A n : NamesIn(n)' = NamesIn(n)
  BY <1>1, <1>2 DEF NamesIn
<1>4. \A x : Named(x)' = Named(x)
  BY <1>1 DEF Named
<1>5. NamesAt' = NamesAt
  BY <1>1, <1>2 DEF NamesAt
<1>6. \A n : Kept(n)' = Kept(n)
  BY <1>1, <1>3, <1>4, <1>5 DEF Kept
<1>7. \A d, name : Absent(d, name)' <=> Absent(d, name)
  BY <1>4, <1>5 DEF Absent
<1> QED
  BY <1>1, <1>3, <1>4, <1>5, <1>6, <1>7 DEF Live


LEMMA NamesFrame ==
    ASSUME UNCHANGED <<inodes, data, ibitmap>>
    PROVE  /\ \A i : Unnamed(i)' <=> Unnamed(i)
           /\ \A d, e : Fresh(d, e)' <=> Fresh(d, e)
           /\ \A n : OutNames(n)' <=> OutNames(n)
           /\ InodesApart' <=> InodesApart
<1>1. NamesAt' = NamesAt /\ \A x : Named(x)' = Named(x)
  BY NamesStay
<1>2. \A i : Unnamed(i)' <=> Unnamed(i)
  BY <1>1 DEF Unnamed
<1>3. \A d, e : Fresh(d, e)' <=> Fresh(d, e)
  BY <1>2, NamesStay DEF Fresh
<1>4. ASSUME NEW n PROVE OutNames(n)' <=> OutNames(n)
  <2>1. NamesIn(n)' = NamesIn(n) /\ Kept(n)' = Kept(n) /\ \A a : EntryAt(n, a)' = EntryAt(n, a)
    BY NamesStay
  <2> QED
    BY <1>3, <2>1 DEF OutNames
<1>5. InodesApart' <=> InodesApart
  BY <1>1 DEF InodesApart
<1> QED
  BY <1>2, <1>3, <1>4, <1>5

\* A step that adds at most one name, and a fresh one.
LEMMA NamesGrow ==
    ASSUME InodesApart, ibitmap \subseteq ibitmap', NEW d, NEW e, Fresh(d, e),
           \A x \in NamesAt' : \/ x \in NamesAt /\ Named(x)' = Named(x)
                               \/ x[1] = d /\ Named(x)' = e,
           \A x, y \in NamesAt' : \/ x \in NamesAt /\ Named(x)' = Named(x)
                                  \/ y \in NamesAt /\ Named(y)' = Named(y)
                                  \/ x = y
    PROVE  InodesApart'
<1> DEFINE Old(x) == x \in NamesAt /\ Named(x)' = Named(x)
<1>1. \A x \in NamesAt' : Named(x)'.name \in Names
  <2> SUFFICES ASSUME NEW x \in NamesAt' PROVE Named(x)'.name \in Names
    OBVIOUS
  <2>1. /\ x = <<x[1], x[2]>>
        /\ x[2] \in NamesIn(inodes[x[1]])'
    BY DEF NamesAt, NamesIn
  <2>2. EntryAt(inodes[x[1]], x[2])'.name \in Names
    BY <2>1 DEF NamesIn
  <2> QED
    BY <2>2 DEF Named
<1>2. ASSUME NEW x \in NamesAt', ~Old(x)
      PROVE  /\ x[1] = d /\ Named(x)' = e /\ e.name \in Names
             /\ Unnamed(e.ino) /\ Absent(d, e.name)
  BY <1>1, <1>2 DEF Fresh
<1>3. ASSUME NEW x \in NamesAt', Named(x)'.ino # NoIno
      PROVE  Named(x)'.ino \in ibitmap' \ {Root}
  <2>1. CASE Old(x)
    BY <1>3, <2>1 DEF InodesApart
  <2>2. CASE ~Old(x)
    BY <1>2, <1>3, <2>2 DEF Unnamed
  <2> QED
    BY <2>1, <2>2
<1>4. ASSUME NEW x \in NamesAt', NEW y \in NamesAt', x # y
      PROVE  /\ Named(x)'.ino = Named(y)'.ino => Named(x)'.ino = NoIno
             /\ x[1] = y[1] => Named(x)'.name # Named(y)'.name
  <2>1. CASE Old(x) /\ Old(y)
    BY <1>4, <2>1 DEF InodesApart
  <2>2. CASE Old(x) /\ ~Old(y)
    BY <1>2, <2>2 DEF Unnamed, Absent
  <2>3. CASE ~Old(x) /\ Old(y)
    BY <1>2, <2>3 DEF Unnamed, Absent
  <2> QED
    BY <1>4, <2>1, <2>2, <2>3
<1> QED
  BY <1>3, <1>4 DEF InodesApart

\* A step that adds none.
LEMMA NamesShrink ==
    ASSUME InodesApart, ibitmap \subseteq ibitmap',
           \A x \in NamesAt' : x \in NamesAt /\ Named(x)' = Named(x)
    PROVE  /\ InodesApart'
           /\ \A i : Unnamed(i) => Unnamed(i)'
           /\ \A d, name : Absent(d, name) => Absent(d, name)'
           /\ \A d, e : Fresh(d, e) => Fresh(d, e)'
<1>1. InodesApart'
  BY DEF InodesApart
<1>2. \A i : Unnamed(i) => Unnamed(i)'
  BY DEF Unnamed
<1>3. \A d, name : Absent(d, name) => Absent(d, name)'
  BY DEF Absent
<1> QED
  BY <1>1, <1>2, <1>3 DEF Fresh

LEMMA NamesGo ==
    ASSUME HandlerTypes, Single, NEW t \in Thread, NEW q, NEW m, Go(t, q, m),
           InodesApart', Live' # {} => Root \in ibitmap',
           q # <<>> => NameInv(q, m)'
    PROVE  NamesInv'
<1>1. todo'[t] = q /\ (q # <<>> => loc'[t] = m)
  BY DEF Go, HandlerTypes
<1>2. ASSUME NEW u \in Thread, todo'[u] # <<>> PROVE NameInv(todo[u], loc[u])'
  <2>1. u = t
    BY DEF Single
  <2> QED
    BY <1>1, <1>2, <2>1
<1> QED
  BY <1>2 DEF NamesInv

\* A step that leaves inodes, data and inode bitmap alone.
LEMMA QuietNamesGo ==
    ASSUME TypeInv, NamesInv, Single, NEW t \in Thread, NEW q, NEW m, Go(t, q, m),
           UNCHANGED <<inodes, data, ibitmap>>,
           q # <<>> => /\ NameInv(q, m)
                       /\ Head(q) = "lookup" => m.path \in Paths
    PROVE  NamesInv'
<1>1. InodesApart' /\ (Live' # {} => Root \in ibitmap')
  BY NamesFrame, NamesStay DEF NamesInv
<1>2. ASSUME q # <<>> PROVE NameInv(q, m)'
  <2>1. NameInv(q, m)
    BY <1>2
  <2>2. BitsNames(q, m)'
    BY <2>1 DEF NameInv, BitsNames
  <2>3. PathNames(q, m)'
    <3>1. Head(q) = "lookup" => Walk(m.path)' = Walk(m.path)
      <4> SUFFICES ASSUME Head(q) = "lookup" PROVE Walk(m.path)' = Walk(m.path)
        OBVIOUS
      <4>1. Len(m.path) \in Nat
        BY <1>2, NamesOfPaths
      <4> QED
        BY <4>1, WalkSame
    <3> QED
      BY <2>1, <3>1, NamesFrame, NamesStay DEF NameInv, PathNames
  <2>4. PlaceNames(q, m)'
    BY <2>1, NamesFrame DEF NameInv, PlaceNames
  <2> QED
    BY <2>2, <2>3, <2>4 DEF NameInv
<1> QED
  BY <1>1, <1>2, NamesGo DEF TypeInv

LEMMA NamesWhere ==
    ASSUME HandlerTypes, NamesInv, NEW t \in Thread, Busy(t)
    PROVE  /\ InodesApart /\ (Live # {} => Root \in ibitmap)
           /\ BitsNames(todo[t], loc[t]) /\ PathNames(todo[t], loc[t])
           /\ PlaceNames(todo[t], loc[t])
  BY DEF NamesInv, NameInv, Busy

\* What is left after a step, where the parts go on saying the same.
LEMMA BitsTail ==
    ASSUME NEW s, NEW l, NEW r, NEW m, Program(s), s # <<>>, r = Tail(s), r # <<>>,
           m.op = l.op, BitsNames(s, l),
           Head(s) \notin {"read ibitmap", "take ino", "bitmaps"}
    PROVE  BitsNames(r, m)
<1>1. Follows(Head(s), Head(r)) /\ Range(s) = {Head(s)} \cup Range(r)
  BY ProgramTail
<1>2. Head(r) # "take ino"
  BY <1>1 DEF Follows
<1> QED
  BY <1>1, <1>2 DEF BitsNames

LEMMA PathTail ==
    ASSUME NEW s, NEW l, NEW r, NEW m, Program(s), s # <<>>, r = Tail(s), r # <<>>,
           m.op = l.op, m.node = l.node, m.path = l.path, CallInv(s, l), PathNames(s, l),
           Head(s) \notin {"lookup", "take ino"}
    PROVE  PathNames(r, m)
<1>1. Follows(Head(s), Head(r)) /\ Head(s) \in StepsOf(l.op)
  BY ProgramTail, CallTail
<1>2. Head(r) # "lookup" /\ Head(r) # "add"
  BY <1>1 DEF Follows
<1>3. ASSUME l.op \in {"create", "mkdir"}, Head(r) \in {"read ibitmap", "take ino"}
      PROVE  Head(s) = "read ibitmap"
  <2>1. Head(s) # "bitmaps"
    BY <1>1, <1>3 DEF StepsOf, CreateSteps, MkdirSteps, NewBlockSteps
  <2> QED
    BY <1>1, <1>3, <2>1 DEF Follows
<1> QED
  BY <1>2, <1>3 DEF PathNames

LEMMA PlaceTail ==
    ASSUME NEW s, NEW r, NEW m, Program(s), s # <<>>, r = Tail(s), r # <<>>,
           Head(s) \notin {"read dbitmap", "take block", "new file", "new directory",
                           "root", "link", "new block", "read inodes"}
    PROVE  PlaceNames(r, m)
<1>1. Follows(Head(s), Head(r))
  BY ProgramTail
<1>2. Head(r) \notin {"read dbitmap", "take block", "new block"} \cup WriteiSteps
  BY <1>1 DEF Follows, WriteiSteps
<1> QED
  BY <1>2 DEF PlaceNames

LEMMA QuietNamesContinue ==
    ASSUME TypeInv, BlockInv, NamesInv, Single, NEW t \in Thread, Busy(t), NEW m,
           Continue(t, m), m.op = loc[t].op, m.node = loc[t].node, m.path = loc[t].path,
           UNCHANGED <<inodes, data, ibitmap>>,
           Head(todo[t]) \notin {"lookup", "read ibitmap", "take ino", "bitmaps"},
           Tail(todo[t]) # <<>> => PlaceNames(Tail(todo[t]), m)
    PROVE  NamesInv'
<1>0. PICK s, r : s = todo[t] /\ r = Tail(s)
  OBVIOUS
<1>1. /\ Program(s) /\ s # <<>> /\ CallInv(s, loc[t])
      /\ BitsNames(s, loc[t]) /\ PathNames(s, loc[t])
      /\ r # <<>> => Follows(Head(s), Head(r))
  BY <1>0, HandlerAt, BlockAt, NamesWhere DEF TypeInv, HandlerInv
<1>2. Go(t, r, m)
  BY <1>0 DEF Continue
<1>3. ASSUME r # <<>> PROVE NameInv(r, m) /\ Head(r) # "lookup"
  <2>1. BitsNames(r, m) /\ PathNames(r, m)
    BY <1>0, <1>1, <1>3, BitsTail, PathTail
  <2>2. Head(r) # "lookup"
    BY <1>1, <1>3 DEF Follows
  <2> QED
    BY <1>0, <1>3, <2>1, <2>2 DEF NameInv
<1> QED
  BY <1>2, <1>3, QuietNamesGo

LEMMA ReturnNames ==
    ASSUME TypeInv, NamesInv, Single, NEW t \in Thread, Return(t),
           UNCHANGED <<inodes, data, ibitmap>>
    PROVE  NamesInv'
  BY QuietNamesGo DEF Return


\* A path leads to what its last name leads to in the directory that the rest leads to.
LEMMA WalkLast ==
    ASSUME NEW path \in Paths
    PROVE  LET i == Walk(Dirname(path))
           IN  Walk(path) = IF i = Missing THEN Missing ELSE DirFind(i, Basename(path))
<1> DEFINE n == Len(path)
<1>0. PICK p : p = Dirname(path)
  OBVIOUS
<1>1. n \in Nat \ {0} /\ path \in Seq(Range(path)) /\ n - 1 \in Nat
  BY NamesOfPaths, RufsAssumption DEF Paths
<1>2. Len(p) = n - 1 /\ \A k \in 1..(n - 1) : p[k] = path[k]
  <2>1. p = SubSeq(path, 1, n - 1)
    BY <1>0 DEF Dirname
  <2>2. 1 \in 1..(n + 1) /\ n - 1 \in 0..n /\ 1..(n - 1) \subseteq 1..n
    BY <1>1
  <2>3. Len(p) = IF 1 <= n - 1 THEN (n - 1) - 1 + 1 ELSE 0
    BY <1>1, <2>1, <2>2, SubSeqProperties
  <2>4. \A k \in 1..((n - 1) - 1 + 1) : p[k] = path[1 + k - 1]
    BY <1>1, <2>1, <2>2, SubSeqProperties
  <2> HIDE DEF n
  <2>5. Len(p) = n - 1 /\ (n - 1) - 1 + 1 = n - 1 /\ \A k \in 1..(n - 1) : 1 + k - 1 = k
    BY ONLY <1>1, <2>3
  <2> QED
    BY ONLY <2>4, <2>5
<1>3. PICK f : IsWalk(f, path, n) /\ Walk(path) = f[n]
  BY <1>1, WalkSteps
<1>4. PICK g : IsWalk(g, p, n - 1) /\ Walk(p) = g[n - 1]
  BY <1>1, <1>2, WalkSteps
<1> DEFINE S == {k \in Nat : k \in 0..(n - 1) => f[k] = g[k]}
<1>5. 0 \in S
  BY <1>1, <1>3, <1>4 DEF IsWalk
<1>6. ASSUME NEW k \in Nat, k \in S PROVE k + 1 \in S
  <2> SUFFICES ASSUME k + 1 \in 0..(n - 1) PROVE f[k + 1] = g[k + 1]
    OBVIOUS
  <2>1. /\ k + 1 # 0 /\ (k + 1) - 1 = k /\ f[k] = g[k] /\ k + 1 \in 0..n
        /\ p[k + 1] = path[k + 1]
    BY <1>1, <1>2, <1>6
  <2>2. f[k + 1] = IF f[k] = Missing THEN Missing ELSE DirFind(f[k], path[k + 1])
    BY <1>3, <2>1 DEF IsWalk
  <2>3. g[k + 1] = IF g[k] = Missing THEN Missing ELSE DirFind(g[k], p[k + 1])
    BY <1>4, <2>1 DEF IsWalk
  <2> QED
    BY <2>1, <2>2, <2>3
<1>7. n - 1 \in S
  BY <1>1, <1>5, <1>6, InductionOverNat
<1>8. f[n - 1] = Walk(p)
  BY <1>1, <1>4, <1>7
<1>9. f[n] = IF f[n - 1] = Missing THEN Missing ELSE DirFind(f[n - 1], path[n])
  <2>1. n \in 0..n /\ n # 0
    BY <1>1
  <2> QED
    BY <1>3, <2>1 DEF IsWalk
<1> QED
  BY <1>0, <1>3, <1>8, <1>9 DEF Basename

\* Where dir_find finds nothing, the name is absent.
LEMMA FoundMissing ==
    ASSUME DiskTypes, NEW i \in Slot, inodes[i].valid, NEW name, DirFind(i, name) = Missing
    PROVE  Absent(i, name)
<1>1. Matches(i, name) = {}
  <2>1. CASE \E at \in Matches(i, name) : DirFind(i, name) = EntryAt(inodes[i], at).ino
    <3>1. PICK at \in Matches(i, name) : DirFind(i, name) = EntryAt(inodes[i], at).ino
      BY <2>1
    <3>2. at \in Ptr \X Cell /\ IsEntry(EntryAt(inodes[i], at))
      BY DEF Matches
    <3>3. EntryAt(inodes[i], at) \in CellValue
      BY <3>2, BioReadTyped DEF EntryAt
    <3>4. EntryAt(inodes[i], at).ino \in Slot
      BY <3>2, <3>3 DEF IsEntry, CellValue, Entry
    <3>5. Missing \notin Slot
      BY SizesOfTypes DEF Missing
    <3> QED
      BY <3>1, <3>4, <3>5
  <2> QED
    BY <2>1, DirFindMatches
<1>2. ASSUME NEW x \in NamesAt, x[1] = i, Named(x).name = name PROVE FALSE
  <2>1. x[2] \in EntriesAt(inodes[i]) /\ EntryAt(inodes[i], x[2]).name = name
    <3>1. x[2] \in NamesIn(inodes[i])
      BY <1>2, NamesPlaces
    <3> QED
      BY <1>2, <3>1 DEF NamesIn, Named
  <2>2. x[2] \in Matches(i, name)
    BY <2>1 DEF EntriesAt, Matches
  <2> QED
    BY <1>1, <2>2
<1> QED
  BY <1>2 DEF Absent

LEMMA LookUpNames ==
    ASSUME TypeInv, BlockInv, NamesInv, Single, NEW t \in Thread, LookUp(t)
    PROVE  NamesInv'
<1> DEFINE l == loc[t]
           s == todo[t]
           r == Tail(s)
           p == IF l.op \in {"create", "mkdir"} THEN Dirname(l.path) ELSE l.path
           i == Walk(p)
           m == [l EXCEPT !.node = inodes[i]]
<1>1. /\ Busy(t) /\ Head(s) = "lookup" /\ HandlerTypes /\ DiskTypes /\ l \in Local
      /\ Program(s) /\ s # <<>> /\ DiskInv /\ HandlerInv(s, l)
      /\ BitsNames(s, l) /\ PathNames(s, l) /\ l.path \in Paths
      /\ UNCHANGED <<inodes, data, ibitmap>>
  BY BlockAt, HandlerAt, NamesWhere, LookUpPath DEF LookUp, At, TypeInv, disk
<1>2. Return(t) \/ (i # Missing /\ Go(t, r, m))
  BY DEF LookUp, Continue
<1>3. CASE Return(t)
  BY <1>1, <1>3, ReturnNames
<1>4. CASE i # Missing /\ Go(t, r, m)
  <2>1. i \in Slot
    <3>1. Len(p) \in Nat
      BY <1>1, LookUpPath
    <3> QED
      BY <1>1, <1>4, <3>1, WalkTyped
  <2>2. inodes[i].valid => inodes[i].ino = i
    BY <1>1, <2>1, LiveInodes DEF DiskInv
  <2>3. m.op = l.op /\ m.path = l.path /\ m.node = inodes[i]
    BY <1>1 DEF Local
  <2>4. l.op \in {"create", "mkdir"} /\ inodes[i].valid => Absent(i, Basename(l.path))
    <3> SUFFICES ASSUME l.op \in {"create", "mkdir"}, inodes[i].valid
                 PROVE  Absent(i, Basename(l.path))
      OBVIOUS
    <3>1. Walk(l.path) = Missing /\ i = Walk(Dirname(l.path))
      BY <1>1 DEF PathNames
    <3>2. DirFind(i, Basename(l.path)) = Missing
      BY <1>1, <1>4, <3>1, WalkLast
    <3> QED
      BY <1>1, <2>1, <3>2, FoundMissing
  <2>5. l.op \in {"read", "write"} => inodes[i].type = "file" /\ inodes[i].valid
    BY <1>1 DEF HandlerInv, NodeInv, Holds
  <2> HIDE DEF m, i
  <2>6. ASSUME r # <<>> PROVE NameInv(r, m) /\ Head(r) # "lookup"
    <3>1. Head(r) \in {"read ibitmap", "read", "write"}
      BY <1>1, <2>6, ProgramTail DEF Follows
    <3>2. BitsNames(r, m)
      BY <1>1, <2>3, <2>6, BitsTail
    <3>3. PathNames(r, m)
      BY <2>2, <2>3, <2>4, <2>5, <3>1 DEF PathNames
    <3>4. PlaceNames(r, m)
      BY <3>1 DEF PlaceNames, WriteiSteps
    <3> QED
      BY <3>1, <3>2, <3>3, <3>4 DEF NameInv
  <2> QED
    BY <1>1, <1>4, <2>6, QuietNamesGo
<1> QED
  BY <1>2, <1>3, <1>4


LEMMA BitmapNames ==
    ASSUME TypeInv, BlockInv, NamesInv, Single, NEW t \in Thread,
           ReadBitmap(t) \/ TakeBlock(t)
    PROVE  NamesInv'
<1>0. PICK s, r, l : s = todo[t] /\ r = Tail(s) /\ l = loc[t]
  OBVIOUS
<1>1. /\ Busy(t) /\ Head(s) \in {"read ibitmap", "read dbitmap", "take block"}
      /\ HandlerTypes /\ l \in Local
      /\ UNCHANGED <<inodes, data, ibitmap>>
  BY <1>0, HandlerAt DEF ReadBitmap, TakeBlock, At, TypeInv, disk
<1>2. /\ Program(s) /\ s # <<>> /\ CallInv(s, l)
      /\ BitsNames(s, l) /\ PathNames(s, l) /\ PlaceNames(s, l)
      /\ Range(s) = {Head(s)} \cup Range(r)
      /\ r # <<>> => Follows(Head(s), Head(r))
  BY <1>0, <1>1, BlockAt, HandlerAt, NamesWhere DEF TypeInv, HandlerInv
<1>3. \E m : /\ Continue(t, m) /\ m.op = l.op /\ m.node = l.node /\ m.path = l.path
             /\ m.dir = l.dir /\ m.entry = l.entry
             /\ Head(s) = "read ibitmap" => m.bits = ibitmap
  <2>1. CASE ReadBitmap(t)
    <3>1. PICK b : /\ Continue(t, [l EXCEPT !.bits = b])
                   /\ Head(s) = "read ibitmap" => b = ibitmap
      BY <1>0, <1>1, <2>1 DEF ReadBitmap, At
    <3> WITNESS [l EXCEPT !.bits = b]
    <3> QED
      BY <1>1, <3>1 DEF Local
  <2>2. CASE TakeBlock(t)
    <3>1. PICK b : Continue(t, [l EXCEPT !.blk = b]) /\ Head(s) = "take block"
      BY <1>0, <2>2 DEF TakeBlock, At
    <3> WITNESS [l EXCEPT !.blk = b]
    <3> QED
      BY <1>1, <3>1 DEF Local
  <2> QED
    BY <1>1, <2>1, <2>2
<1>4. PICK m : /\ Continue(t, m) /\ m.op = l.op /\ m.node = l.node /\ m.path = l.path
               /\ m.dir = l.dir /\ m.entry = l.entry
               /\ Head(s) = "read ibitmap" => m.bits = ibitmap
  BY <1>3
<1>5. ASSUME r # <<>> PROVE NameInv(r, m) /\ Head(r) # "lookup"
  <2>1. Head(r) # "lookup"
    BY <1>2, <1>5 DEF Follows
  <2>2. BitsNames(r, m)
    <3>1. CASE Head(s) = "read ibitmap"
      BY <1>2, <1>4, <3>1 DEF BitsNames
    <3>2. CASE Head(s) # "read ibitmap"
      BY <1>0, <1>1, <1>2, <1>4, <1>5, <3>2, BitsTail
    <3> QED
      BY <3>1, <3>2
  <2>3. PathNames(r, m)
    BY <1>0, <1>1, <1>2, <1>4, <1>5, PathTail
  <2>4. PlaceNames(r, m)
    <3>1. CASE Head(s) = "read ibitmap"
      BY <1>0, <1>2, <1>5, <3>1, PlaceTail
    <3>2. CASE Head(s) \in {"read dbitmap", "take block"}
      <4>1. Head(r) \in {"take block", "new block", "fill"}
        BY <1>2, <1>5, <3>2 DEF Follows
      <4> QED
        BY <1>2, <1>4, <3>2, <4>1 DEF PlaceNames, WriteiSteps
    <3> QED
      BY <1>1, <3>1, <3>2
  <2> QED
    BY <2>1, <2>2, <2>3, <2>4 DEF NameInv
<1>6. Go(t, r, m)
  BY <1>0, <1>4 DEF Continue
<1> QED
  BY <1>1, <1>5, <1>6, QuietNamesGo

LEMMA TakeInoNames ==
    ASSUME TypeInv, BlockInv, NamesInv, Single, NEW t \in Thread, TakeIno(t)
    PROVE  NamesInv'
<1>0. PICK s, r, l, i : /\ s = todo[t] /\ r = Tail(s) /\ l = loc[t]
                        /\ i = LowestClear(l.bits, MaxInum, NoIno)
  OBVIOUS
<1>1. PICK m : m = [l EXCEPT !.ino = i]
  OBVIOUS
<1>2. /\ Busy(t) /\ Head(s) = "take ino" /\ HandlerTypes /\ l \in Local /\ Go(t, r, m)
      /\ UNCHANGED <<inodes, data>>
      /\ ibitmap' = IF i = NoIno THEN ibitmap ELSE l.bits \cup {i}
  BY <1>0, <1>1, HandlerAt DEF TakeIno, At, TypeInv, Continue
<1>3. /\ Program(s) /\ s # <<>> /\ CallInv(s, l) /\ MkfsInv(s, l) /\ NodeInv(s, l)
      /\ InodesApart /\ (Live # {} => Root \in ibitmap)
      /\ BitsNames(s, l) /\ PathNames(s, l)
      /\ Range(s) = {Head(s)} \cup Range(r)
      /\ r # <<>> => Follows(Head(s), Head(r))
      /\ \A b \in Range(r) : Before(Head(s), b)
  BY <1>0, <1>2, BlockAt, HandlerAt, NamesWhere DEF TypeInv, HandlerInv
<1>4. l.bits = ibitmap
  BY <1>2, <1>3 DEF BitsNames
<1>5. i = NoIno \/ (i \in Inum /\ i \notin ibitmap)
  <2>1. MaxInum \in Nat
    BY Sizes
  <2>2. i = NoIno \/ i \in (0..(MaxInum - 1)) \ l.bits
    BY <1>0, <2>1, LowestClearProperties
  <2> QED
    BY <1>4, <2>2 DEF Inum
<1>6. ibitmap \subseteq ibitmap' /\ (i = NoIno \/ i \in ibitmap')
  BY <1>2, <1>4
<1>7. m.op = l.op /\ m.node = l.node /\ m.path = l.path /\ m.ino = i
  BY <1>1, <1>2 DEF Local
<1>8. NamesAt' = NamesAt /\ Live' = Live /\ (\A x : Named(x)' = Named(x))
  BY <1>2, NamesStay
<1>9. InodesApart' /\ (\A d, name : Absent(d, name) => Absent(d, name)')
  BY <1>3, <1>6, <1>8, NamesShrink
<1>10. Live' # {} => Root \in ibitmap'
  BY <1>3, <1>6, <1>8
<1>11. Live # {} => Unnamed(i)'
  <2> SUFFICES ASSUME Live # {}, i # NoIno PROVE Unnamed(i)'
    BY DEF Unnamed
  <2>1. i # Root
    BY <1>3, <1>5
  <2>2. \A x \in NamesAt : Named(x).ino # i
    BY <1>3, <1>5 DEF InodesApart
  <2> QED
    BY <1>6, <1>8, <2>1, <2>2 DEF Unnamed
<1>12. ASSUME r # <<>> PROVE NameInv(r, m)'
  <2>1. Head(r) \in {"add", "root"} /\ "take ino" \notin Range(r) /\ "bitmaps" \notin Range(r)
    BY <1>2, <1>3, <1>12 DEF Follows, Before, Past
  <2>2. m.op = "mkfs" => Root \in ibitmap'
    <3> SUFFICES ASSUME l.op = "mkfs" PROVE Root \in ibitmap'
      BY <1>7
    <3>1. ibitmap = {}
      BY <1>2, <1>3, <2>1 DEF BitsNames
    <3>2. i = 0
      <4>1. Root \in 0..(MaxInum - 1) /\ Root = 0
        BY SizesOfTypes DEF Inum, Root
      <4>2. LowestClear(l.bits, MaxInum, NoIno) = Min(0..(MaxInum - 1))
        <5>1. ~(0..(MaxInum - 1) \subseteq l.bits) /\ (0..(MaxInum - 1)) \ l.bits = 0..(MaxInum - 1)
          BY <1>4, <3>1, <4>1
        <5> QED
          BY <5>1 DEF LowestClear
      <4>3. 0..(MaxInum - 1) \in SUBSET Nat
        BY Sizes
      <4>4. /\ Min(0..(MaxInum - 1)) \in 0..(MaxInum - 1)
            /\ \A y \in 0..(MaxInum - 1) : Min(0..(MaxInum - 1)) <= y
        BY <4>1, <4>3, MinProperties
      <4> QED
        BY <1>0, <4>1, <4>2, <4>4
    <3>3. i # NoIno
      BY <3>2 DEF NoIno
    <3> QED
      BY <1>6, <3>2, <3>3 DEF Root
  <2>3. BitsNames(r, m)'
    BY <2>1, <2>2 DEF BitsNames
  <2>4. PathNames(r, m)'
    <3>1. l.op \in {"create", "mkdir"} /\ l.node.valid =>
             Absent(l.node.ino, Basename(l.path))' /\ Unnamed(i)'
      <4> SUFFICES ASSUME l.op \in {"create", "mkdir"}, l.node.valid
                   PROVE  Absent(l.node.ino, Basename(l.path))' /\ Unnamed(i)'
        OBVIOUS
      <4>1. Absent(l.node.ino, Basename(l.path))
        BY <1>2, <1>3 DEF PathNames
      <4>2. inodes[l.node.ino] = l.node /\ l.node.ino \in Slot
        BY <1>2, <1>3 DEF NodeInv, Local, Inode
      <4>3. Live # {}
        BY <4>2 DEF Live
      <4> QED
        BY <1>9, <1>11, <4>1, <4>3
    <3>2. l.op \in {"read", "write"} => l.node.type = "file" /\ inodes[l.node.ino].type = "file"
      BY <1>2, <1>3 DEF PathNames
    <3>3. Head(r) # "lookup" /\ Head(s) # "lookup"
      BY <1>2, <2>1
    <3> QED
      BY <1>2, <1>7, <3>1, <3>2, <3>3 DEF PathNames
  <2>5. PlaceNames(r, m)'
    BY <2>1 DEF PlaceNames, WriteiSteps
  <2> QED
    BY <2>3, <2>4, <2>5 DEF NameInv
<1> QED
  BY <1>2, <1>9, <1>10, <1>12, NamesGo

\* Before rufs_mkfs writes the root there are no names.
LEMMA WriteBitmapsNames ==
    ASSUME TypeInv, BlockInv, NamesInv, Single, NEW t \in Thread, WriteBitmaps(t)
    PROVE  NamesInv'
<1>0. PICK s, r, l : s = todo[t] /\ r = Tail(s) /\ l = loc[t]
  OBVIOUS
<1>1. /\ Busy(t) /\ Head(s) = "bitmaps" /\ HandlerTypes /\ l \in Local /\ Go(t, r, l)
      /\ UNCHANGED <<inodes, data>> /\ ibitmap' = {}
  BY <1>0, HandlerAt DEF WriteBitmaps, At, TypeInv, Continue
<1>2. /\ Program(s) /\ s # <<>> /\ CallInv(s, l) /\ MkfsInv(s, l) /\ LocAt(s, l)
      /\ Head(s) \in StepsOf(l.op) /\ BitsNames(s, l)
      /\ Range(s) = {Head(s)} \cup Range(r) /\ "bitmaps" \notin Range(r)
      /\ r # <<>> => Follows(Head(s), Head(r))
  <2>1. /\ HandlerInv(s, l) /\ Program(s) /\ s # <<>> /\ LocAt(s, l)
        /\ Range(s) = {Head(s)} \cup Range(r)
        /\ r # <<>> => Follows(Head(s), Head(r))
        /\ \A b \in Range(r) : Before(Head(s), b)
    BY <1>0, <1>1, BlockAt, HandlerAt DEF TypeInv
  <2>2. "bitmaps" \notin Range(r)
    BY <1>1, <2>1 DEF Before, Past
  <2> QED
    BY <1>0, <1>1, <2>1, <2>2, CallTail, NamesWhere DEF HandlerInv
<1>3. l.op = "mkfs"
  BY <1>1, <1>2 DEF StepsOf, CreateSteps, MkdirSteps, NewBlockSteps, WriteiSteps, GetBlkSteps
<1>4. Live = {} /\ Live' = {} /\ NamesAt' = {}
  <2>1. "root" \in Range(s)
    BY <1>1, <1>2 DEF CallInv
  <2>2. Live = {} /\ Live' = Live /\ NamesAt' = NamesAt
    BY <1>1, <1>2, <2>1, NamesStay DEF MkfsInv
  <2>3. NamesAt = {}
    BY <2>2 DEF NamesAt, Live
  <2> QED
    BY <2>2, <2>3
<1>5. InodesApart'
  BY <1>4 DEF InodesApart
<1>6. ASSUME r # <<>> PROVE NameInv(r, l)'
  <2>1. Head(r) = "read ibitmap" /\ Head(r) \in Range(r)
    BY <1>0, <1>1, <1>2, <1>6, HandlerAt DEF Follows
  <2>2. "take ino" \in Range(r) /\ "bitmaps" \notin Range(r)
    BY <1>1, <1>2, <2>1 DEF BitsNames
  <2> QED
    BY <1>1, <1>3, <2>1, <2>2 DEF NameInv, BitsNames, PathNames, PlaceNames, WriteiSteps
<1> QED
  BY <1>1, <1>4, <1>5, <1>6, NamesGo


LEMMA NamesOnDisk ==
    ASSUME DiskTypes, DiskInv, NEW i \in Live
    PROVE  OutNames(inodes[i])
<1>1. i \in Slot /\ inodes[i].valid /\ inodes[i].ino = i
  BY DEF Live, DiskInv
<1>2. inodes[i].type = "directory" => Kept(inodes[i]) = NamesIn(inodes[i])
  BY <1>1, NamesPlaces DEF Kept
<1> QED
  BY <1>2 DEF OutNames

LEMMA NoNamesIn == \A n : n.ptr = NoPtrs => NamesIn(n) = {}
<1> SUFFICES ASSUME NEW n, n.ptr = NoPtrs, NEW a \in NamesIn(n) PROVE FALSE
  OBVIOUS
<1>1. a \in Ptr \X Cell /\ n.ptr[a[1]] # INVALID
  BY DEF NamesIn, EntriesAt
<1> QED
  BY <1>1 DEF NoPtrs

LEMMA ReadInodesNames ==
    ASSUME TypeInv, BlockInv, NamesInv, Single, NEW t \in Thread, ReadInodes(t)
    PROVE  NamesInv'
<1> DEFINE l == loc[t]
           s == todo[t]
           r == Tail(s)
           m == [l EXCEPT !.buf = [j \in InodeBlock(l.out.ino) |-> inodes[j]]]
<1>1. /\ Busy(t) /\ Head(s) = "read inodes" /\ HandlerTypes /\ l \in Local
      /\ Program(s) /\ s # <<>> /\ PlaceNames(s, l) /\ Continue(t, m)
      /\ UNCHANGED <<inodes, data, ibitmap>>
  BY HandlerAt, NamesWhere DEF ReadInodes, At, TypeInv, disk
<1>2. m.op = l.op /\ m.node = l.node /\ m.path = l.path /\ m.out = l.out
  BY <1>1 DEF Local
<1> HIDE DEF m
<1>3. ASSUME r # <<>> PROVE PlaceNames(r, m)
  <2>1. Head(r) = "write inodes"
    BY <1>1, <1>3, ProgramTail DEF Follows
  <2> QED
    BY <1>1, <1>2, <2>1 DEF PlaceNames, WriteiSteps
<1> QED
  BY <1>1, <1>2, <1>3, QuietNamesContinue

\* Steps that set the inode to be written.
LEMMA SetOutNames ==
    ASSUME TypeInv, BlockInv, NamesInv, Single, NEW t \in Thread, Busy(t),
           Head(todo[t]) \in {"new file", "new directory", "root", "link"},
           NEW m, Continue(t, m),
           m.op = loc[t].op, m.node = loc[t].node, m.path = loc[t].path,
           UNCHANGED <<inodes, data, ibitmap>>, OutNames(m.out), Root \in ibitmap
    PROVE  NamesInv'
<1>0. PICK s, r : s = todo[t] /\ r = Tail(s)
  OBVIOUS
<1>1. Program(s) /\ s # <<>>
  BY <1>0, HandlerAt DEF TypeInv
<1>2. ASSUME r # <<>> PROVE PlaceNames(r, m)
  <2>1. Head(r) = "read inodes"
    BY <1>0, <1>1, <1>2, ProgramTail DEF Follows
  <2> QED
    BY <2>1 DEF PlaceNames
<1> QED
  BY <1>0, <1>2, QuietNamesContinue

LEMMA NewInodeNames ==
    ASSUME TypeInv, BlockInv, NamesInv, Single, NEW t \in Thread, NewInode(t)
    PROVE  NamesInv'
<1> DEFINE l == loc[t]
           s == todo[t]
           n == [inodes[l.ino] EXCEPT !.valid = TRUE, !.ino = l.ino, !.ptr = NoPtrs]
<1>1. /\ Busy(t) /\ Head(s) \in {"new file", "new directory", "root"}
      /\ HandlerTypes /\ DiskTypes /\ l \in Local
      /\ Program(s) /\ s # <<>> /\ HandlerInv(s, l) /\ BitsNames(s, l)
      /\ (Live # {} => Root \in ibitmap)
      /\ UNCHANGED <<inodes, data, ibitmap>>
  BY BlockAt, HandlerAt, NamesWhere DEF NewInode, At, TypeInv, disk
<1>2. "take ino" \notin Range(s) /\ "add" \notin Range(s)
  <2>1. \A b \in {"take ino", "add"} : ~Before(Head(s), b)
    BY <1>1 DEF Before, Past
  <2>2. /\ Range(s) = {Head(s)} \cup Range(Tail(s))
        /\ \A b \in Range(Tail(s)) : Before(Head(s), b)
        /\ Head(s) \in {"new file", "new directory", "root"}
    BY <1>1, ProgramTail
  <2> QED
    BY ONLY <2>1, <2>2
<1>3. l.ino \in Slot
  BY <1>1, <1>2, HandlerAt DEF LocAt
<1>4. n.ptr = NoPtrs /\ n \in Inode
  <2>1. inodes[l.ino] \in Inode
    BY <1>1, <1>3 DEF DiskTypes
  <2>2. NoPtrs \in [Ptr -> Block \cup {NoBlock}]
    BY SizesOfTypes DEF NoPtrs
  <2> QED
    BY <1>3, <2>1, <2>2 DEF Inode
<1> HIDE DEF n
<1>5. PICK o : /\ o = [n EXCEPT !.type = "file", !.size = 0] \/ o = [n EXCEPT !.type = "directory"]
               /\ Continue(t, [l EXCEPT !.out = o])
  BY DEF NewInode, n
<1>6. PICK m : m = [l EXCEPT !.out = o]
  OBVIOUS
<1>7. m.op = l.op /\ m.node = l.node /\ m.path = l.path /\ m.out = o /\ o.ptr = NoPtrs
  BY <1>1, <1>4, <1>5, <1>6 DEF Local, Inode
<1>8. OutNames(m.out)
  BY <1>7, NoNamesIn DEF OutNames
<1>9. Root \in ibitmap
  <2>1. Head(s) \in StepsOf(l.op)
    BY <1>1, CallTail DEF HandlerInv
  <2>2. CASE l.op = "mkfs"
    BY <1>1, <1>2, <2>2 DEF BitsNames
  <2>3. CASE l.op # "mkfs"
    <3>1. l.op \in {"create", "mkdir"}
      BY <1>1, <2>1, <2>3 DEF StepsOf, WriteiSteps, GetBlkSteps
    <3>2. inodes[l.node.ino].valid /\ l.node.ino \in Slot
      <4>1. NodeInv(s, l)
        BY <1>1 DEF HandlerInv
      <4>2. l.node \in Inode
        BY <1>1 DEF Local
      <4> QED
        BY <1>2, <3>1, <4>1, <4>2 DEF NodeInv, Inode
    <3> QED
      BY <1>1, <3>2 DEF Live
  <2> QED
    BY <2>2, <2>3
<1> QED
  BY <1>1, <1>5, <1>6, <1>7, <1>8, <1>9, SetOutNames

LEMMA LinkNames ==
    ASSUME TypeInv, BlockInv, NamesInv, Single, NEW t \in Thread, LinkParent(t)
    PROVE  NamesInv'
<1> DEFINE l == loc[t]
           s == todo[t]
<1>1. /\ Busy(t) /\ Head(s) = "link" /\ l \in Local /\ DiskTypes
      /\ Program(s) /\ s # <<>> /\ DiskInv /\ HandlerInv(s, l)
      /\ (Live # {} => Root \in ibitmap)
      /\ Continue(t, [l EXCEPT !.out = inodes[l.node.ino]])
      /\ UNCHANGED <<inodes, data, ibitmap>>
  BY BlockAt, HandlerAt, NamesWhere DEF LinkParent, At, TypeInv, disk
<1>2. PICK m : m = [l EXCEPT !.out = inodes[l.node.ino]]
  OBVIOUS
<1>3. m.op = l.op /\ m.node = l.node /\ m.path = l.path /\ m.out = inodes[l.node.ino]
  BY <1>1, <1>2 DEF Local
<1>4. Head(s) \in StepsOf(l.op) /\ NodeInv(s, l)
  BY <1>1, CallTail DEF HandlerInv
<1>5. l.op = "mkdir"
  BY <1>1, <1>4 DEF StepsOf, MkfsSteps, CreateSteps, NewBlockSteps, WriteiSteps, GetBlkSteps
<1>6. "add" \notin Range(s)
  <2>1. ~Before(Head(s), "add")
    BY <1>1 DEF Before, Past
  <2>2. /\ Range(s) = {Head(s)} \cup Range(Tail(s))
        /\ \A b \in Range(Tail(s)) : Before(Head(s), b)
        /\ Head(s) = "link"
    BY <1>1, ProgramTail
  <2> QED
    BY ONLY <2>1, <2>2
<1>7. l.node.ino \in Live
  <2>1. l.node \in Inode
    BY <1>1 DEF Local
  <2> QED
    BY <1>4, <1>5, <1>6, <2>1 DEF NodeInv, Inode, Live
<1>8. OutNames(m.out) /\ Root \in ibitmap
  BY <1>1, <1>3, <1>7, NamesOnDisk
<1> QED
  BY <1>1, <1>2, <1>3, <1>8, SetOutNames

LEMMA FormatNames ==
    ASSUME TypeInv, BlockInv, NamesInv, Single, NEW t \in Thread, Format(t)
    PROVE  NamesInv'
<1>0. PICK s, r, l : s = todo[t] /\ r = Tail(s) /\ l = loc[t]
  OBVIOUS
<1>1. /\ Busy(t) /\ Head(s) = "format" /\ Program(s) /\ s # <<>> /\ Continue(t, l)
      /\ UNCHANGED <<inodes, data, ibitmap>>
  BY <1>0, HandlerAt DEF Format, At, TypeInv
<1>2. r # <<>> => PlaceNames(r, l)
  BY <1>0, <1>1, PlaceTail
<1> QED
  BY <1>0, <1>1, <1>2, QuietNamesContinue

LEMMA ClearNames ==
    ASSUME TypeInv, BlockInv, NamesInv, Single, NEW t \in Thread, ClearInodes(t)
    PROVE  NamesInv'
<1> DEFINE l == loc[t]
           s == todo[t]
<1>0. PICK r, q, m : /\ r = Tail(s) /\ q = Writei \o s
                     /\ m = [l EXCEPT !.out = Blank(l.ino), !.ino = @ + 1]
  OBVIOUS
<1>1. /\ Busy(t) /\ Head(s) = "clear inodes" /\ l \in Local /\ Program(s) /\ s # <<>>
      /\ HandlerInv(s, l) /\ BitsNames(s, l) /\ HandlerTypes
      /\ UNCHANGED <<inodes, data, ibitmap>>
  BY BlockAt, HandlerAt, NamesWhere DEF ClearInodes, At, TypeInv, disk
<1>2. Continue(t, l) \/ Go(t, q, m)
  BY <1>0 DEF ClearInodes
<1>3. l.op = "mkfs"
  <2>1. Head(s) \in StepsOf(l.op)
    BY <1>1, CallTail DEF HandlerInv
  <2> QED
    BY <1>1, <2>1 DEF StepsOf, CreateSteps, MkdirSteps, NewBlockSteps, WriteiSteps, GetBlkSteps
<1>4. CASE Continue(t, l)
  <2>1. r # <<>> => PlaceNames(r, l)
    BY <1>0, <1>1, PlaceTail
  <2> QED
    BY <1>0, <1>1, <1>4, <2>1, QuietNamesContinue
<1>5. CASE Go(t, q, m)
  <2>1. /\ q # <<>> /\ Head(q) = "read inodes" /\ Range(q) = WriteiSteps \cup Range(s)
    BY <1>0, <1>1, ClearSteps
  <2>2. m.op = "mkfs" /\ ~m.out.valid
    <3>1. m.op = "mkfs" /\ m.out = Blank(l.ino)
      BY <1>0, <1>1, <1>3 DEF Local
    <3> QED
      BY <3>1 DEF Blank
  <2>3. BitsNames(q, m)
    <3>1. \A x \in {"bitmaps", "take ino"} : x \in Range(q) <=> x \in Range(s)
      BY <2>1 DEF WriteiSteps
    <3> QED
      BY <1>1, <1>3, <2>1, <2>2, <3>1 DEF BitsNames
  <2>4. PathNames(q, m)
    BY <2>2 DEF PathNames
  <2>5. PlaceNames(q, m)
    BY <2>1, <2>2 DEF PlaceNames, OutNames
  <2> QED
    BY <1>1, <1>5, <2>1, <2>3, <2>4, <2>5, QuietNamesGo DEF NameInv
<1> QED
  BY <1>2, <1>4, <1>5


\* rufs_read and rufs_write write a file's inode.
LEMMA WriteOutNames ==
    ASSUME TypeInv, BlockInv, NamesInv, Single, NEW t \in Thread, Busy(t),
           Head(todo[t]) \in {"read", "write"}, NEW o, o.type = loc[t].node.type,
           Go(t, Writei, [loc[t] EXCEPT !.out = o]),
           UNCHANGED <<inodes, data, ibitmap>>
    PROVE  NamesInv'
<1> DEFINE l == loc[t]
           s == todo[t]
<1>0. PICK q, m : q = Writei /\ m = [l EXCEPT !.out = o]
  OBVIOUS
<1>1. /\ l.op \in {"read", "write"} /\ m.op = l.op /\ m.node = l.node /\ m.out = o
      /\ inodes[l.node.ino].valid /\ l.node.ino \in Slot
  BY <1>0, TransferAt DEF Local
<1>2. q # <<>> /\ Head(q) = "read inodes" /\ Range(q) = WriteiSteps
  BY <1>0, Pieces DEF Fits
<1>3. PathNames(s, l) /\ (Live # {} => Root \in ibitmap)
  BY NamesWhere DEF TypeInv
<1>4. l.node.type = "file" /\ inodes[l.node.ino].type = "file" /\ Root \in ibitmap
  BY <1>1, <1>3 DEF PathNames, Live
<1>5. BitsNames(q, m)
  BY <1>1, <1>2 DEF BitsNames, WriteiSteps
<1>6. PathNames(q, m)
  BY <1>1, <1>4 DEF PathNames
<1>7. PlaceNames(q, m)
  BY <1>1, <1>2, <1>4 DEF PlaceNames, OutNames
<1> QED
  BY <1>0, <1>2, <1>5, <1>6, <1>7, QuietNamesGo DEF NameInv

LEMMA ReadFileNames ==
    ASSUME TypeInv, BlockInv, NamesInv, Single, NEW t \in Thread, ReadFile(t)
    PROVE  NamesInv'
<1>1. Busy(t) /\ Head(todo[t]) = "read" /\ UNCHANGED <<inodes, data, ibitmap>>
  BY DEF ReadFile, At, disk
<1>2. Return(t) \/ Go(t, Writei, [loc[t] EXCEPT !.out = loc[t].node])
  BY DEF ReadFile
<1> QED
  BY <1>1, <1>2, ReturnNames, WriteOutNames

LEMMA WriteLoopNames ==
    ASSUME TypeInv, BlockInv, NamesInv, Single, NEW t \in Thread, WriteLoop(t)
    PROVE  NamesInv'
<1> DEFINE l == loc[t]
           s == todo[t]
           o == [l.node EXCEPT !.size = @ + l.done]
           x == IF l.node.ptr[Pointer(l)] = INVALID THEN GetAvailBlkno ELSE <<>>
<1>0. PICK q : q = x \o <<"fill">> \o s
  OBVIOUS
<1>1. /\ Busy(t) /\ Head(s) = "write" /\ UNCHANGED <<inodes, data, ibitmap>>
      /\ Program(s) /\ s # <<>> /\ HandlerTypes
      /\ PathNames(s, l)
  BY HandlerAt, NamesWhere DEF WriteLoop, At, disk, TypeInv
<1>2. Go(t, Writei, [l EXCEPT !.out = o]) \/ Go(t, q, l)
  BY <1>0 DEF WriteLoop
<1>3. l.op = "write" /\ l.node \in Inode
  BY <1>1, TransferAt
<1>4. CASE Go(t, Writei, [l EXCEPT !.out = o])
  <2>1. o.type = l.node.type
    BY <1>3 DEF Inode
  <2> QED
    BY <1>1, <1>4, <2>1, WriteOutNames
<1>5. CASE Go(t, q, l)
  <2>1. Range(s) = {"write"}
    BY <1>1, TransferLast
  <2>2. /\ q # <<>> /\ Range(q) \subseteq GetBlkSteps \cup {"fill", "write"}
        /\ Head(q) \in {"read dbitmap", "fill"}
    BY <1>0, <1>1, <2>1, LoopSteps
  <2>3. BitsNames(q, l)
    BY <1>3, <2>2 DEF BitsNames, GetBlkSteps
  <2>4. PathNames(q, l) /\ PlaceNames(q, l)
    BY <1>1, <1>3, <2>2 DEF PathNames, PlaceNames, WriteiSteps
  <2> QED
    BY <1>1, <1>5, <2>2, <2>3, <2>4, QuietNamesGo DEF NameInv
<1> QED
  BY <1>2, <1>4, <1>5

\* Data that no directory holds names in.
LEMMA NamesUntouched ==
    ASSUME inodes' = inodes,
           \A i \in Live, k \in Ptr :
              inodes[i].type = "directory" /\ inodes[i].ptr[k] # INVALID =>
                 BioRead(inodes[i].ptr[k])' = BioRead(inodes[i].ptr[k])
    PROVE  \A x \in NamesAt' : x \in NamesAt /\ Named(x)' = Named(x)
<1> SUFFICES ASSUME NEW x \in NamesAt' PROVE x \in NamesAt /\ Named(x)' = Named(x)
  OBVIOUS
<1>1. PICK i, a : /\ x = <<i, a>> /\ i \in Slot /\ inodes[i].valid
                  /\ inodes[i].type = "directory" /\ a \in NamesIn(inodes[i])'
  BY DEF NamesAt, NamesIn
<1>2. i \in Live /\ a \in Ptr \X Cell /\ a[1] \in Ptr /\ inodes[i].ptr[a[1]] # INVALID
  BY <1>1 DEF Live, NamesIn, EntriesAt
<1>3. EntryAt(inodes[i], a)' = EntryAt(inodes[i], a)
  BY <1>1, <1>2 DEF EntryAt
<1>4. a \in NamesIn(inodes[i])
  BY <1>1, <1>2, <1>3 DEF NamesIn, EntriesAt
<1> QED
  BY <1>1, <1>3, <1>4, NamesPlaces DEF Named

\* What is written to a data block.
LEMMA BlockWritten ==
    ASSUME DiskTypes, NEW b, NEW cells, BioWrite(b, cells)
    PROVE  /\ \A d : d # b => BioRead(d)' = BioRead(d)
           /\ b \in DataBlock => BioRead(b)' = cells
           /\ b \notin DataBlock => data' = data /\ BioRead(b)' = Zeroed
<1>1. ASSUME NEW d, d # b PROVE BioRead(d)' = BioRead(d)
  BY <1>1 DEF BioRead, BioWrite, DiskTypes
<1>2. b \in DataBlock => BioRead(b)' = cells
  BY DEF BioRead, BioWrite, DiskTypes
<1>3. b \notin DataBlock => data' = data /\ BioRead(b)' = Zeroed
  BY DEF BioRead, BioWrite
<1> QED
  BY <1>1, <1>2, <1>3


\* dir_add's write of an entry into a block of the directory.
LEMMA EntryWritten ==
    ASSUME DiskTypes, DiskInv, InodesApart, NEW i \in Live, NEW k \in Ptr, NEW c \in Cell,
           NEW e, Fresh(i, e), NEW b, b = inodes[i].ptr[k], b # INVALID,
           BioWrite(b, [BioRead(b) EXCEPT ![c] = e]), UNCHANGED <<inodes, ibitmap>>
    PROVE  InodesApart'
<1>1. CASE b \notin DataBlock
  <2>1. data' = data
    BY <1>1, BlockWritten
  <2> QED
    BY <2>1, NamesFrame
<1>2. CASE b \in DataBlock
  <2>1. b \in Uses(inodes[i]) /\ Own(inodes[i]) /\ inodes[i].ino = i
    <3>1. NoBlock \notin DataBlock
      BY Sizes DEF NoBlock, DataBlock
    <3> QED
      BY <1>2, <3>1 DEF Uses, DiskInv
  <2>2. \A d \in Cell : BioRead(b)'[d] = IF d = c THEN e ELSE BioRead(b)[d]
    <3>1. BioRead(b) \in [Cell -> CellValue]
      BY BioReadTyped
    <3>2. BioRead(b)' = [BioRead(b) EXCEPT ![c] = e]
      BY <1>2, BlockWritten
    <3> QED
      BY <3>1, <3>2
  <2> DEFINE Old(x) == x \in NamesAt /\ Named(x)' = Named(x)
  <2>3. ASSUME NEW x \in NamesAt'
        PROVE  Old(x) \/ (x = <<i, <<k, c>>>> /\ Named(x)' = e)
    <3>1. PICK j, a : /\ x = <<j, a>> /\ j \in Slot /\ inodes[j].valid
                      /\ inodes[j].type = "directory" /\ a \in NamesIn(inodes[j])'
      BY <2>3 DEF NamesAt, NamesIn
    <3>2. /\ j \in Live /\ a \in Ptr \X Cell /\ a[1] \in Ptr /\ a[2] \in Cell
          /\ inodes[j].ptr[a[1]] # INVALID
      BY <3>1 DEF Live, NamesIn, EntriesAt
    <3>3. EntryAt(inodes[j], a)' = BioRead(inodes[j].ptr[a[1]])'[a[2]]
      BY <3>1 DEF EntryAt
    <3>4. CASE EntryAt(inodes[j], a)' = EntryAt(inodes[j], a)
      <4>1. a \in NamesIn(inodes[j])
        BY <3>1, <3>2, <3>4 DEF NamesIn, EntriesAt
      <4> QED
        BY <3>1, <3>4, <4>1, NamesPlaces DEF Named
    <3>5. CASE EntryAt(inodes[j], a)' # EntryAt(inodes[j], a)
      <4>1. inodes[j].ptr[a[1]] = b
        BY <3>3, <3>5, BlockWritten DEF EntryAt
      <4>2. a[2] = c /\ EntryAt(inodes[j], a)' = e
        BY <2>2, <3>2, <3>3, <3>5, <4>1 DEF EntryAt
      <4>3. j = i
        <5>1. b \in Uses(inodes[j])
          BY <2>1, <3>2, <4>1 DEF Uses
        <5> QED
          BY <2>1, <3>2, <5>1 DEF Own
      <4>4. a[1] = k
        BY <2>1, <3>2, <4>1, <4>3 DEF Own
      <4>5. Named(x)' = e
        BY <3>1, <4>2 DEF Named
      <4> QED
        BY <3>1, <3>2, <4>2, <4>3, <4>4, <4>5
    <3> QED
      BY <3>4, <3>5
  <2>4. ibitmap \subseteq ibitmap'
    OBVIOUS
  <2>5. \A x \in NamesAt' : (x \in NamesAt /\ Named(x)' = Named(x)) \/ (x[1] = i /\ Named(x)' = e)
    BY <2>3
  <2>6. \A x, y \in NamesAt' : \/ x \in NamesAt /\ Named(x)' = Named(x)
                               \/ y \in NamesAt /\ Named(y)' = Named(y)
                               \/ x = y
    <3> SUFFICES ASSUME NEW x \in NamesAt', NEW y \in NamesAt', ~Old(x), ~Old(y) PROVE x = y
      OBVIOUS
    <3>1. x = <<i, <<k, c>>>>
      BY <2>3
    <3>2. y = <<i, <<k, c>>>>
      BY <2>3
    <3> QED
      BY <3>1, <3>2
  <2> QED
    BY ONLY <2>4, <2>5, <2>6, NamesGrow, InodesApart, Fresh(i, e)
<1> QED
  BY <1>1, <1>2

LEMMA AddNames ==
    ASSUME TypeInv, BlockInv, NamesInv, Single, NEW t \in Thread, Busy(t),
           Head(todo[t]) \in {"add", "add dot", "add dotdot"},
           NEW dir, NEW name, NEW ino, AddEntry(t, dir, name, ino),
           dir.valid => /\ dir.ino \in Slot /\ inodes[dir.ino] = dir
                        /\ Fresh(dir.ino, [name |-> name, ino |-> ino])
    PROVE  NamesInv'
<1> DEFINE l == loc[t]
           s == todo[t]
           e == [name |-> name, ino |-> ino]
           f == [l EXCEPT !.dir = dir, !.entry = e]
           P == GetAvailBlkno \o <<"new block">> \o Writei
           k == Min(Room(dir))
           b == dir.ptr[k]
           c == Min({d \in Cell : ~IsEntry(BioRead(b)[d])})
<1>0. PICK m, r, q : m = f /\ r = Tail(s) /\ q = P \o r
  OBVIOUS
<1>1. /\ l \in Local /\ Program(s) /\ s # <<>> /\ HandlerInv(s, l)
      /\ Range(s) = {Head(s)} \cup Range(r) /\ \A x \in Range(r) : Before(Head(s), x)
      /\ r # <<>> => Follows(Head(s), Head(r))
      /\ HandlerTypes /\ DiskTypes /\ DiskInv /\ InodesApart
      /\ BitsNames(s, l) /\ (Live # {} => Root \in ibitmap)
  BY <1>0, BlockAt, HandlerAt, NamesWhere DEF TypeInv
<1>2. m.op = l.op /\ m.node = l.node /\ m.path = l.path /\ m.dir = dir /\ m.entry = e
  BY <1>0, <1>1 DEF Local
<1>3. /\ \/ Return(t) /\ data' = data
         \/ Continue(t, m) /\ data' = data
         \/ Go(t, q, m) /\ dir.valid /\ data' = data
         \/ /\ dir.valid /\ Room(dir) # {} /\ b # INVALID /\ Continue(t, m)
            /\ BioWrite(b, [BioRead(b) EXCEPT ![c] = m.entry])
      /\ UNCHANGED <<inodes, ibitmap>>
  BY <1>0 DEF AddEntry
<1>4. l.op \in {"mkfs", "create", "mkdir"}
  <2>1. Head(s) \in StepsOf(l.op)
    BY <1>1, CallTail DEF HandlerInv
  <2> QED
    BY <1>1, <2>1 DEF StepsOf, WriteiSteps, GetBlkSteps, Local
<1>5. CASE Return(t) /\ data' = data
  BY <1>3, <1>5, ReturnNames
<1>6. r # <<>> => BitsNames(r, m) /\ PathNames(r, m) /\ PlaceNames(r, m)
  <2> SUFFICES ASSUME r # <<>> PROVE BitsNames(r, m) /\ PathNames(r, m) /\ PlaceNames(r, m)
    OBVIOUS
  <2>1. Head(r) \in {"new file", "new directory", "add dotdot", "link"}
    BY <1>1 DEF Follows
  <2>2. BitsNames(r, m)
    <3>1. s # <<>> /\ r = Tail(s) /\ m.op = l.op
      BY <1>0, <1>1, <1>2
    <3>2. Head(s) \notin {"read ibitmap", "take ino", "bitmaps"}
      OBVIOUS
    <3> HIDE DEF l, s
    <3> QED
      BY <1>1, <3>1, <3>2, BitsTail
  <2>3. PathNames(r, m)
    BY <1>2, <1>4, <2>1 DEF PathNames
  <2>4. PlaceNames(r, m)
    BY <2>1 DEF PlaceNames, WriteiSteps
  <2> QED
    BY <2>2, <2>3, <2>4
<1>7. CASE Continue(t, m) /\ data' = data
  BY <1>0, <1>2, <1>3, <1>6, <1>7, QuietNamesContinue
<1>8. CASE Go(t, q, m) /\ dir.valid /\ data' = data
  <2>1. /\ q # <<>> /\ Head(q) = "read dbitmap"
        /\ Range(q) = NewBlockSteps \cup Range(r)
    BY <1>0, <1>1, AddSteps
  <2>2. BitsNames(q, m)
    <3>1. \A x \in {"bitmaps", "take ino"} : x \in Range(q) <=> x \in Range(s)
      BY <1>1, <2>1 DEF NewBlockSteps
    <3> QED
      BY <1>1, <1>2, <2>1, <3>1 DEF BitsNames
  <2>3. PathNames(q, m)
    BY <1>2, <1>4, <2>1 DEF PathNames
  <2>4. PlaceNames(q, m)
    BY <1>2, <1>8, <2>1 DEF PlaceNames, WriteiSteps
  <2> QED
    BY <1>3, <1>8, <2>1, <2>2, <2>3, <2>4, QuietNamesGo DEF NameInv
<1>9. CASE /\ dir.valid /\ Room(dir) # {} /\ b # INVALID /\ Continue(t, m)
           /\ BioWrite(b, [BioRead(b) EXCEPT ![c] = m.entry])
  <2>1. /\ dir.ino \in Live /\ inodes[dir.ino] = dir /\ Fresh(dir.ino, e) /\ m.entry = e
        /\ UNCHANGED <<inodes, ibitmap>>
    BY <1>2, <1>3, <1>9 DEF Live
  <2>2. k \in Ptr /\ c \in Cell
    BY <1>9, RoomPlace
  <2>3. PICK i, kk, bb, cc : i = dir.ino /\ kk = k /\ bb = b /\ cc = c
    OBVIOUS
  <2>4. BioWrite(bb, [BioRead(bb) EXCEPT ![cc] = e]) /\ bb # INVALID
    BY <1>9, <2>1, <2>3
  <2>5. i \in Live /\ kk \in Ptr /\ cc \in Cell /\ bb = inodes[i].ptr[kk] /\ Fresh(i, e)
    BY <2>1, <2>2, <2>3
  <2> HIDE DEF e, k, b, c
  <2>6. InodesApart'
    BY <1>1, <2>1, <2>4, <2>5, EntryWritten
  <2>7. Live' # {} => Root \in ibitmap'
    BY <1>1, <2>1 DEF Live
  <2>8. ASSUME r # <<>> PROVE NameInv(r, m)'
    <3>1. Head(r) \in {"new file", "new directory", "add dotdot", "link"}
      BY <1>1, <2>8 DEF Follows
    <3>2. BitsNames(r, m)'
      BY <1>6, <2>1, <2>8 DEF BitsNames
    <3>3. PathNames(r, m)'
      BY <1>2, <1>4, <3>1 DEF PathNames
    <3>4. PlaceNames(r, m)'
      BY <3>1 DEF PlaceNames, WriteiSteps
    <3> QED
      BY <3>2, <3>3, <3>4 DEF NameInv
  <2>9. Go(t, r, m)
    BY <1>0, <1>9 DEF Continue
  <2> QED
    BY <1>1, <2>6, <2>7, <2>8, <2>9, NamesGo
<1> QED
  BY <1>3, <1>5, <1>7, <1>8, <1>9

LEMMA AddsNames ==
    ASSUME TypeInv, BlockInv, NamesInv, Single, NEW t \in Thread,
           AddName(t) \/ AddDot(t) \/ AddDotdot(t)
    PROVE  NamesInv'
<1> DEFINE l == loc[t]
           s == todo[t]
<1>1. /\ Busy(t) /\ Head(s) \in {"add", "add dot", "add dotdot"}
      /\ l \in Local /\ LocAt(s, l) /\ HandlerInv(s, l) /\ DiskInv /\ HandlerTypes
      /\ Program(s) /\ s # <<>> /\ PathNames(s, l)
      /\ Range(s) = {Head(s)} \cup Range(Tail(s))
      /\ \A b \in Range(Tail(s)) : Before(Head(s), b)
  BY BlockAt, HandlerAt, NamesWhere DEF AddName, AddDot, AddDotdot, At, TypeInv
<1>2. OutInv(s, l) /\ NodeInv(s, l) /\ Head(s) \in StepsOf(l.op)
  BY <1>1, CallTail DEF HandlerInv
<1>3. \A i, j : Fresh(i, [name |-> ".", ino |-> j]) /\ Fresh(i, [name |-> "..", ino |-> j])
  BY Dots DEF Fresh
<1>4. CASE AddName(t)
  <2>1. Head(s) = "add"
    BY <1>4 DEF AddName, At
  <2>2. l.op \in {"create", "mkdir"}
    BY <1>2, <2>1 DEF StepsOf, MkfsSteps, NewBlockSteps, WriteiSteps, GetBlkSteps
  <2>3. l.node.valid => /\ inodes[l.node.ino] = l.node
                        /\ Absent(l.node.ino, Basename(l.path)) /\ Unnamed(l.ino)
    BY <1>1, <1>2, <2>1, <2>2 DEF NodeInv, PathNames
  <2>4. l.node.ino \in Slot
    BY <1>1 DEF Local, Inode
  <2>5. l.node.valid => Fresh(l.node.ino, [name |-> Basename(l.path), ino |-> l.ino])
    BY <2>3 DEF Fresh
  <2> QED
    BY <1>1, <1>4, <2>3, <2>4, <2>5, AddNames DEF AddName
<1>5. CASE AddDot(t)
  <2>1. Head(s) = "add dot"
    BY <1>5 DEF AddDot, At
  <2>2. inodes[l.out.ino] = l.out /\ l.out.ino \in Slot
    BY <1>1, <1>2, <2>1 DEF OutInv, Local, Inode
  <2> QED
    BY <1>1, <1>3, <1>5, <2>2, AddNames DEF AddDot
<1>6. CASE AddDotdot(t)
  <2>1. Head(s) = "add dotdot"
    BY <1>6 DEF AddDotdot, At
  <2>2. "take ino" \notin Range(s)
    BY <1>1, <2>1 DEF Before, Past
  <2>3. l.ino \in Slot
    BY <1>1, <2>2 DEF LocAt
  <2>4. inodes[l.ino].valid => inodes[l.ino].ino = l.ino
    BY <1>1, <2>3 DEF DiskInv, Live
  <2> QED
    BY <1>1, <1>3, <1>6, <2>3, <2>4, AddNames DEF AddDotdot
<1> QED
  BY <1>4, <1>5, <1>6


\* A block that was taken holds no names, nor does one of a file that is alone in using it.
LEMMA FreeBlock ==
    ASSUME NEW b, b = NoBlock \/ Taken(b), NEW i \in Live, NEW k \in Ptr,
           inodes[i].ptr[k] # INVALID, b \in DataBlock
    PROVE  inodes[i].ptr[k] # b
<1>1. b # NoBlock /\ b # INVALID
  BY Sizes DEF NoBlock, DataBlock, INVALID
<1>2. b \notin Uses(inodes[i])
  BY <1>1 DEF Taken
<1> QED
  BY <1>1, <1>2 DEF Uses

LEMMA NewBlockNames ==
    ASSUME TypeInv, BlockInv, NamesInv, Single, NEW t \in Thread, NewBlock(t)
    PROVE  NamesInv'
<1>0. PICK s, r, l, k, b, e, i, d :
         /\ s = todo[t] /\ r = Tail(s) /\ l = loc[t]
         /\ k = Min({j \in Ptr : l.dir.ptr[j] = INVALID})
         /\ b = l.blk /\ e = l.entry /\ i = l.dir.ino /\ d = l.dir
  OBVIOUS
<1>1. PICK o, m : o = [d EXCEPT !.ptr[k] = b] /\ m = [l EXCEPT !.out = o]
  OBVIOUS
<1>2. /\ Busy(t) /\ Head(s) = "new block" /\ DiskTypes /\ HandlerTypes /\ l \in Local
      /\ Program(s) /\ s # <<>> /\ DiskInv /\ HandlerInv(s, l)
      /\ InodesApart /\ BitsNames(s, l) /\ PathNames(s, l) /\ PlaceNames(s, l)
      /\ (Live # {} => Root \in ibitmap)
      /\ Go(t, r, m) /\ BioWrite(b, [Zeroed EXCEPT ![0] = e]) /\ UNCHANGED <<inodes, ibitmap>>
  BY <1>0, <1>1, BlockAt, HandlerAt, NamesWhere DEF NewBlock, At, TypeInv, Continue
<1>3. CallInv(s, l) /\ TakenInv(s, l) /\ "new block" \in StepsOf(l.op)
  BY <1>2, CallTail DEF HandlerInv
<1>4. l.op \in {"mkfs", "create", "mkdir"} /\ d \in Inode /\ i \in Slot
  BY <1>0, <1>2, <1>3 DEF StepsOf, GetBlkSteps, WriteiSteps, Local, Inode
<1>5. /\ d.valid /\ inodes[i] = d /\ i \in Live /\ (b = NoBlock \/ Taken(b))
      /\ Fresh(i, e) /\ Root \in ibitmap
  <2>1. l.dir.valid /\ inodes[l.dir.ino] = l.dir /\ (l.blk = NoBlock \/ Taken(l.blk))
    BY <1>2, <1>3, <1>4 DEF TakenInv
  <2>2. Fresh(l.dir.ino, l.entry)
    BY <1>2, <1>4 DEF PlaceNames
  <2> QED
    BY <1>0, <1>2, <1>4, <2>1, <2>2 DEF Live
<1>6. /\ o.ino = i /\ o.valid /\ o.type = d.type
      /\ \A j \in Ptr : o.ptr[j] = IF j = k THEN b ELSE d.ptr[j]
  <2>1. d.ptr \in [Ptr -> Block \cup {NoBlock}]
    BY <1>4 DEF Inode
  <2>2. o.ino = i /\ o.valid /\ o.type = d.type /\ o.ptr = [d.ptr EXCEPT ![k] = b]
    BY <1>0, <1>1, <1>4, <1>5 DEF Inode
  <2> QED
    BY <2>1, <2>2
<1>7. m.op = l.op /\ m.node = l.node /\ m.path = l.path /\ m.out = o
  BY <1>1, <1>2 DEF Local
<1>8. \A j \in Live, p \in Ptr : inodes[j].ptr[p] # INVALID =>
         BioRead(inodes[j].ptr[p])' = BioRead(inodes[j].ptr[p])
  <2> SUFFICES ASSUME NEW j \in Live, NEW p \in Ptr, inodes[j].ptr[p] # INVALID
               PROVE  BioRead(inodes[j].ptr[p])' = BioRead(inodes[j].ptr[p])
    BY <1>2
  <2>1. CASE b \in DataBlock
    <3>1. inodes[j].ptr[p] # b
      BY <1>5, <2>1, FreeBlock
    <3>2. \A x : x # b => BioRead(x)' = BioRead(x)
      BY <1>2, BlockWritten
    <3> QED
      BY <1>2, <3>1, <3>2
  <2>2. CASE b \notin DataBlock
    <3>1. data' = data
      BY <1>2, <2>2, BlockWritten
    <3> QED
      BY <1>2, <3>1 DEF BioRead
  <2> QED
    BY <2>1, <2>2
<1>9. \A x \in NamesAt' : x \in NamesAt /\ Named(x)' = Named(x)
  BY <1>2, <1>8, NamesUntouched
<1>10. InodesApart' /\ Fresh(i, e)'
  <2>1. ibitmap \subseteq ibitmap'
    BY <1>2
  <2> QED
    BY <1>2, <1>5, <1>9, <2>1, NamesShrink
<1>11. Root \in ibitmap'
  BY <1>2, <1>5
<1>12. ASSUME NEW a \in NamesIn(o)', o.type = "directory"
       PROVE  \/ <<i, a>> \in NamesAt' /\ Named(<<i, a>>)' = EntryAt(o, a)'
              \/ a = <<k, 0>> /\ EntryAt(o, a)' = e
  <2>1. a \in Ptr \X Cell /\ a[1] \in Ptr /\ a[2] \in Cell /\ o.ptr[a[1]] # INVALID
        /\ IsEntry(EntryAt(o, a)') /\ EntryAt(o, a)'.name \in Names
    BY <1>12 DEF NamesIn, EntriesAt
  <2>2. CASE a[1] # k
    <3>1. d.ptr[a[1]] = o.ptr[a[1]]
      BY <1>6, <2>1, <2>2
    <3>2. EntryAt(inodes[i], a)' = EntryAt(o, a)'
      BY <1>2, <1>5, <3>1 DEF EntryAt
    <3>3. a \in NamesIn(inodes[i])'
      BY <1>2, <1>5, <2>1, <3>1, <3>2 DEF NamesIn, EntriesAt
    <3>4. <<i, a>> \in NamesAt'
      <4>1. inodes'[i].valid /\ inodes'[i].type = "directory"
        BY <1>2, <1>5, <1>6, <1>12
      <4> QED
        BY ONLY <1>4, <3>3, <4>1 DEF NamesAt, NamesIn
    <3>5. Named(<<i, a>>)' = EntryAt(o, a)'
      BY <3>2 DEF Named
    <3> QED
      BY <3>4, <3>5
  <2>3. CASE a[1] = k
    <3>1. EntryAt(o, a)' = BioRead(b)'[a[2]]
      BY <1>6, <2>1, <2>3 DEF EntryAt
    <3>2. b \in DataBlock
      <4>1. ASSUME b \notin DataBlock PROVE FALSE
        <5>1. BioRead(b)' = Zeroed
          BY <1>2, <4>1, BlockWritten
        <5>2. EntryAt(o, a)' = Zero
          BY <2>1, <3>1, <5>1 DEF Zeroed
        <5> QED
          BY <2>1, <5>2 DEF IsEntry
      <4> QED
        BY <4>1
    <3>3. BioRead(b)' = [Zeroed EXCEPT ![0] = e]
      BY <1>2, <3>2, BlockWritten
    <3>4. a[2] = 0
      <4>1. ASSUME a[2] # 0 PROVE FALSE
        <5>1. EntryAt(o, a)' = Zero
          BY <2>1, <3>1, <3>3, <4>1 DEF Zeroed
        <5> QED
          BY <2>1, <5>1 DEF IsEntry
      <4> QED
        BY <4>1
    <3>5. EntryAt(o, a)' = e
      BY <2>1, <3>1, <3>3, <3>4 DEF Zeroed
    <3> QED
      BY <2>1, <2>3, <3>4, <3>5
  <2> QED
    BY <2>2, <2>3
<1>13. OutNames(o)'
  <2>1. ASSUME o.type = "directory", NEW a \in NamesIn(o)', a \notin Kept(o)'
        PROVE  a = <<k, 0>> /\ EntryAt(o, a)' = e
    BY <1>6, <1>12, <2>1 DEF Kept
  <2> QED
    BY <1>6, <1>10, <2>1 DEF OutNames
<1>14. ASSUME r # <<>> PROVE NameInv(r, m)'
  <2>1. Head(r) = "read inodes"
    BY <1>0, <1>2, <1>14, ProgramTail DEF Follows
  <2>2. BitsNames(r, m)
    BY <1>0, <1>2, <1>7, <1>14, BitsTail
  <2>3. BitsNames(r, m)'
    BY <1>2, <2>2 DEF BitsNames
  <2>4. PathNames(r, m)'
    BY <1>4, <1>7, <2>1 DEF PathNames
  <2>5. PlaceNames(r, m)'
    BY <1>7, <1>11, <1>13, <2>1 DEF PlaceNames
  <2> QED
    BY <2>3, <2>4, <2>5 DEF NameInv
<1> QED
  BY <1>2, <1>10, <1>11, <1>14, NamesGo

\* rufs_write fills a block that was taken, or one of its file.
LEMMA FillElsewhere ==
    ASSUME TypeInv, BlockInv, NamesInv, NEW t \in Thread, FillBlock(t)
    PROVE  \A i \in Live, k \in Ptr :
              inodes[i].type = "directory" /\ inodes[i].ptr[k] # INVALID =>
                 BioRead(inodes[i].ptr[k])' = BioRead(inodes[i].ptr[k])
<1>0. PICK s, r, l : s = todo[t] /\ r = Tail(s) /\ l = loc[t]
  OBVIOUS
<1> DEFINE x == IF l.node.ptr[Pointer(l)] = INVALID THEN l.blk ELSE l.node.ptr[Pointer(l)]
           n == Min({l.len - l.done, Cells - Offset(l)})
           y == [d \in Cell |-> IF d \in Offset(l)..(Offset(l) + n - 1)
                                THEN Datum(l, d - Offset(l)) ELSE BioRead(x)[d]]
<1>1. PICK k, b, z : k = Pointer(l) /\ b = x /\ z = y
  OBVIOUS
<1>2. PICK m : m = [l EXCEPT !.node.ptr[k] = b, !.done = @ + n]
  OBVIOUS
<1>3. /\ Busy(t) /\ Head(s) = "fill" /\ UNCHANGED <<inodes, ibitmap>>
      /\ Program(s) /\ s # <<>> /\ Go(t, r, m) /\ BioWrite(b, z)
      /\ HandlerTypes /\ DiskTypes /\ LocAt(s, l) /\ "fill" \in Range(s)
      /\ PathNames(s, l)
  BY <1>0, <1>1, <1>2, HandlerAt, NamesWhere DEF FillBlock, At, TypeInv, Continue
<1>4. /\ l.op = "write" /\ l \in Local /\ l.node \in Inode /\ l.node.valid /\ Own(l.node)
      /\ inodes[l.node.ino].valid /\ l.node.ino \in Slot /\ HandlerInv(s, l)
  BY <1>0, <1>3, TransferAt
<1>5. l.node.type = "file" /\ inodes[l.node.ino].type = "file"
  BY <1>3, <1>4 DEF PathNames
<1>6. k \in Ptr
  BY <1>1, <1>3 DEF LocAt
<1>7. \/ b = NoBlock \/ Taken(b)
      \/ b \in Uses(l.node)
  <2>1. CASE l.node.ptr[k] = INVALID
    <3>1. TakenInv(s, l)
      BY <1>4 DEF HandlerInv
    <3> QED
      BY <1>1, <1>3, <2>1, <3>1 DEF TakenInv
  <2>2. CASE l.node.ptr[k] # INVALID
    BY <1>1, <1>6, <2>2 DEF Uses
  <2> QED
    BY <2>1, <2>2
<1> HIDE DEF x, y, n
<1>8. \A j \in Live, p \in Ptr :
         inodes[j].type = "directory" /\ inodes[j].ptr[p] # INVALID =>
            BioRead(inodes[j].ptr[p])' = BioRead(inodes[j].ptr[p])
  <2> SUFFICES ASSUME NEW j \in Live, NEW p \in Ptr, inodes[j].type = "directory",
                      inodes[j].ptr[p] # INVALID
               PROVE  BioRead(inodes[j].ptr[p])' = BioRead(inodes[j].ptr[p])
    BY <1>3
  <2>1. CASE b \in DataBlock
    <3>1. inodes[j].ptr[p] # b
      <4>1. CASE b = NoBlock \/ Taken(b)
        BY <2>1, <4>1, FreeBlock
      <4>2. CASE b \in Uses(l.node)
        <5>1. j # l.node.ino
          BY <1>5
        <5>2. b \notin Uses(inodes[j])
          BY <1>4, <4>2, <5>1 DEF Own
        <5>3. b \notin {INVALID, NoBlock}
          BY <4>2 DEF Uses
        <5> QED
          BY <5>2, <5>3 DEF Uses
      <4> QED
        BY <1>7, <4>1, <4>2
    <3>2. \A d : d # b => BioRead(d)' = BioRead(d)
      BY <1>3, BlockWritten
    <3> QED
      BY <1>3, <3>1, <3>2
  <2>2. CASE b \notin DataBlock
    <3>1. data' = data
      BY <1>3, <2>2, BlockWritten
    <3> QED
      BY <1>3, <3>1 DEF BioRead
  <2> QED
    BY <2>1, <2>2
<1> QED
  BY <1>8

LEMMA FillNames ==
    ASSUME TypeInv, BlockInv, NamesInv, Single, NEW t \in Thread, FillBlock(t)
    PROVE  NamesInv'
<1>0. PICK s, r, l : s = todo[t] /\ r = Tail(s) /\ l = loc[t]
  OBVIOUS
<1> DEFINE x == IF l.node.ptr[Pointer(l)] = INVALID THEN l.blk ELSE l.node.ptr[Pointer(l)]
           n == Min({l.len - l.done, Cells - Offset(l)})
           y == [d \in Cell |-> IF d \in Offset(l)..(Offset(l) + n - 1)
                                THEN Datum(l, d - Offset(l)) ELSE BioRead(x)[d]]
<1>1. PICK k, b, z : k = Pointer(l) /\ b = x /\ z = y
  OBVIOUS
<1>2. PICK m : m = [l EXCEPT !.node.ptr[k] = b, !.done = @ + n]
  OBVIOUS
<1>3. /\ Busy(t) /\ Head(s) = "fill" /\ UNCHANGED <<inodes, ibitmap>>
      /\ Program(s) /\ s # <<>> /\ Go(t, r, m) /\ BioWrite(b, z)
      /\ HandlerTypes /\ DiskTypes /\ LocAt(s, l) /\ "fill" \in Range(s)
      /\ InodesApart /\ BitsNames(s, l) /\ PathNames(s, l) /\ (Live # {} => Root \in ibitmap)
  BY <1>0, <1>1, <1>2, HandlerAt, NamesWhere DEF FillBlock, At, TypeInv, Continue
<1>4. /\ l.op = "write" /\ l \in Local /\ l.node \in Inode /\ l.node.valid /\ Own(l.node)
      /\ inodes[l.node.ino].valid /\ l.node.ino \in Slot /\ HandlerInv(s, l)
  BY <1>0, <1>3, TransferAt
<1>5. l.node.type = "file" /\ inodes[l.node.ino].type = "file"
  BY <1>3, <1>4 DEF PathNames
<1>7. m.op = "write" /\ m.node.type = "file" /\ m.node.ino = l.node.ino
  BY <1>2, <1>4, <1>5 DEF Local, Inode
<1>9. \A j \in Live, p \in Ptr :
         inodes[j].type = "directory" /\ inodes[j].ptr[p] # INVALID =>
            BioRead(inodes[j].ptr[p])' = BioRead(inodes[j].ptr[p])
  BY FillElsewhere
<1>10. \A w \in NamesAt' : w \in NamesAt /\ Named(w)' = Named(w)
  BY <1>3, <1>9, NamesUntouched
<1>11. InodesApart'
  <2>1. ibitmap \subseteq ibitmap'
    BY <1>3
  <2> QED
    BY <1>3, <1>10, <2>1, NamesShrink
<1>12. Live' # {} => Root \in ibitmap'
  BY <1>3 DEF Live
<1>13. ASSUME r # <<>> PROVE NameInv(r, m)'
  <2>1. Head(r) = "write" /\ Range(s) = {Head(s)} \cup Range(r)
    BY <1>0, <1>3, <1>13, ProgramTail DEF Follows
  <2>2. BitsNames(r, m)'
    <3>1. "bitmaps" \in Range(r) => "take ino" \in Range(r)
      BY <1>3, <2>1 DEF BitsNames
    <3> QED
      BY <1>7, <2>1, <3>1 DEF BitsNames
  <2>3. PathNames(r, m)'
    BY <1>3, <1>5, <1>7 DEF PathNames
  <2>4. PlaceNames(r, m)'
    BY <2>1 DEF PlaceNames, WriteiSteps
  <2> QED
    BY <2>2, <2>3, <2>4 DEF NameInv
<1> QED
  BY <1>3, <1>11, <1>12, <1>13, NamesGo


LEMMA WriteInodesNames ==
    ASSUME TypeInv, BlockInv, NamesInv, Single, Sheltered, NEW t \in Thread, WriteInodes(t)
    PROVE  NamesInv'
<1>0. PICK s, r, l, o : s = todo[t] /\ r = Tail(s) /\ l = loc[t] /\ o = l.out
  OBVIOUS
<1>1. /\ Busy(t) /\ Head(s) = "write inodes" /\ Program(s) /\ s # <<>>
      /\ HandlerInv(s, l) /\ HandlerTypes
      /\ InodesApart /\ BitsNames(s, l) /\ PlaceNames(s, l)
      /\ (Live # {} => Root \in ibitmap)
      /\ r # <<>> => Follows(Head(s), Head(r)) /\ Head(r) \in Range(r)
      /\ Go(t, r, l) /\ UNCHANGED <<data, ibitmap>>
  BY <1>0, BlockAt, HandlerAt, NamesWhere, ShelteredWrite
     DEF WriteInodes, At, TypeInv, Continue
<1>2. /\ o.ino \in Slot
      /\ \A j \in Slot : inodes'[j] = IF j = o.ino THEN o ELSE inodes[j]
      /\ Live' = (Live \ {o.ino}) \cup (IF o.valid THEN {o.ino} ELSE {})
  BY <1>0, WriteInodesEffect
<1>3. OutNames(o) /\ (o.valid => Root \in ibitmap)
  BY <1>0, <1>1 DEF PlaceNames, WriteiSteps
<1>4. Live' # {} => Root \in ibitmap'
  BY <1>1, <1>2, <1>3
<1>5. \A n, a : EntryAt(n, a)' = EntryAt(n, a) /\ (a \in NamesIn(n)' <=> a \in NamesIn(n))
  <2>1. \A n, a : EntryAt(n, a)' = EntryAt(n, a)
    BY <1>1 DEF EntryAt, BioRead
  <2> QED
    BY <2>1 DEF NamesIn, EntriesAt
<1> DEFINE Old(x) == x \in NamesAt /\ Named(x)' = Named(x)
           Added(a) == o.valid /\ o.type = "directory" /\ a \in NamesIn(o) \ Kept(o)
<1>6. ASSUME NEW x \in NamesAt'
      PROVE  Old(x) \/ \E a : Added(a) /\ x = <<o.ino, a>> /\ Named(x)' = EntryAt(o, a)
  <2>1. PICK j, a : /\ x = <<j, a>> /\ j \in Slot /\ inodes'[j].valid
                    /\ inodes'[j].type = "directory" /\ a \in NamesIn(inodes[j])'
    BY <1>6 DEF NamesAt, NamesIn
  <2>2. PICK v : v = inodes'[j]
    OBVIOUS
  <2>3. v.valid /\ v.type = "directory" /\ a \in NamesIn(v) /\ Named(x)' = EntryAt(v, a)
    <3>1. a \in NamesIn(v)' /\ EntryAt(inodes[j], a)' = EntryAt(v, a)'
      BY <2>1, <2>2 DEF NamesIn, EntriesAt, EntryAt
    <3> QED
      BY <1>5, <2>1, <2>2, <3>1 DEF Named
  <2>4. CASE j # o.ino
    <3>1. v = inodes[j]
      BY <1>2, <2>1, <2>2, <2>4
    <3> QED
      BY <2>1, <2>3, <3>1, NamesPlaces
  <2>5. CASE j = o.ino
    <3>1. v = o
      BY <1>2, <2>1, <2>2, <2>5
    <3>2. CASE a \in Kept(o)
      BY <2>1, <2>3, <2>5, <3>1, <3>2 DEF Kept
    <3>3. CASE a \notin Kept(o)
      BY <2>1, <2>3, <2>5, <3>1, <3>3
    <3> QED
      BY <3>2, <3>3
  <2> QED
    BY <2>4, <2>5
<1>7. ibitmap \subseteq ibitmap'
  BY <1>1
<1>8. InodesApart'
  <2>1. CASE \A a : ~Added(a)
    <3>1. \A x \in NamesAt' : x \in NamesAt /\ Named(x)' = Named(x)
      BY <1>6, <2>1
    <3> QED
      BY <1>1, <1>7, <3>1, NamesShrink
  <2>2. CASE \E a : Added(a)
    <3>1. PICK a : Added(a)
      BY <2>2
    <3>2. PICK d, e : d = o.ino /\ e = EntryAt(o, a)
      OBVIOUS
    <3>3. Fresh(d, e) /\ \A b : Added(b) => a = b
      BY <1>3, <3>1, <3>2 DEF OutNames
    <3>4. \A x \in NamesAt' : Old(x) \/ (x = <<d, a>> /\ Named(x)' = e)
      BY <1>6, <3>2, <3>3
    <3>5. \A x \in NamesAt' : \/ x \in NamesAt /\ Named(x)' = Named(x)
                              \/ x[1] = d /\ Named(x)' = e
      BY <3>4
    <3>6. \A x, y \in NamesAt' : \/ x \in NamesAt /\ Named(x)' = Named(x)
                                 \/ y \in NamesAt /\ Named(y)' = Named(y)
                                 \/ x = y
      <4> SUFFICES ASSUME NEW x \in NamesAt', NEW y \in NamesAt', ~Old(x), ~Old(y) PROVE x = y
        OBVIOUS
      <4>1. x = <<d, a>>
        BY <3>4
      <4>2. y = <<d, a>>
        BY <3>4
      <4> QED
        BY <4>1, <4>2
    <3>7. InodesApart
      BY <1>1
    <3> QED
      BY ONLY <1>7, <3>3, <3>5, <3>6, <3>7, NamesGrow
  <2> QED
    BY <2>1, <2>2
<1>9. ASSUME r # <<>> PROVE NameInv(r, l)'
  <2>1. Head(r) \in {"clear inodes", "new file", "new directory", "add dot", "add dotdot", "link"}
    BY <1>1, <1>9 DEF Follows
  <2>2. BitsNames(r, l)
    BY <1>0, <1>1, <1>9, BitsTail
  <2>3. BitsNames(r, l)'
    BY <1>1, <2>2 DEF BitsNames
  <2>4. l.op \notin {"read", "write"}
    <3>1. Range(r) \subseteq StepsOf(l.op)
      BY <1>0, <1>1, CallTail DEF HandlerInv
    <3>2. Head(r) \in StepsOf(l.op)
      BY <1>1, <1>9, <3>1
    <3> QED
      BY <2>1, <3>2 DEF StepsOf, WriteiSteps, GetBlkSteps
  <2>5. PathNames(r, l)'
    BY <2>1, <2>4 DEF PathNames
  <2>6. PlaceNames(r, l)'
    BY <2>1 DEF PlaceNames, WriteiSteps
  <2> QED
    BY <2>3, <2>5, <2>6 DEF NameInv
<1> QED
  BY <1>1, <1>4, <1>8, <1>9, NamesGo

LEMMA StillNames ==
    ASSUME TypeInv, NamesInv, Single, UNCHANGED <<disk, todo, loc>>
    PROVE  NamesInv'
<1>1. UNCHANGED <<todo, loc>> /\ UNCHANGED <<inodes, data, ibitmap>>
  BY DEF disk
<1>2. CASE \E t \in Thread : todo[t] # <<>>
  <2>1. PICK t \in Thread : todo[t] # <<>>
    BY <1>2
  <2>2. PICK q, m : q = todo[t] /\ m = loc[t]
    OBVIOUS
  <2>3. NameInv(q, m) /\ q # <<>> /\ HandlerTypes
    BY <2>1, <2>2 DEF NamesInv, TypeInv
  <2>4. Go(t, q, m)
    BY <1>1, <2>2, <2>3 DEF Go, HandlerTypes
  <2>5. Head(q) = "lookup" => m.path \in Paths
    BY <2>1, <2>2, <2>3, LookUpPath DEF Busy
  <2> QED
    BY <1>1, <2>3, <2>4, <2>5, QuietNamesGo
<1>3. CASE \A t \in Thread : todo[t] = <<>>
  BY <1>1, <1>3, NamesFrame, NamesStay DEF NamesInv
<1> QED
  BY <1>2, <1>3

LEMMA CallNames ==
    ASSUME TypeInv, NamesInv, Single, NEW t \in Thread, CallStep(t)
    PROVE  NamesInv'
<1>1. CASE Mount(t)
  <2>1. CASE found
    BY <1>1, <2>1, StillNames DEF Mount
  <2>2. CASE ~found
    <3>0. PICK q, m : q = Mkfs /\ m = [Rest EXCEPT !.op = "mkfs", !.ino = 1]
      OBVIOUS
    <3>1. Go(t, q, m) /\ UNCHANGED <<inodes, data, ibitmap>>
      BY <1>1, <2>2, <3>0 DEF Mount, disk
    <3>2. q # <<>> /\ Head(q) = "format" /\ Range(q) = MkfsSteps
      BY <3>0, MkfsFits DEF Fits
    <3>3. m.op = "mkfs"
      BY <3>0 DEF Rest
    <3>4. BitsNames(q, m)
      BY <3>2 DEF BitsNames, MkfsSteps
    <3>5. PathNames(q, m) /\ PlaceNames(q, m)
      BY <3>2, <3>3 DEF PathNames, PlaceNames, WriteiSteps
    <3> QED
      BY <3>1, <3>2, <3>4, <3>5, QuietNamesGo DEF NameInv
  <2> QED
    BY <2>1, <2>2
<1>2. ASSUME NEW op \in {"create", "mkdir"}, NEW path \in Paths, CallNew(t, op, path)
      PROVE  NamesInv'
  <2>0. PICK q, m : /\ q = IF op = "create" THEN Create ELSE Mkdir
                    /\ m = [Rest EXCEPT !.op = op, !.path = path]
    OBVIOUS
  <2>1. Go(t, q, m) /\ UNCHANGED <<inodes, data, ibitmap>> /\ Walk(path) = Missing
    BY <1>2, <2>0 DEF CallNew, disk
  <2>2. /\ q # <<>> /\ Head(q) = "lookup"
        /\ Range(q) = IF op = "create" THEN CreateSteps ELSE MkdirSteps
    BY <2>0, CreateFits, MkdirFits DEF Fits
  <2>3. m.op = op /\ m.path = path
    BY <2>0 DEF Rest
  <2>4. BitsNames(q, m)
    BY <2>2, <2>3 DEF BitsNames, CreateSteps, MkdirSteps
  <2>5. PathNames(q, m) /\ PlaceNames(q, m)
    BY <2>1, <2>2, <2>3 DEF PathNames, PlaceNames, WriteiSteps
  <2> QED
    BY <2>1, <2>2, <2>3, <2>4, <2>5, QuietNamesGo DEF NameInv
<1>3. ASSUME NEW op \in {"read", "write"}, NEW path \in Paths, NEW at, NEW v,
             CallTransfer(t, op, path, at, v)
      PROVE  NamesInv'
  <2>0. PICK q, m : /\ q = <<"lookup", op>>
                    /\ m = [Rest EXCEPT !.op = op, !.path = path, !.off = at[1],
                                        !.len = at[2], !.val = v]
    OBVIOUS
  <2>1. Go(t, q, m) /\ UNCHANGED <<inodes, data, ibitmap>>
    BY <1>3, <2>0 DEF CallTransfer, disk
  <2>2. q # <<>> /\ Head(q) = "lookup" /\ Range(q) = {"lookup", op}
    BY <2>0, TransferFits DEF Fits
  <2>3. m.op = op /\ m.path = path
    BY <2>0 DEF Rest
  <2>4. BitsNames(q, m)
    BY <2>2, <2>3 DEF BitsNames
  <2>5. PathNames(q, m) /\ PlaceNames(q, m)
    BY <2>2, <2>3 DEF PathNames, PlaceNames, WriteiSteps
  <2> QED
    BY <2>1, <2>2, <2>3, <2>4, <2>5, QuietNamesGo DEF NameInv
<1> QED
  BY <1>1, <1>2, <1>3 DEF CallStep, Paths

LEMMA EndNames ==
    ASSUME NamesInv, Unmount \/ Crash
    PROVE  NamesInv'
<1>1. UNCHANGED <<inodes, data, ibitmap>>
  BY DEF Unmount, Crash, disk
<1>2. InodesApart' /\ (Live' # {} => Root \in ibitmap')
  BY <1>1, NamesFrame, NamesStay DEF NamesInv
<1>3. \A t \in Thread : todo'[t] = <<>>
  BY DEF Unmount, Crash, Busy
<1> QED
  BY <1>2, <1>3 DEF NamesInv

LEMMA NamesInit == Init => NamesInv
<1> SUFFICES ASSUME Init PROVE NamesInv
  OBVIOUS
<1>1. \A i \in Slot : ~inodes[i].valid
  BY DEF Init, Blank
<1>2. Live = {} /\ NamesAt = {}
  BY <1>1 DEF Live, NamesAt
<1>3. \A t \in Thread : todo[t] = <<>>
  BY DEF Init
<1> QED
  BY <1>2, <1>3 DEF NamesInv, InodesApart

LEMMA NamesNext ==
    ASSUME Single
    PROVE  TypeInv /\ BlockInv /\ NamesInv /\ Sheltered /\ [Next]_vars => NamesInv'
<1> SUFFICES ASSUME TypeInv, BlockInv, NamesInv, Sheltered, [Next]_vars PROVE NamesInv'
  OBVIOUS
<1>1. CASE UNCHANGED vars
  BY <1>1, StillNames DEF vars
<1>2. ASSUME NEW t \in Thread, DiskStep(t) PROVE NamesInv'
  BY <1>2, LookUpNames, BitmapNames, TakeInoNames, ReadInodesNames, WriteInodesNames,
     AddsNames, NewBlockNames, NewInodeNames, LinkNames, FormatNames, ClearNames,
     WriteBitmapsNames, WriteLoopNames, FillNames, ReadFileNames DEF DiskStep
<1> QED
  BY <1>1, <1>2, CallNames, EndNames DEF Next

LEMMA NamesInvariant ==
    ASSUME Single
    PROVE  Spec /\ []Sheltered => []NamesInv
  BY TypeInvariant, BlockInvariant, NamesInit, NamesNext, PTL DEF Spec

\* No inode has two names and no directory the same name twice, and what has a name is
\* marked, as long as one handler runs at a time (FUSE with -s) and the kernel creates only
\* names that it has looked up in vain: wherever a crash cuts a call short, and when blocks
\* and pointers have run out.  When inodes have, the names given all lead to inode 65535, and
\* the rest holds only if that inode lies off the disk; with the code's sizes it lies in data
\* block 4098 (get_avail_ino, dir_add, writei, rufs_create, rufs_mkdir, rufs_mkfs).
THEOREM InodesCorrect ==
    ASSUME Single
    PROVE  Spec /\ []Sheltered => []InodesApart
<1>1. NamesInv => InodesApart
  BY DEF NamesInv
<1> QED
  BY <1>1, NamesInvariant, PTL
=============================================================================
