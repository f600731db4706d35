--------------------------- MODULE UserData_proofs ---------------------------
(* Proofs about UserData: what two saves of one process do to each other, what  *)
(* the file says of memory, and that nothing saved is lost.                     *)
EXTENDS UserData, WellFoundedInduction, NaturalsInduction, TLAPS

-----------------------------------------------------------------------------
(* Least and greatest numbers *)

(* A set of natural numbers that is not empty has a least element, < being *)
(* well-founded.                                                           *)
LEMMA MinimalExists ==
  ASSUME NEW R, NEW S, IsWellFoundedOn(R, Nat), S \subseteq Nat, S # {}
  PROVE  \E n \in S : \A m \in S : ~(<<m, n>> \in R)
BY WFMin

(* The same, stated for a relation that is < on the naturals. *)
LEMMA LeastByRelation ==
  ASSUME NEW R, NEW S, IsWellFoundedOn(R, Nat), S \subseteq Nat, S # {},
         \A m, n \in Nat : <<m, n>> \in R <=> m < n
  PROVE  \E n \in S : \A m \in S : n <= m
<1>1. PICK n \in S : \A m \in S : ~(<<m, n>> \in R)
  BY MinimalExists
<1>2. \A m \in S : n <= m
  <2> TAKE m \in S
  <2>1. m \in Nat /\ n \in Nat
    OBVIOUS
  <2>2. ~(m < n)
    BY <1>1, <2>1
  <2> QED BY <2>1, <2>2
<1> QED BY <1>2

(* So every nonempty set of natural numbers has a least element. *)
LEMMA LeastExists ==
  ASSUME NEW S, S \subseteq Nat, S # {}
  PROVE  \E n \in S : \A m \in S : n <= m
<1>1. \A m, n \in Nat : <<m, n>> \in OpToRel(<, Nat) <=> m < n
  BY DEF OpToRel
<1> QED BY <1>1, NatLessThanWellFounded, LeastByRelation

(* And every nonempty set of naturals with a bound has a greatest one. *)
LEMMA GreatestExists ==
  ASSUME NEW N \in Nat, NEW S \in SUBSET (0..N), S # {}
  PROVE  \E n \in S : \A m \in S : m <= n
<1> DEFINE D == {N - m : m \in S}
<1>1. D \subseteq Nat /\ D # {}
  <2>1. \A m \in S : N - m \in Nat
    OBVIOUS
  <2> QED BY <2>1
<1>2. PICK d \in D : \A e \in D : d <= e
  BY <1>1, LeastExists
<1>3. PICK n \in S : d = N - n
  BY <1>2
<1>4. \A m \in S : m <= n
  <2> TAKE m \in S
  <2>1. N - m \in D
    OBVIOUS
  <2>2. N - n <= N - m
    BY <1>2, <1>3, <2>1
  <2> QED BY <2>2
<1> QED BY <1>4

-----------------------------------------------------------------------------
(* Directories, and what a backup holds.                                      *)

Backups == {b \in [label : Nat, doc : Documents] : b.label # Corrupt => b.doc.is = "whole"}

IsDir(dir) ==
    /\ dir = [e \in Entries |-> dir[e]]
    /\ dir["file"] \in Documents \cup {None}
    /\ dir["backups"] \in Seq(Backups)

ItemsIn(kept) == UNION {kept[i].doc.items : i \in DOMAIN kept}

\* what is safe of a directory whatever becomes of its file
Safe(dir) == ItemsIn(dir["backups"]) \cup HeldIn(old)


Typed ==
    /\ IsDir(here) /\ IsDir(old)
    /\ old["file"] # None => old["file"].is = "whole"
    /\ temp \in Documents \cup {None}
    /\ doc \in [Threads -> Documents]
    /\ ready \subseteq Entries
    /\ mixed \in BOOLEAN /\ behind \in BOOLEAN

-----------------------------------------------------------------------------
(* The inductive invariant.                                                   *)

\* nothing is under way unless the application is up, and a handle is one of a
\* save that has made its temp file
Stages ==
    /\ phase # "up" => mem = {} /\ ~mixed /\ \A t \in Threads : saving[t] = "no"
    /\ store.saves = "reread" => mem = {}
    /\ \A t \in Threads : /\ handle[t] # None => saving[t] = "write"
                          /\ saving[t] = "copy" => store.saves # "reread"

\* the temp file is this save's, as far as it has come
OwnTemp(t) ==
    /\ saving[t] = "write" => handle[t] = "temp" /\ temp = Torn
    /\ saving[t] = "rename" => temp = doc[t]
    /\ saving[t] \in {"create", "write", "rename"} =>
          doc[t].is = "whole" /\ (store.saves # "reread" => doc[t].items = mem)

\* until two saves have overlapped, one at most is under way
Alone ==
    ~mixed => /\ \A t, u \in Threads : saving[t] # "no" /\ saving[u] # "no" => t = u
              /\ \A t \in Threads : OwnTemp(t)

\* what is owed is on disk, and what the next save does not replace, it writes
Owing ==
    /\ ~mixed => owed \subseteq OnDisk
    /\ phase = "up" /\ store.saves # "reread" => owed \subseteq mem \cup Safe(here)
    /\ store.saves = "reread" /\ ~mixed =>
          \A t \in Threads : saving[t] # "no" => owed \subseteq doc[t].items \cup Safe(here)

SavesInv == Stages /\ Alone

-----------------------------------------------------------------------------
(* Lists of backups (backup.rs).                                              *)

\* what rotation drops of a list one longer than it may be
Rotated(kept) == UNION {kept[i].doc.items : i \in 1..(Len(kept) - Len(trim(kept)))}

(* A list cut to its newest is a list, not too long, and what was in it is    *)
(* still there or was dropped by rotation.                                    *)
LEMMA TrimKeeps ==
  ASSUME NEW k \in Seq(Backups)
  PROVE  /\ trim(k) \in Seq(Backups)
         /\ Len(trim(k)) <= PerStem
         /\ ItemsIn(k) \subseteq ItemsIn(trim(k)) \cup Rotated(k)
<1>. PerStem \in Nat
  BY BoundsArePlain
<1>1. CASE Len(k) <= PerStem
  BY <1>1 DEF trim
<1>2. CASE ~(Len(k) <= PerStem)
  <2>. DEFINE m == Len(k) - PerStem
  <2>1. trim(k) = SubSeq(k, m + 1, Len(k))
    BY <1>2 DEF trim
  <2>2. m \in Nat /\ Len(k) \in Nat /\ m < Len(k) + 1
    BY <1>2
  <2>3. trim(k) \in Seq(Backups) /\ Len(trim(k)) = PerStem
    BY <2>1, <2>2, <1>2
  <2>4. \A j \in 1..PerStem : trim(k)[j] = k[m + j]
    BY <2>1, <2>2, <1>2
  <2>5. \A i \in DOMAIN k : i \in 1..m \/ (i - m \in 1..PerStem /\ trim(k)[i - m] = k[i])
    <3>1. ASSUME NEW i \in DOMAIN k, i \notin 1..m
          PROVE  i - m \in 1..PerStem /\ m + (i - m) = i
      BY <2>2, <3>1
    <3> QED BY <3>1, <2>4
  <2>6. Len(k) - Len(trim(k)) = m
    BY <2>3, <2>2
  <2>7. DOMAIN trim(k) = 1..PerStem
    BY <2>3
  <2>. HIDE DEF m
  <2>8. ASSUME NEW x \in ItemsIn(k)
        PROVE  x \in ItemsIn(trim(k)) \cup Rotated(k)
    <3>1. PICK i \in DOMAIN k : x \in k[i].doc.items
      BY DEF ItemsIn
    <3>2. CASE i \in 1..m
      BY <3>1, <3>2, <2>6 DEF Rotated
    <3>3. CASE i - m \in 1..PerStem /\ trim(k)[i - m] = k[i]
      BY <3>1, <3>3, <2>7 DEF ItemsIn
    <3> QED BY <2>5, <3>2, <3>3
  <2> QED BY <2>3, <2>8
<1> QED BY <1>1, <1>2

(* What is set aside joins what was kept.                                     *)
LEMMA AppendKeeps ==
  ASSUME NEW s \in Seq(Backups), NEW b \in Backups
  PROVE  /\ Append(s, b) \in Seq(Backups)
         /\ ItemsIn(s) \cup b.doc.items \subseteq ItemsIn(Append(s, b))
<1>1. Append(s, b) \in Seq(Backups) /\ Len(Append(s, b)) = Len(s) + 1
  OBVIOUS
<1>2. \A i \in DOMAIN s : i \in DOMAIN Append(s, b) /\ Append(s, b)[i] = s[i]
  OBVIOUS
<1>3. Len(s) + 1 \in DOMAIN Append(s, b) /\ Append(s, b)[Len(s) + 1] = b
  OBVIOUS
<1> QED BY <1>1, <1>2, <1>3 DEF ItemsIn

(* Two lists one after the other are a list.                                  *)
LEMMA ConcatJoins ==
  ASSUME NEW s \in Seq(Backups), NEW t \in Seq(Backups)
  PROVE  s \o t \in Seq(Backups) /\ Len(s \o t) = Len(s) + Len(t)
OBVIOUS

(* A backup taken back leaves the others.                                     *)
LEMMA RemoveKeeps ==
  ASSUME NEW s \in Seq(Backups), NEW i \in DOMAIN s
  PROVE  /\ RemoveAt(s, i) \in Seq(Backups)
         /\ Len(RemoveAt(s, i)) <= Len(s)
         /\ ItemsIn(s) \subseteq ItemsIn(RemoveAt(s, i)) \cup s[i].doc.items
<1>. DEFINE head == SubSeq(s, 1, i - 1)
            tail == SubSeq(s, i + 1, Len(s))
            rest == head \o tail
<1>1. Len(s) \in Nat /\ i \in Nat /\ 1 <= i /\ i <= Len(s) /\ DOMAIN s = 1..Len(s)
  OBVIOUS
<1>2. head \in Seq(Backups) /\ Len(head) = i - 1 /\ \A j \in 1..(i - 1) : head[j] = s[j]
  BY <1>1
<1>3. tail \in Seq(Backups) /\ Len(tail) = Len(s) - i /\ \A j \in 1..(Len(s) - i) : tail[j] = s[i + j]
  BY <1>1
<1>4. RemoveAt(s, i) = rest
  BY DEF RemoveAt
<1>. HIDE DEF head, tail
<1>5. rest \in Seq(Backups) /\ Len(rest) = Len(s) - 1
  <2>1. Len(head \o tail) = Len(head) + Len(tail) /\ head \o tail \in Seq(Backups)
    BY <1>2, <1>3, ConcatJoins
  <2> QED BY <2>1, <1>1, <1>2, <1>3
<1>6. \A j \in 1..(i - 1) : j \in DOMAIN rest /\ rest[j] = s[j]
  BY <1>1, <1>2, <1>3, <1>5
<1>7. ASSUME NEW j \in (i + 1)..Len(s)
      PROVE  j - 1 \in DOMAIN rest /\ rest[j - 1] = s[j]
  <2>1. j - i \in 1..(Len(s) - i) /\ i + (j - i) = j
    BY <1>1
  <2>3. tail[j - i] = s[j]
    BY <2>1, <1>3
  <2>2. j - 1 \in DOMAIN rest /\ rest[j - 1] = tail[j - 1 - Len(head)]
    BY <1>1, <1>2, <1>3, <1>5
  <2> QED BY <2>1, <2>2, <2>3, <1>1, <1>2
<1>. HIDE DEF rest
<1>8. ASSUME NEW x \in ItemsIn(s)
      PROVE  x \in ItemsIn(rest) \cup s[i].doc.items
  <2>1. PICK j \in DOMAIN s : x \in s[j].doc.items
    BY DEF ItemsIn
  <2>2. CASE j \in 1..(i - 1)
    BY <2>1, <2>2, <1>6 DEF ItemsIn
  <2>3. CASE j \in (i + 1)..Len(s)
    BY <2>1, <2>3, <1>7 DEF ItemsIn
  <2>4. j \in 1..(i - 1) \/ j \in (i + 1)..Len(s) \/ j = i
    BY <1>1, <2>1
  <2> QED BY <2>1, <2>2, <2>3, <2>4
<1> QED BY <1>4, <1>5, <1>8, <1>1

(* The newest backup of a label is one of the list, of that label.            *)
LEMMA NewestIsOne ==
  ASSUME NEW s \in Seq(Backups), NEW label, newest(s, label) # 0
  PROVE  newest(s, label) \in DOMAIN s /\ s[newest(s, label)].label = label
<1>. DEFINE at == {i \in DOMAIN s : s[i].label = label}
            P(i) == i \in at /\ \A j \in at : j <= i
<1>1. at # {}
  BY DEF newest
<1>2. newest(s, label) = CHOOSE i \in at : \A j \in at : j <= i
  BY <1>1 DEF newest
<1>3. Len(s) \in Nat /\ at \in SUBSET (0..Len(s))
  OBVIOUS
<1>. HIDE DEF at
<1>4. \E i \in at : \A j \in at : j <= i
  BY <1>1, <1>3, GreatestExists
<1>. USE DEF at
<1> QED BY <1>2, <1>4

-----------------------------------------------------------------------------
(* What a read answers (store.rs).                                            *)

\* an answer loses nothing that it does not own up to
Sound(r) ==
    /\ r.items \subseteq Items /\ r.faulty \in BOOLEAN
    /\ IsDir(r.dir) /\ Len(r.dir["backups"]) <= PerStem
    /\ OnDisk \ r.spent \subseteq r.items \cup Safe(r.dir)
    /\ OnDisk \ r.spent \subseteq HeldIn(r.dir) \cup HeldIn(old)
    /\ r.dir["file"] = None => r.faulty \/ r.items = {}
    /\ r.dir["file"] \in {here["file"], None} \/ r.dir["file"].is = "whole"

(* What a directory holds is what its file and its backups hold.              *)
LEMMA HeldInParts ==
  ASSUME NEW dir
  PROVE  HeldIn(dir) = ItemsOf(dir["file"]) \cup ItemsIn(dir["backups"])
BY DEF HeldIn, ItemsIn

(* A file that cannot be read is owned up to.                                 *)
LEMMA FailedSound ==
  ASSUME Typed, Len(here["backups"]) <= PerStem, NEW r, r = Failed({})
  PROVE  Sound(r)
<1>1. r.items = {} /\ r.faulty = TRUE /\ r.dir = here /\ r.spent = ItemsOf(here["file"])
  BY DEF Failed
<1>2. OnDisk \ r.spent \subseteq Safe(here)
  BY <1>1, HeldInParts DEF OnDisk, Safe
<1>3. Safe(here) \subseteq HeldIn(here) \cup HeldIn(old)
  BY HeldInParts DEF Safe
<1> QED BY <1>1, <1>2, <1>3 DEF Sound, Typed

(* What is set aside is in the backups, unless the store keeps none or the    *)
(* oldest of them had to go.                                                  *)
LEMMA SetAsideSound ==
  ASSUME Typed, Len(here["backups"]) <= PerStem, here["file"] # None,
         NEW label \in Nat, label # Corrupt => here["file"].is = "whole",
         NEW keep, NEW r \in set_aside(label, keep)
  PROVE  Sound(r)
<1>. DEFINE b == [label |-> label, doc |-> here["file"]]
            before == Append(here["backups"], b)
            kept == trim(before)
            rotated == UNION {before[i].doc.items : i \in 1..(Len(before) - Len(kept))}
            moved == [here EXCEPT !["file"] = None, !["backups"] = kept]
<1>1. here["file"] \in Documents /\ here["backups"] \in Seq(Backups)
  BY DEF Typed, IsDir
<1>2. b \in Backups
  BY <1>1 DEF Backups
<1>3. /\ before \in Seq(Backups)
      /\ ItemsIn(here["backups"]) \cup here["file"].items \subseteq ItemsIn(before)
  BY <1>1, <1>2, AppendKeeps
<1>4. kept \in Seq(Backups) /\ Len(kept) <= PerStem /\ ItemsIn(before) \subseteq ItemsIn(kept) \cup rotated
  BY <1>3, TrimKeeps DEF Rotated
<1>5. /\ IsDir(moved) /\ moved["file"] = None /\ moved["backups"] = kept
  BY <1>4 DEF Typed, IsDir, Entries
<1>6. \/ keep = "Nothing" /\ r = [Answer({}, here) EXCEPT !.spent = ItemsOf(here["file"])]
      \/ r = [Answer({}, moved) EXCEPT !.spent = rotated]
      \/ r = Failed({})
  BY DEF set_aside
<1>. HIDE DEF b, before, kept, rotated, moved
<1>7. CASE r = [Answer({}, here) EXCEPT !.spent = ItemsOf(here["file"])]
  <2>1. r.items = {} /\ r.faulty = FALSE /\ r.dir = here /\ r.spent = ItemsOf(here["file"])
    BY <1>7 DEF Answer
  <2>2. OnDisk \ r.spent \subseteq Safe(here) /\ Safe(here) \subseteq HeldIn(here) \cup HeldIn(old)
    BY <2>1, HeldInParts DEF OnDisk, Safe
  <2> QED BY <2>1, <2>2 DEF Sound, Typed
<1>8. CASE r = [Answer({}, moved) EXCEPT !.spent = rotated]
  <2>1. r.items = {} /\ r.faulty = FALSE /\ r.dir = moved /\ r.spent = rotated
    BY <1>8 DEF Answer
  <2>2. HeldIn(here) \subseteq ItemsIn(kept) \cup rotated
    BY <1>1, <1>3, <1>4, HeldInParts DEF ItemsOf
  <2>3. OnDisk \ r.spent \subseteq Safe(moved)
    BY <2>1, <2>2, <1>5 DEF OnDisk, Safe
  <2>4. Safe(moved) \subseteq HeldIn(moved) \cup HeldIn(old)
    BY HeldInParts DEF Safe
  <2> QED BY <2>1, <2>3, <2>4, <1>4, <1>5 DEF Sound
<1> QED BY <1>6, <1>7, <1>8, FailedSound

(* A backup taken back is the file, or stays where it was.                    *)
LEMMA RestoredSound ==
  ASSUME Typed, Len(here["backups"]) <= PerStem, here["file"] = None, build \in Builds,
         NEW r \in restored
  PROVE  Sound(r)
<1>. DEFINE s == here["backups"]
            i == newest(s, build)
            back == [here EXCEPT !["file"] = s[i].doc, !["backups"] = RemoveAt(s, i)]
<1>1. s \in Seq(Backups) /\ HeldIn(here) = ItemsIn(s)
  BY HeldInParts DEF Typed, IsDir, ItemsOf
<1>2. CASE i = 0
  <2>1. r = Answer({}, here)
    BY <1>2 DEF restored
  <2>2. r.items = {} /\ r.faulty = FALSE /\ r.dir = here /\ r.spent = {}
    BY <2>1 DEF Answer
  <2>3. OnDisk \subseteq Safe(here) /\ OnDisk \subseteq HeldIn(here) \cup HeldIn(old)
    BY <1>1 DEF OnDisk, Safe
  <2> QED BY <2>2, <2>3 DEF Sound, Typed
<1>3. CASE i # 0
  <2>1. i \in DOMAIN s /\ s[i].label = build
    BY <1>1, <1>3, NewestIsOne
  <2>2. s[i] \in Backups /\ s[i].doc \in Documents /\ s[i].doc.is = "whole" /\ s[i].doc.items \subseteq Items
    <3>1. s[i] \in Backups
      BY <1>1, <2>1
    <3>2. s[i].doc \in Documents /\ (s[i].label # 0 => s[i].doc.is = "whole")
      BY <3>1 DEF Backups, Corrupt
    <3>3. build # 0
      BY FormatsAreOneUp
    <3> QED BY <3>1, <3>2, <3>3, <2>1 DEF Documents
  <2>3. /\ RemoveAt(s, i) \in Seq(Backups) /\ Len(RemoveAt(s, i)) <= Len(s)
        /\ ItemsIn(s) \subseteq ItemsIn(RemoveAt(s, i)) \cup s[i].doc.items
    BY <1>1, <2>1, RemoveKeeps
  <2>4. \/ r = Answer(s[i].doc.items, back)
        \/ r = [Failed(s[i].doc.items) EXCEPT !.spent = {}]
    BY <1>3 DEF restored
  <2>5. IsDir(back) /\ back["file"] = s[i].doc /\ back["backups"] = RemoveAt(s, i)
    BY <2>2, <2>3 DEF Typed, IsDir, Entries
  <2>6. Len(RemoveAt(s, i)) <= PerStem
    BY <1>1, <2>3, BoundsArePlain
  <2>7. s[i].doc # None
    BY <2>2, NoneIsNothing
  <2>. HIDE DEF s, i, back
  <2>8. CASE r = Answer(s[i].doc.items, back)
    <3>1. r.items = s[i].doc.items /\ r.faulty = FALSE /\ r.dir = back /\ r.spent = {}
      BY <2>8 DEF Answer
    <3>2. OnDisk \subseteq r.items \cup Safe(back)
      BY <3>1, <1>1, <2>3, <2>5 DEF OnDisk, Safe
    <3>3. HeldIn(back) = s[i].doc.items \cup ItemsIn(RemoveAt(s, i))
      BY <2>5, <2>7, HeldInParts DEF ItemsOf
    <3>4. OnDisk \subseteq HeldIn(back) \cup HeldIn(old)
      BY <3>3, <1>1, <2>3 DEF OnDisk
    <3> QED BY <3>1, <3>2, <3>4, <2>2, <2>5, <2>6, <2>7 DEF Sound
  <2>9. CASE r = [Failed(s[i].doc.items) EXCEPT !.spent = {}]
    <3>1. r.items = s[i].doc.items /\ r.faulty = TRUE /\ r.dir = here /\ r.spent = {}
      BY <2>9 DEF Failed
    <3>2. OnDisk \subseteq Safe(here) /\ OnDisk \subseteq HeldIn(here) \cup HeldIn(old)
      BY <1>1 DEF OnDisk, Safe, s
    <3> QED BY <3>1, <3>2, <2>2 DEF Sound, Typed
  <2> QED BY <2>4, <2>8, <2>9
<1> QED BY <1>2, <1>3

(* Whatever a read answers is sound: a file that parses, that is damaged,     *)
(* that is newer than the build, that is missing, or that cannot be read.     *)
LEMMA ReadSound ==
  ASSUME Typed, TypeOK, NEW r \in read
  PROVE  Sound(r)
<1>1. Len(here["backups"]) <= PerStem /\ build \in Builds /\ build \in Nat
  BY BoundsArePlain DEF TypeOK
<1>2. CASE here["file"] = None
  <2>1. r \in restored \/ r = Failed({})
    BY <1>2 DEF read
  <2> QED BY <1>1, <1>2, <2>1, RestoredSound, FailedSound
<1>3. CASE here["file"] # None
  <2>1. here["file"] \in Documents /\ here["file"].items \subseteq Items /\ here["file"].format \in Nat
    BY <1>3 DEF Typed, IsDir, Documents
  <2>2. \/ r = Failed({})
        \/ r \in set_aside(Corrupt, store.keep)
        \/ here["file"].is = "whole" /\ r \in set_aside(here["file"].format, "Aside")
        \/ r = Answer(here["file"].items, here)
    BY <1>3 DEF read
  <2>3. CASE r \in set_aside(Corrupt, store.keep)
    BY <1>1, <1>3, <2>3, SetAsideSound DEF Corrupt
  <2>4. CASE here["file"].is = "whole" /\ r \in set_aside(here["file"].format, "Aside")
    BY <1>1, <1>3, <2>1, <2>4, SetAsideSound
  <2>5. CASE r = Answer(here["file"].items, here)
    <3>1. r.items = here["file"].items /\ r.faulty = FALSE /\ r.dir = here /\ r.spent = {}
      BY <2>5 DEF Answer
    <3>2. HeldIn(here) = here["file"].items \cup ItemsIn(here["backups"])
      BY <1>3, HeldInParts DEF ItemsOf
    <3>3. OnDisk \subseteq r.items \cup Safe(here) /\ OnDisk \subseteq HeldIn(here) \cup HeldIn(old)
      BY <3>1, <3>2 DEF OnDisk, Safe
    <3> QED BY <3>1, <3>3, <2>1, <1>1, <1>3 DEF Sound, Typed
  <2> QED BY <1>1, <2>2, <2>3, <2>4, <2>5, FailedSound
<1> QED BY <1>2, <1>3

-----------------------------------------------------------------------------
(* Types.                                                                     *)

Types == Typed /\ TypeOK

(* What a save would write is a document.                                     *)
LEMMA StampedIsDocument ==
  ASSUME build \in Builds, NEW items \in SUBSET Items
  PROVE  /\ stamped(items) \in Documents
         /\ stamped(items).items = items /\ stamped(items).is = "whole"
BY BoundsArePlain DEF stamped, Documents, States

(* A change of what the store holds is of the user's items.                   *)
LEMMA ChangedIsItems ==
  ASSUME NEW items \in SUBSET Items, NEW i \in Items, NEW put
  PROVE  Changed(items, i, put) \in SUBSET Items
BY DEF Changed

(* A file that is written in place of another leaves a directory.             *)
LEMMA FileReplaced ==
  ASSUME NEW dir, IsDir(dir), NEW file \in Documents \cup {None},
         NEW new, new = [dir EXCEPT !["file"] = file]
  PROVE  IsDir(new) /\ new["file"] = file /\ new["backups"] = dir["backups"]
BY DEF IsDir, Entries

LEMMA TornIsDocument == Torn \in Documents /\ Torn.is = "torn" /\ Torn.items = {}
BY DEF Torn, Documents, States

(* The directories a superseded build may have left.                          *)
LEMMA SupersededIsDir ==
  ASSUME NEW dir \in SupersededDirs
  PROVE  /\ IsDir(dir) /\ Len(dir["backups"]) <= PerStem
         /\ dir["file"] # None => dir["file"].is = "whole"
<1>. PerStem \in Nat /\ PerStem >= 1
  BY BoundsArePlain, OneIsKept
<1>1. CASE dir = EmptyDir
  <2>1. dir["file"] = None /\ dir["backups"] = <<>> /\ dir = [e \in Entries |-> dir[e]]
    BY <1>1 DEF EmptyDir, Absent, Entries
  <2> QED BY <2>1 DEF IsDir
<1>. DEFINE Fs == {None} \cup {[format |-> 1, items |-> {i}, is |-> "whole"] : i \in Items}
            Bs == {<<>>} \cup {<<[label |-> Corrupt, doc |-> [format |-> 1, items |-> {i}, is |-> "damaged"]]>> : i \in Items}
            Dir(f, o, b) == [e \in Entries |-> CASE e = "file" -> f [] e = "other" -> o [] e = "backups" -> b]
<1>2. ASSUME NEW f \in Fs, NEW o \in {None, "theirs"}, NEW b \in Bs, dir = Dir(f, o, b)
      PROVE  /\ IsDir(dir) /\ Len(dir["backups"]) <= PerStem
             /\ dir["file"] # None => dir["file"].is = "whole"
  <2>1. dir["file"] = f /\ dir["backups"] = b /\ dir = [e \in Entries |-> dir[e]]
    BY <1>2 DEF Entries
  <2>2. f \in Documents \cup {None} /\ (f # None => f.is = "whole")
    BY DEF Documents, States
  <2>3. b \in Seq(Backups) /\ Len(b) <= 1
    <3>1. CASE b = <<>>
      BY <3>1
    <3>2. ASSUME NEW i \in Items, b = <<[label |-> Corrupt, doc |-> [format |-> 1, items |-> {i}, is |-> "damaged"]]>>
          PROVE  b \in Seq(Backups) /\ Len(b) <= 1
      <4>. DEFINE one == [label |-> Corrupt, doc |-> [format |-> 1, items |-> {i}, is |-> "damaged"]]
      <4>1. one \in Backups
        BY DEF Backups, Documents, States, Corrupt
      <4>. HIDE DEF one
      <4>2. b = <<one>>
        BY <3>2 DEF one
      <4> QED BY <4>1, <4>2
    <3> QED BY <3>1, <3>2
  <2> QED BY <2>1, <2>2, <2>3 DEF IsDir
<1>3. SupersededDirs = {EmptyDir} \cup {Dir(f, o, b) : f \in Fs, o \in {None, "theirs"}, b \in Bs}
  BY DEF SupersededDirs
<1>. HIDE DEF Fs, Bs, Dir
<1>4. dir \in {EmptyDir} \cup {Dir(f, o, b) : f \in Fs, o \in {None, "theirs"}, b \in Bs}
  BY <1>3
<1> QED BY <1>1, <1>2, <1>4

LEMMA TypesInit == Init => Types
<1> SUFFICES ASSUME Init PROVE Types
  OBVIOUS
<1>1. build \in Builds
  BY FormatsAreOneUp DEF Init
<1>2. IsDir(old) /\ Len(old["backups"]) <= PerStem /\ (old["file"] # None => old["file"].is = "whole")
  BY SupersededIsDir DEF Init
<1>3. EmptyDir \in SupersededDirs
  BY DEF SupersededDirs
<1>4. IsDir(here) /\ Len(here["backups"]) <= PerStem
  BY <1>3, SupersededIsDir DEF Init
<1>5. HeldIn(old) \subseteq Items
  <2>1. old["backups"] \in Seq(Backups) /\ old["file"] \in Documents \cup {None}
    BY <1>2 DEF IsDir
  <2>2. \A i \in DOMAIN old["backups"] : old["backups"][i].doc.items \subseteq Items
    BY <2>1 DEF Backups, Documents
  <2>3. ItemsOf(old["file"]) \subseteq Items
    BY <2>1 DEF ItemsOf, Documents
  <2> QED BY <2>2, <2>3 DEF HeldIn
<1>6. Typed
  BY <1>2, <1>4, TornIsDocument DEF Init, Typed
<1>7. TypeOK
  BY <1>1, <1>2, <1>4, <1>5 DEF Init, TypeOK
<1> QED BY <1>6, <1>7 DEF Types

LEMMA AdoptionTypes ==
  ASSUME Types, NEW e \in Entries, move_into(e)
  PROVE  Types'
<1>. USE DEF Types
<1>1. ASSUME NEW d, d \in {here, [here EXCEPT ![e] = old[e]]}
      PROVE  IsDir(d) /\ Len(d["backups"]) <= PerStem
  BY <1>1 DEF Typed, TypeOK, IsDir, Entries
<1>2. ASSUME NEW d, d \in {old, [old EXCEPT ![e] = Absent(e)]}
      PROVE  IsDir(d) /\ Len(d["backups"]) <= PerStem /\ (d["file"] # None => d["file"].is = "whole")
  <2>1. CASE d = old
    BY <2>1 DEF Typed, TypeOK
  <2>2. CASE d = [old EXCEPT ![e] = Absent(e)]
    <3>1. PerStem \in Nat /\ Len(<<>>) = 0
      BY BoundsArePlain
    <3>2. d = [x \in Entries |-> d[x]] /\ d[e] = Absent(e) /\ \A x \in Entries \ {e} : d[x] = old[x]
      BY <2>2 DEF Typed, IsDir
    <3>3. CASE e = "backups"
      <4>1. d["backups"] = <<>> /\ d["file"] = old["file"]
        BY <3>2, <3>3 DEF Absent, Entries
      <4>2. Len(d["backups"]) <= PerStem
        BY <3>1, <4>1
      <4>3. IsDir(d)
        <5>1. <<>> \in Seq(Backups) /\ old["file"] \in Documents \cup {None}
          BY DEF Typed, IsDir
        <5>2. d["backups"] \in Seq(Backups) /\ d["file"] \in Documents \cup {None}
          BY <4>1, <5>1
        <5>3. d = [x \in Entries |-> d[x]]
          BY <3>2
        <5> QED BY <5>2, <5>3 DEF IsDir
      <4> QED BY <4>1, <4>2, <4>3 DEF Typed
    <3>4. CASE e # "backups"
      BY <3>2, <3>4 DEF Typed, TypeOK, IsDir, Entries, Absent
    <3> QED BY <3>3, <3>4
  <2> QED BY <1>2, <2>1, <2>2
<1>3. here' \in {here, [here EXCEPT ![e] = old[e]]} /\ old' \in {old, [old EXCEPT ![e] = Absent(e)]}
  BY DEF move_into, Placed
<1>4. IsDir(here') /\ Len(here'["backups"]) <= PerStem
  BY <1>1, <1>3
<1>5. IsDir(old') /\ Len(old'["backups"]) <= PerStem /\ (old'["file"] # None => old'["file"].is = "whole")
  BY <1>2, <1>3
<1>6. Typed'
  BY <1>4, <1>5 DEF move_into, Typed, threads, bounds, ghosts
<1>7. TypeOK'
  BY <1>4, <1>5 DEF move_into, TypeOK, threads, bounds, ghosts
<1> QED BY <1>6, <1>7

LEMMA LoadTypes ==
  ASSUME Types, Load
  PROVE  Types'
<1>. USE DEF Types
<1>1. PICK r \in read : /\ here' = r.dir
                        /\ mem' = IF store.saves = "reread" THEN {} ELSE r.items
                        /\ owed' = owed \ r.spent
                        /\ behind' = (r.faulty \/ (r.dir["file"] # None /\ r.items # ItemsOf(r.dir["file"])))
  BY DEF Load, Take
<1>2. Sound(r)
  BY ReadSound
<1>3. /\ IsDir(here') /\ Len(here'["backups"]) <= PerStem
      /\ mem' \subseteq Items /\ owed' \subseteq Items /\ behind' \in BOOLEAN
  BY <1>1, <1>2 DEF Sound, TypeOK
<1>4. Typed'
  BY <1>3 DEF Load, Typed, threads
<1>5. TypeOK'
  BY <1>3 DEF Load, TypeOK, threads
<1> QED BY <1>4, <1>5

(* What a change in memory sets going is a save of a document.                *)
LEMMA TouchTypes ==
  ASSUME Types, NEW t \in Threads, NEW i \in Items, NEW put \in BOOLEAN,
         TouchLocked(t, i, put) \/ Touch(t, i, put)
  PROVE  Types'
<1>. USE DEF Types
<1>1. mem' = Changed(mem, i, put) /\ mem' \in SUBSET Items /\ build \in Builds
  BY ChangedIsItems DEF TouchLocked, Touch, TypeOK
<1>2. stamped(mem') \in Documents
  BY <1>1, StampedIsDocument
<1>3. owed' \subseteq Items /\ mixed' \in BOOLEAN
  BY DEF TouchLocked, Touch, Change, TypeOK, Others
<1>4. CASE TouchLocked(t, i, put)
  BY <1>1, <1>2, <1>3, <1>4 DEF TouchLocked, Typed, TypeOK
<1>5. CASE Touch(t, i, put)
  BY <1>1, <1>2, <1>3, <1>5 DEF Touch, Typed, TypeOK
<1> QED BY <1>4, <1>5

LEMMA TouchRereadTypes ==
  ASSUME Types, NEW t \in Threads, NEW i \in Items, NEW put \in BOOLEAN, TouchReread(t, i, put)
  PROVE  Types'
<1>. USE DEF Types
<1>1. PICK r \in read : /\ here' = r.dir
                        /\ owed' = owed \ (r.spent \cup IF put THEN {} ELSE {i})
                        /\ doc' = [doc EXCEPT ![t] = stamped(Kept(r.items, i, put))]
  BY DEF TouchReread, Take
<1>2. Sound(r)
  BY ReadSound
<1>3. Kept(r.items, i, put) \in SUBSET Items
  BY <1>2, ChangedIsItems DEF Sound, Kept
<1>4. stamped(Kept(r.items, i, put)) \in Documents
  BY <1>3, StampedIsDocument DEF TypeOK
<1>5. /\ IsDir(here') /\ Len(here'["backups"]) <= PerStem
      /\ owed' \subseteq Items /\ mixed' \in BOOLEAN
  BY <1>1, <1>2 DEF Sound, TypeOK, TouchReread, Others
<1>6. doc' \in [Threads -> Documents]
  BY <1>1, <1>4 DEF Typed
<1>7. Typed'
  BY <1>5, <1>6 DEF TouchReread, Typed
<1>8. TypeOK'
  BY <1>5 DEF TouchReread, TypeOK
<1> QED BY <1>7, <1>8

LEMMA SaveTypes ==
  ASSUME Types, NEW t \in Threads, persist(t) \/ create(t) \/ write_all(t)
  PROVE  Types'
<1>. USE DEF Types
<1>1. CASE persist(t)
  <2>1. stamped(mem) \in Documents
    BY StampedIsDocument DEF TypeOK
  <2> QED BY <1>1, <2>1 DEF persist, Typed, TypeOK, bounds, ghosts
<1>2. CASE create(t)
  BY <1>2, TornIsDocument DEF create, Typed, TypeOK, bounds, ghosts
<1>3. CASE write_all(t)
  <2>1. doc[t] \in Documents /\ \A content : Over(content, doc[t]) \subseteq Documents
    BY TornIsDocument DEF Typed, Over
  <2>2. \/ temp' \in Documents /\ here' = here
        \/ \E d \in Documents : here' = [here EXCEPT !["file"] = d] /\ temp' = temp
        \/ here' = here /\ temp' = temp
    BY <1>3, <2>1 DEF write_all, TypeOK
  <2>3. temp' \in Documents \cup {None} /\ IsDir(here') /\ Len(here'["backups"]) <= PerStem
    BY <2>2, FileReplaced DEF Typed, TypeOK
  <2> QED BY <1>3, <2>3 DEF write_all, Typed, TypeOK, bounds, ghosts
<1> QED BY <1>1, <1>2, <1>3

LEMMA RenameTypes ==
  ASSUME Types, NEW t \in Threads, rename(t)
  PROVE  Types'
<1>. USE DEF Types
<1>1. /\ here' = here \/ here' = [here EXCEPT !["file"] = temp]
      /\ temp' \in {temp, None} /\ behind' \in BOOLEAN
  BY DEF rename
<1>2. IsDir(here') /\ Len(here'["backups"]) <= PerStem
  BY <1>1, FileReplaced DEF Typed, TypeOK
<1>3. handle' \in [Threads -> {None, "temp", "file"}]
  BY DEF rename, TypeOK
<1>4. owed' \subseteq Items
  <2>1. temp # None => temp.items \subseteq Items
    BY DEF Typed, Documents
  <2> QED BY <2>1 DEF rename, TypeOK
<1>5. saving' \in [Threads -> {"no", "copy", "create", "write", "rename"}] /\ lock' \in Threads \cup {None}
  BY DEF rename, Done, TypeOK
<1>6. Typed'
  BY <1>1, <1>2 DEF rename, Done, Typed
<1>7. TypeOK'
  BY <1>2, <1>3, <1>4, <1>5 DEF rename, Done, TypeOK
<1> QED BY <1>6, <1>7

LEMMA AbandonTypes ==
  ASSUME Types, NEW t \in Threads, Abandon(t)
  PROVE  Types'
<1>. USE DEF Types
<1>1. here' = here \/ here' = [here EXCEPT !["file"] = Torn]
  BY DEF Abandon
<1>2. IsDir(here') /\ Len(here'["backups"]) <= PerStem
  BY <1>1, FileReplaced, TornIsDocument DEF Typed, TypeOK
<1>3. handle' \in [Threads -> {None, "temp", "file"}]
  BY DEF Abandon, TypeOK, Follow
<1>4. saving' \in [Threads -> {"no", "copy", "create", "write", "rename"}] /\ lock' \in Threads \cup {None}
  BY DEF Abandon, Done, TypeOK
<1>5. Typed'
  BY <1>2 DEF Abandon, Done, Typed
<1>6. TypeOK'
  BY <1>2, <1>3, <1>4 DEF Abandon, Done, TypeOK
<1> QED BY <1>5, <1>6

LEMMA TypesNext == Types /\ [Next]_vars => Types'
<1> SUFFICES ASSUME Types, [Next]_vars PROVE Types'
  OBVIOUS
<1>. USE DEF Types
<1>1. ASSUME NEW b \in Builds, Launch(b)
      PROVE  Types'
  BY <1>1 DEF Launch, Typed, TypeOK, threads, ghosts
<1>2. ASSUME mark
      PROVE  Types'
  BY <1>2 DEF mark, Typed, TypeOK, threads, ghosts
<1>3. ASSUME Exit
      PROVE  Types'
  BY <1>3, TornIsDocument DEF Exit, Typed, TypeOK, bounds
<1>4. ASSUME Damage
      PROVE  Types'
  <2>1. here["file"] \in Documents
    BY <1>4 DEF Damage, Typed, IsDir
  <2>. DEFINE d == [here["file"] EXCEPT !.is = "damaged"]
  <2>2. d \in Documents
    BY <2>1 DEF Documents, States
  <2>3. here' = [here EXCEPT !["file"] = d]
    BY <1>4 DEF Damage
  <2>. HIDE DEF d
  <2>4. IsDir(here') /\ Len(here'["backups"]) <= PerStem
    BY <2>2, <2>3, FileReplaced DEF Typed, TypeOK
  <2> QED BY <1>4, <2>4 DEF Damage, Typed, TypeOK, threads, ghosts
<1>5. CASE UNCHANGED vars
  BY <1>5 DEF vars, Typed, TypeOK
<1>6. ASSUME NEW t \in Threads, persist(t) \/ create(t) \/ write_all(t) \/ rename(t) \/ Abandon(t)
      PROVE  Types'
  BY <1>6, SaveTypes, RenameTypes, AbandonTypes
<1>7. ASSUME NEW t \in Threads, NEW i \in Items, NEW put \in BOOLEAN,
             TouchLocked(t, i, put) \/ Touch(t, i, put) \/ TouchReread(t, i, put)
      PROVE  Types'
  BY <1>7, TouchTypes, TouchRereadTypes
<1> QED BY <1>1, <1>2, <1>3, <1>4, <1>5, <1>6, <1>7, AdoptionTypes, LoadTypes DEF Next

-----------------------------------------------------------------------------
(* One save at a time: until two overlap, a save's temp file is its own.      *)

LEMMA SavesInit == Init => SavesInv
BY NoneIsNothing DEF Init, SavesInv, Stages, Alone, OwnTemp

(* Nothing is saved while the application starts, ends or is down.            *)
LEMMA QuietSaves ==
  ASSUME Types, SavesInv,
         \/ \E b \in Builds : Launch(b)
         \/ \E e \in Entries : move_into(e)
         \/ mark \/ Load \/ Exit \/ Damage
  PROVE  SavesInv'
<1>. USE DEF SavesInv, Stages, Alone, OwnTemp
<1>1. ASSUME NEW b \in Builds, Launch(b)
      PROVE  SavesInv'
  BY <1>1 DEF Launch, Ready, threads, ghosts
<1>2. ASSUME NEW e \in Entries, move_into(e)
      PROVE  SavesInv'
  BY <1>2 DEF move_into, threads, ghosts
<1>3. CASE mark
  BY <1>3 DEF mark, threads, ghosts
<1>4. CASE Load
  BY <1>4 DEF Load, threads
<1>5. CASE Exit
  BY <1>5 DEF Exit
<1>6. CASE Damage
  BY <1>6 DEF Damage, threads, ghosts
<1> QED BY <1>1, <1>2, <1>3, <1>4, <1>5, <1>6

(* A change finds its thread idle; with another save under way they overlap.  *)
LEMMA ChangeSaves ==
  ASSUME Types, SavesInv, NEW t \in Threads, NEW i \in Items, NEW put \in BOOLEAN,
         TouchLocked(t, i, put) \/ Touch(t, i, put) \/ TouchReread(t, i, put)
  PROVE  SavesInv'
<1>1. /\ phase = "up" /\ phase' = phase /\ store' = store /\ handle' = handle /\ temp' = temp
      /\ saving[t] = "no" /\ saving' \in {[saving EXCEPT ![t] = "create"], [saving EXCEPT ![t] = "copy"]}
      /\ mixed' = (mixed \/ Others(t))
  BY DEF TouchLocked, Touch, TouchReread, Change, Idle
<1>2. saving \in [Threads -> {"no", "copy", "create", "write", "rename"}] /\ doc \in [Threads -> Documents]
  BY DEF Types, Typed, TypeOK
<1>3. saving'[t] \in {"copy", "create"} /\ \A u \in Threads \ {t} : saving'[u] = saving[u]
  BY <1>1, <1>2
<1>4. ~mixed' => ~mixed /\ \A u \in Threads \ {t} : saving[u] = "no"
  BY <1>1 DEF Others
<1>5. /\ saving'[t] = "copy" => store.saves # "reread"
      /\ store.saves = "reread" => mem' = {}
  BY <1>2, <1>3 DEF TouchLocked, Touch, TouchReread, SavesInv, Stages
<1>6. saving'[t] = "create" =>
        doc'[t].is = "whole" /\ (store.saves # "reread" => doc'[t].items = mem')
  BY <1>2, <1>3 DEF TouchLocked, Touch, TouchReread, stamped
<1>7. Stages'
  BY <1>1, <1>3, <1>5 DEF SavesInv, Stages
<1>8. ~mixed' => \A u \in Threads : OwnTemp(u)'
  BY <1>1, <1>3, <1>4, <1>6 DEF OwnTemp
<1>9. Alone'
  BY <1>1, <1>3, <1>4, <1>8 DEF Alone
<1> QED BY <1>7, <1>9 DEF SavesInv

(* A save goes on by itself.                                                  *)
LEMMA StepSaves ==
  ASSUME Types, SavesInv, NEW t \in Threads, persist(t) \/ create(t) \/ write_all(t)
  PROVE  SavesInv'
<1>1. /\ saving \in [Threads -> {"no", "copy", "create", "write", "rename"}]
      /\ doc \in [Threads -> Documents] /\ handle \in [Threads -> {None, "temp", "file"}]
  BY DEF Types, Typed, TypeOK
<1>2. /\ saving[t] # "no" /\ saving[t] # "rename" /\ phase = "up"
      /\ mem' = mem /\ phase' = phase /\ store' = store /\ mixed' = mixed
  BY DEF persist, create, write_all, bounds, ghosts, SavesInv, Stages
<1>3. /\ saving'[t] \in {"create", "write", "rename"}
      /\ \A u \in Threads \ {t} : saving'[u] = saving[u] /\ handle'[u] = handle[u] /\ doc'[u] = doc[u]
  BY <1>1 DEF persist, create, write_all
<1>4. handle'[t] # None => saving'[t] = "write"
  BY <1>1 DEF persist, create, write_all, SavesInv, Stages
<1>5. Stages'
  BY <1>2, <1>3, <1>4 DEF SavesInv, Stages
<1>6. ~mixed => OwnTemp(t) /\ \A u \in Threads \ {t} : saving[u] = "no"
  BY <1>2 DEF SavesInv, Alone
<1>7. ASSUME ~mixed
      PROVE  OwnTemp(t)'
  <2>1. CASE persist(t)
    BY <1>1, <1>2, <1>3, <2>1 DEF persist, OwnTemp, stamped
  <2>2. CASE create(t)
    BY <1>1, <1>6, <1>7, <2>2 DEF create, OwnTemp
  <2>3. CASE write_all(t)
    <3>1. handle[t] = "temp" /\ temp = Torn
      BY <1>6, <1>7, <2>3 DEF write_all, OwnTemp
    <3>2. temp' \in Over(temp, doc[t])
      BY <2>3, <3>1, NoneIsNothing DEF write_all
    <3>3. temp' = doc[t]
      BY <3>1, <3>2 DEF Over
    <3> QED BY <1>1, <1>6, <1>7, <2>3, <3>3 DEF write_all, OwnTemp
  <2> QED BY <2>1, <2>2, <2>3
<1>8. ASSUME ~mixed, NEW u \in Threads \ {t}
      PROVE  saving'[u] = "no" /\ OwnTemp(u)'
  BY <1>3, <1>6, <1>8 DEF OwnTemp
<1>9. Alone'
  BY <1>2, <1>7, <1>8 DEF Alone
<1> QED BY <1>5, <1>9 DEF SavesInv

(* A save that ends, well or not, leaves no handle of its own.                *)
LEMMA EndSaves ==
  ASSUME Types, SavesInv, NEW t \in Threads, rename(t) \/ Abandon(t)
  PROVE  SavesInv'
<1>1. /\ saving \in [Threads -> {"no", "copy", "create", "write", "rename"}]
      /\ handle \in [Threads -> {None, "temp", "file"}]
  BY DEF Types, TypeOK
<1>2. /\ saving[t] # "no" /\ phase = "up"
      /\ mem' = mem /\ phase' = phase /\ store' = store /\ mixed' = mixed /\ doc' = doc
  BY DEF rename, Abandon, Done, SavesInv, Stages
<1>3. saving'[t] = "no" /\ \A u \in Threads \ {t} : saving'[u] = saving[u]
  BY <1>1 DEF rename, Abandon, Done
<1>4. ASSUME NEW u \in Threads, handle'[u] # None
      PROVE  u # t /\ handle[u] # None
  <2>1. CASE rename(t)
    <3>1. handle[t] = None
      BY <2>1 DEF rename, SavesInv, Stages
    <3>2. handle'[u] = handle[u] \/ handle'[u] = None \/ handle[u] = "temp"
      BY <2>1 DEF rename
    <3>3. None # "temp"
      BY NoneIsNothing
    <3>4. handle[u] # None
      BY <1>4, <3>2, <3>3
    <3> QED BY <3>1, <3>4
  <2>2. CASE Abandon(t)
    BY <1>1, <1>4, <2>2 DEF Abandon, Follow
  <2> QED BY <2>1, <2>2
<1>5. Stages'
  BY <1>2, <1>3, <1>4 DEF SavesInv, Stages
<1>6. ~mixed => \A u \in Threads : saving'[u] = "no"
  BY <1>2, <1>3 DEF SavesInv, Alone
<1>7. Alone'
  BY <1>2, <1>6 DEF Alone, OwnTemp
<1> QED BY <1>5, <1>7 DEF SavesInv

LEMMA SavesNext == Types /\ SavesInv /\ [Next]_vars => SavesInv'
<1> SUFFICES ASSUME Types, SavesInv, [Next]_vars PROVE SavesInv'
  OBVIOUS
<1>1. CASE UNCHANGED vars
  BY <1>1 DEF vars, SavesInv, Stages, Alone, OwnTemp
<1> QED BY <1>1, QuietSaves, ChangeSaves, StepSaves, EndSaves DEF Next

(* What every state of UserData satisfies, before what is owed is counted.    *)
LEMMA SavesHold == Spec => [](Types /\ SavesInv)
<1>1. Init => Types /\ SavesInv
  BY TypesInit, SavesInit
<1>2. Types /\ SavesInv /\ [Next]_vars => (Types /\ SavesInv)'
  BY TypesNext, SavesNext
<1> QED BY <1>1, <1>2, PTL DEF Spec

(* TypesAlways: every variable keeps its type, and no directory ever keeps    *)
(* more backups of the file than PER_STEM.                                    *)
THEOREM TypesAlways == Spec => []TypeOK
BY SavesHold, PTL DEF Types

-----------------------------------------------------------------------------
(* Who can have two saves under way.                                          *)

\* a store saved under its lock, or by one thread
OneAtATime == store.saves = "locked" \/ \A t, u \in store.by : t = u

Ordered ==
    /\ \A t \in Threads : saving[t] # "no" =>
          t \in store.by /\ (store.saves = "locked" => lock = t)
    /\ OneAtATime => ~mixed

LEMMA OrderedNext == Types /\ Ordered /\ [Next]_vars => Ordered'
<1> SUFFICES ASSUME Types, Ordered, [Next]_vars PROVE Ordered'
  OBVIOUS
<1>1. saving \in [Threads -> {"no", "copy", "create", "write", "rename"}]
  BY DEF Types, TypeOK
<1>2. ASSUME store' = store /\ lock' = lock /\ saving' = saving /\ mixed' = mixed
      PROVE  Ordered'
  BY <1>2 DEF Ordered, OneAtATime
<1>3. ASSUME NEW b \in Builds, Launch(b)
      PROVE  Ordered'
  BY <1>2, <1>3 DEF Launch, threads, ghosts
<1>4. ASSUME NEW e \in Entries, move_into(e)
      PROVE  Ordered'
  BY <1>2, <1>4 DEF move_into, threads, ghosts
<1>5. CASE mark
  BY <1>2, <1>5 DEF mark, threads, ghosts
<1>6. CASE Load
  BY <1>6 DEF Load, threads, Ordered, OneAtATime
<1>7. ASSUME NEW t \in Threads, NEW i \in Items, NEW put \in BOOLEAN,
             TouchLocked(t, i, put) \/ Touch(t, i, put) \/ TouchReread(t, i, put)
      PROVE  Ordered'
  <2>1. /\ store' = store /\ t \in store.by /\ (mixed' => mixed \/ Others(t))
        /\ \A u \in Threads \ {t} : saving'[u] = saving[u]
        /\ IF store.saves = "locked" THEN lock = None /\ lock' = t ELSE lock' = lock
    BY <1>1, <1>7 DEF TouchLocked, Touch, TouchReread, Change
  <2>2. store.saves = "locked" => \A u \in Threads : saving[u] = "no"
    BY <2>1, NoneIsNothing DEF Ordered
  <2>3. OneAtATime => ~Others(t)
    BY <2>1, <2>2 DEF Ordered, OneAtATime, Others
  <2> QED BY <2>1, <2>2, <2>3 DEF Ordered, OneAtATime
<1>8. ASSUME NEW t \in Threads, persist(t) \/ create(t) \/ write_all(t)
      PROVE  Ordered'
  <2>1. /\ store' = store /\ lock' = lock /\ mixed' = mixed /\ saving[t] # "no"
        /\ \A u \in Threads \ {t} : saving'[u] = saving[u]
    BY <1>1, <1>8 DEF persist, create, write_all, bounds, ghosts
  <2> QED BY <2>1 DEF Ordered, OneAtATime
<1>9. ASSUME NEW t \in Threads, rename(t) \/ Abandon(t)
      PROVE  Ordered'
  <2>1. /\ store' = store /\ lock' = (IF lock = t THEN None ELSE lock) /\ mixed' = mixed
        /\ saving'[t] = "no" /\ \A u \in Threads \ {t} : saving'[u] = saving[u]
    BY <1>1, <1>9 DEF rename, Abandon, Done
  <2> QED BY <2>1 DEF Ordered, OneAtATime
<1>10. CASE Exit
  BY <1>10 DEF Exit, Ordered, OneAtATime
<1>11. CASE Damage
  BY <1>2, <1>11 DEF Damage, threads, ghosts
<1>12. CASE UNCHANGED vars
  BY <1>2, <1>12 DEF vars
<1> QED BY <1>3, <1>4, <1>5, <1>6, <1>7, <1>8, <1>9, <1>10, <1>11, <1>12 DEF Next

(* OneWriterNeverMixes: two saves overlap in no store that saves under its     *)
(* lock (project/) or from one thread, so what the theorems below except for   *)
(* mixed saves is of the others (plugins/, apps/tutorial.rs) alone.            *)
THEOREM OneWriterNeverMixes == Spec => [](OneAtATime => ~mixed)
<1>1. Init => Ordered
  BY DEF Init, Ordered
<1>2. Types /\ Ordered /\ [Next]_vars => Ordered'
  BY OrderedNext
<1>3. Ordered => (OneAtATime => ~mixed)
  BY DEF Ordered
<1> QED BY <1>1, <1>2, <1>3, SavesHold, PTL DEF Spec

-----------------------------------------------------------------------------
(* Whole files.                                                               *)

(* What a save puts under the name is whole until two have overlapped.        *)
LEMMA RenamedIsWhole ==
  ASSUME Types, SavesInv, ~mixed, NEW t \in Threads, saving[t] = "rename"
  PROVE  temp = doc[t] /\ doc[t] \in Documents /\ doc[t].is = "whole"
BY DEF SavesInv, Alone, OwnTemp, Types, Typed

(* And no handle is on the file itself.                                       *)
LEMMA HandlesAreOnTemp ==
  ASSUME Types, SavesInv, ~mixed, NEW t \in Threads
  PROVE  handle[t] # "file" /\ (saving[t] = "write" => handle[t] = "temp")
<1>1. saving[t] = "write" => handle[t] = "temp"
  BY DEF SavesInv, Alone, OwnTemp
<1>2. handle[t] # None => saving[t] = "write"
  BY DEF SavesInv, Stages
<1> QED BY <1>1, <1>2, NoneIsNothing

WholeStep == here'["file"] # None /\ here'["file"].is = "torn" /\ here["file"] # here'["file"] => mixed

(* A save under way writes to its temp file.                                  *)
LEMMA SaveLeavesFile ==
  ASSUME Types, SavesInv, ~mixed, NEW t \in Threads,
         persist(t) \/ create(t) \/ write_all(t) \/ Abandon(t)
  PROVE  here' = here
<1>1. CASE persist(t) \/ create(t)
  BY <1>1 DEF persist, create
<1>2. CASE write_all(t)
  <2>1. handle[t] = "temp"
    BY <1>2, HandlesAreOnTemp DEF write_all
  <2> QED BY <1>2, <2>1, NoneIsNothing DEF write_all
<1>3. CASE Abandon(t)
  <2>1. handle[t] # "file"
    BY HandlesAreOnTemp
  <2> QED BY <1>3, <2>1 DEF Abandon
<1> QED BY <1>1, <1>2, <1>3

LEMMA WholeNext == Types /\ SavesInv /\ [Next]_vars => WholeStep
<1> SUFFICES ASSUME Types, SavesInv, [Next]_vars, ~mixed PROVE WholeStep
  BY DEF WholeStep
<1>1. ASSUME here' = here
      PROVE  WholeStep
  BY <1>1 DEF WholeStep
<1>2. ASSUME NEW r \in read, here' = r.dir
      PROVE  WholeStep
  <2>1. Sound(r)
    BY ReadSound DEF Types
  <2> QED BY <1>2, <2>1 DEF Sound, WholeStep
<1>3. ASSUME NEW b \in Builds, Launch(b)
      PROVE  WholeStep
  BY <1>1, <1>3 DEF Launch
<1>4. ASSUME NEW e \in Entries, move_into(e)
      PROVE  WholeStep
  <2>1. here' = here \/ here' = [here EXCEPT ![e] = old[e]]
    BY <1>4 DEF move_into, Placed
  <2>2. here = [x \in Entries |-> here[x]] /\ (old["file"] # None => old["file"].is = "whole")
    BY DEF Types, Typed, IsDir
  <2>3. here'["file"] \in {here["file"], old["file"]}
    BY <2>1, <2>2 DEF Entries
  <2> QED BY <2>2, <2>3 DEF WholeStep
<1>5. CASE mark
  BY <1>1, <1>5 DEF mark
<1>6. CASE Load
  <2>1. PICK r \in read : here' = r.dir
    BY <1>6 DEF Load, Take
  <2> QED BY <1>2, <2>1
<1>7. ASSUME NEW t \in Threads, NEW i \in Items, NEW put \in BOOLEAN,
             TouchLocked(t, i, put) \/ Touch(t, i, put) \/ TouchReread(t, i, put)
      PROVE  WholeStep
  <2>1. CASE TouchLocked(t, i, put) \/ Touch(t, i, put)
    BY <1>1, <2>1 DEF TouchLocked, Touch
  <2>2. CASE TouchReread(t, i, put)
    <3>1. PICK r \in read : here' = r.dir
      BY <2>2 DEF TouchReread, Take
    <3> QED BY <1>2, <3>1
  <2> QED BY <1>7, <2>1, <2>2
<1>8. ASSUME NEW t \in Threads, persist(t) \/ create(t) \/ write_all(t) \/ Abandon(t)
      PROVE  WholeStep
  BY <1>1, <1>8, SaveLeavesFile
<1>9. ASSUME NEW t \in Threads, rename(t)
      PROVE  WholeStep
  <2>1. temp = doc[t] /\ temp \in Documents /\ temp.is = "whole"
    BY <1>9, RenamedIsWhole DEF rename
  <2>2. temp # None
    BY <2>1, NoneIsNothing
  <2>3. here' = [here EXCEPT !["file"] = temp]
    BY <1>9, <2>2 DEF rename
  <2>4. here'["file"] = temp
    BY <2>1, <2>3, FileReplaced DEF Types, Typed
  <2> QED BY <2>1, <2>4 DEF WholeStep
<1>10. CASE Exit
  BY <1>1, <1>10 DEF Exit
<1>11. CASE Damage
  <2>1. here["file"] \in Documents
    BY <1>11 DEF Damage, Types, Typed, IsDir
  <2>. DEFINE d == [here["file"] EXCEPT !.is = "damaged"]
  <2>2. d \in Documents /\ d.is = "damaged"
    BY <2>1 DEF Documents, States
  <2>3. here' = [here EXCEPT !["file"] = d]
    BY <1>11 DEF Damage
  <2>. HIDE DEF d
  <2>4. here = [x \in Entries |-> here[x]]
    BY DEF Types, Typed, IsDir
  <2>5. here'["file"] = d
    BY <2>3, <2>4 DEF Entries
  <2> QED BY <2>2, <2>5 DEF WholeStep
<1>12. CASE UNCHANGED vars
  BY <1>1, <1>12 DEF vars
<1> QED BY <1>3, <1>4, <1>5, <1>6, <1>7, <1>8, <1>9, <1>10, <1>11, <1>12 DEF Next

(* AlwaysWholeOrMixed: half a file comes under the name only where two saves  *)
(* of one process have overlapped: no exit, no failing operation and no       *)
(* adoption does it (durably and write_raw of userdata/store.rs).             *)
THEOREM AlwaysWholeOrMixed == Spec => WholeOrMixed
<1>1. Types /\ SavesInv /\ [Next]_vars =>
        [here'["file"] # None /\ here'["file"].is = "torn" /\ here["file"] # here'["file"] => mixed]_vars
  BY WholeNext DEF WholeStep
<1> QED BY <1>1, SavesHold, PTL DEF Spec, WholeOrMixed

-----------------------------------------------------------------------------
(* What the file says of memory.                                              *)

LEMMA FollowsNext == Types /\ SavesInv /\ FileFollowsMemory /\ [Next]_vars => FileFollowsMemory'
<1> SUFFICES ASSUME Types, SavesInv, FileFollowsMemory, [Next]_vars,
                    phase' = "up", store'.saves # "reread", ~behind', ~mixed',
                    \A t \in Threads : saving'[t] = "no"
             PROVE  ItemsOf(here'["file"]) = mem'
  BY DEF FileFollowsMemory
<1>1. saving \in [Threads -> {"no", "copy", "create", "write", "rename"}]
  BY DEF Types, TypeOK
<1>2. ASSUME NEW b \in Builds, Launch(b)
      PROVE  FALSE
  BY <1>2 DEF Launch
<1>3. ASSUME NEW e \in Entries, move_into(e)
      PROVE  FALSE
  BY <1>3 DEF move_into
<1>4. ASSUME mark \/ Exit \/ Damage
      PROVE  FALSE
  BY <1>4 DEF mark, Exit, Damage
<1>5. CASE Load
  <2>1. PICK r \in read : /\ here' = r.dir
                          /\ mem' = IF store.saves = "reread" THEN {} ELSE r.items
                          /\ behind' = (r.faulty \/ (r.dir["file"] # None /\ r.items # ItemsOf(r.dir["file"])))
    BY <1>5 DEF Load, Take
  <2>2. mem' = r.items
    BY <1>5, <2>1 DEF Load
  <2>3. r.dir["file"] = None => r.faulty \/ r.items = {}
    BY ReadSound DEF Sound, Types
  <2> QED BY <2>1, <2>2, <2>3 DEF ItemsOf
<1>6. ASSUME NEW t \in Threads, NEW i \in Items, NEW put \in BOOLEAN,
             TouchLocked(t, i, put) \/ Touch(t, i, put) \/ TouchReread(t, i, put)
      PROVE  FALSE
  BY <1>1, <1>6 DEF TouchLocked, Touch, TouchReread
<1>7. ASSUME NEW t \in Threads, persist(t) \/ create(t) \/ write_all(t)
      PROVE  FALSE
  BY <1>1, <1>7 DEF persist, create, write_all
<1>8. ASSUME NEW t \in Threads, Abandon(t)
      PROVE  FALSE
  BY <1>8 DEF Abandon
<1>9. ASSUME NEW t \in Threads, rename(t)
      PROVE  ItemsOf(here'["file"]) = mem'
  <2>1. ~mixed /\ mem' = mem /\ store' = store /\ saving[t] = "rename"
    BY <1>9 DEF rename, Done
  <2>2. temp = doc[t] /\ temp \in Documents /\ temp.items = mem
    BY <2>1, RenamedIsWhole DEF SavesInv, Alone, OwnTemp
  <2>3. temp # None /\ here' = [here EXCEPT !["file"] = temp]
    BY <1>9, <2>2, NoneIsNothing DEF rename
  <2>4. here'["file"] = temp
    BY <2>2, <2>3, FileReplaced DEF Types, Typed
  <2> QED BY <2>1, <2>2, <2>3, <2>4 DEF ItemsOf
<1>10. CASE UNCHANGED vars
  BY <1>10 DEF vars, FileFollowsMemory
<1> QED BY <1>2, <1>3, <1>4, <1>5, <1>6, <1>7, <1>8, <1>9, <1>10 DEF Next

(* FileAlwaysFollows: with no save under way and none failed, the file says   *)
(* what memory says, so the next launch opens on what was on screen.          *)
THEOREM FileAlwaysFollows == Spec => []FileFollowsMemory
<1>1. Init => FileFollowsMemory
  BY DEF Init, FileFollowsMemory
<1> QED BY <1>1, FollowsNext, SavesHold, PTL DEF Spec

-----------------------------------------------------------------------------
(* What is owed.                                                              *)

LEMMA OwingInit == Init => Owing
BY DEF Init, Owing, OnDisk

(* Adoption moves an entry, and leaves one that is there already.             *)
LEMMA AdoptionOwes ==
  ASSUME Types, SavesInv, Owing, NEW e \in Entries, move_into(e)
  PROVE  Owing'
<1>1. /\ phase # "up" /\ ~mixed /\ phase' = phase /\ saving' = saving /\ store' = store /\ owed' = owed
  BY DEF move_into, threads, ghosts, SavesInv, Stages
<1>2. IsDir(here) /\ IsDir(old)
  BY DEF Types, Typed
<1>3. \/ here' = here /\ old' = old
      \/ here[e] = Absent(e) /\ here' = [here EXCEPT ![e] = old[e]] /\ old' = [old EXCEPT ![e] = Absent(e)]
  BY DEF move_into, Placed
<1>4. OnDisk \subseteq OnDisk'
  <2>1. CASE here' = here /\ old' = old
    BY <2>1 DEF OnDisk
  <2>2. CASE here[e] = Absent(e) /\ here' = [here EXCEPT ![e] = old[e]] /\ old' = [old EXCEPT ![e] = Absent(e)]
    <3>1. /\ here'[e] = old[e] /\ \A x \in Entries \ {e} : here'[x] = here[x] /\ old'[x] = old[x]
      BY <1>2, <2>2 DEF IsDir
    <3>2. ItemsOf(None) = {} /\ ItemsIn(<<>>) = {}
      BY DEF ItemsOf, ItemsIn
    <3>3. CASE e = "file"
      BY <2>2, <3>1, <3>2, <3>3, HeldInParts DEF OnDisk, Absent, Entries
    <3>4. CASE e = "backups"
      BY <2>2, <3>1, <3>2, <3>4, HeldInParts DEF OnDisk, Absent, Entries
    <3>5. CASE e = "other"
      BY <3>1, <3>5, HeldInParts DEF OnDisk, Entries
    <3> QED BY <3>3, <3>4, <3>5 DEF Entries
  <2> QED BY <1>3, <2>1, <2>2
<1> QED BY <1>1, <1>4 DEF Owing, SavesInv, Stages

LEMMA LoadOwes ==
  ASSUME Types, SavesInv, Owing, Load
  PROVE  Owing'
<1>1. PICK r \in read : /\ here' = r.dir
                        /\ mem' = IF store.saves = "reread" THEN {} ELSE r.items
                        /\ owed' = owed \ r.spent
  BY DEF Load, Take
<1>2. /\ OnDisk \ r.spent \subseteq r.items \cup Safe(r.dir)
      /\ OnDisk \ r.spent \subseteq HeldIn(r.dir) \cup HeldIn(old)
  BY ReadSound DEF Sound, Types
<1>3. /\ phase # "up" /\ ~mixed /\ saving' = saving /\ store' = store /\ old' = old
      /\ \A t \in Threads : saving[t] = "no"
  BY DEF Load, threads, SavesInv, Stages
<1>4. owed \subseteq OnDisk
  BY <1>3 DEF Owing
<1>5. owed' \subseteq r.items \cup Safe(r.dir) /\ owed' \subseteq HeldIn(r.dir) \cup HeldIn(old)
  BY <1>1, <1>2, <1>4
<1>6. Safe(here)' = Safe(r.dir) /\ OnDisk' = HeldIn(r.dir) \cup HeldIn(old)
  BY <1>1, <1>3 DEF Safe, OnDisk
<1> QED BY <1>1, <1>3, <1>5, <1>6 DEF Owing

(* What the user takes out is not owed; what he puts in, memory has.          *)
LEMMA TouchOwes ==
  ASSUME Types, SavesInv, Owing, NEW t \in Threads, NEW i \in Items, NEW put \in BOOLEAN,
         TouchLocked(t, i, put) \/ Touch(t, i, put)
  PROVE  Owing'
<1>1. /\ here' = here /\ old' = old /\ store' = store /\ phase' = phase
      /\ store.saves # "reread"
      /\ owed' = (IF put THEN owed ELSE owed \ {i})
      /\ mem' = Changed(mem, i, put)
      /\ mixed' = (mixed \/ Others(t))
  BY DEF TouchLocked, Touch, Change
<1>2. Safe(here)' = Safe(here) /\ OnDisk' = OnDisk
  BY <1>1 DEF Safe, OnDisk
<1>3. owed \subseteq mem \cup Safe(here) => owed' \subseteq mem' \cup Safe(here)
  BY <1>1 DEF Changed
<1> QED BY <1>1, <1>2, <1>3 DEF Owing

(* A change to the document read again is all that is owed of it.             *)
LEMMA TouchRereadOwes ==
  ASSUME Types, SavesInv, Owing, NEW t \in Threads, NEW i \in Items, NEW put \in BOOLEAN,
         TouchReread(t, i, put)
  PROVE  Owing'
<1>1. PICK r \in read : /\ here' = r.dir
                        /\ owed' = owed \ (r.spent \cup IF put THEN {} ELSE {i})
                        /\ doc' = [doc EXCEPT ![t] = stamped(Kept(r.items, i, put))]
  BY DEF TouchReread, Take
<1>2. Sound(r)
  BY ReadSound DEF Types
<1>3. /\ store' = store /\ old' = old /\ store.saves = "reread"
      /\ mixed' = (mixed \/ Others(t))
      /\ \A u \in Threads \ {t} : saving'[u] = saving[u]
  BY DEF TouchReread, Types, TypeOK
<1>4. Safe(here)' = Safe(r.dir) /\ OnDisk' = HeldIn(r.dir) \cup HeldIn(old)
  BY <1>1, <1>3 DEF Safe, OnDisk
<1>5. doc'[t].items = Changed(r.items, i, put)
  BY <1>1 DEF Types, Typed, stamped, Kept
<1>6. ASSUME ~mixed'
      PROVE  /\ owed' \subseteq OnDisk'
             /\ \A u \in Threads : saving'[u] # "no" => owed' \subseteq doc'[u].items \cup Safe(here)'
  <2>1. ~mixed /\ ~Others(t)
    BY <1>3, <1>6
  <2>2. owed \subseteq OnDisk
    BY <2>1 DEF Owing
  <2>3. owed \ r.spent \subseteq HeldIn(r.dir) \cup HeldIn(old) /\ owed \ r.spent \subseteq r.items \cup Safe(r.dir)
    BY <1>2, <2>2 DEF Sound
  <2>4. owed' \subseteq OnDisk'
    BY <1>1, <1>4, <2>3
  <2>5. owed' \subseteq Changed(r.items, i, put) \cup Safe(r.dir)
    BY <1>1, <2>3 DEF Changed
  <2>6. \A u \in Threads : saving'[u] # "no" => u = t
    BY <1>3, <2>1 DEF Others
  <2> QED BY <1>4, <1>5, <2>4, <2>5, <2>6
<1> QED BY <1>3, <1>6 DEF Owing

(* A save under way changes what is on disk only when it has overlapped.      *)
LEMMA StepOwes ==
  ASSUME Types, SavesInv, Owing, NEW t \in Threads, persist(t) \/ create(t) \/ write_all(t) \/ Abandon(t)
  PROVE  Owing'
<1>1. /\ owed' = owed /\ mixed' = mixed /\ store' = store /\ mem' = mem /\ old' = old /\ phase' = phase
      /\ saving[t] # "no"
      /\ \A u \in Threads \ {t} : saving'[u] = saving[u] /\ doc'[u] = doc[u]
  BY DEF persist, create, write_all, Abandon, Done, bounds, ghosts, Types, TypeOK, Typed
<1>2. here'["backups"] = here["backups"]
  <2>1. here = [x \in Entries |-> here[x]]
    BY DEF Types, Typed, IsDir
  <2>2. here' = here \/ \E d : here' = [here EXCEPT !["file"] = d]
    <3>1. CASE persist(t) \/ create(t)
      BY <3>1 DEF persist, create
    <3>2. CASE write_all(t)
      BY <3>2 DEF write_all, Types, TypeOK
    <3>3. CASE Abandon(t)
      BY <3>3 DEF Abandon
    <3> QED BY <3>1, <3>2, <3>3
  <2> QED BY <2>1, <2>2 DEF Entries
<1>3. Safe(here)' = Safe(here)
  BY <1>1, <1>2 DEF Safe
<1>4. ~mixed => OnDisk' = OnDisk
  BY <1>1, SaveLeavesFile DEF OnDisk
<1>5. doc'[t] = doc[t] \/ store.saves # "reread"
  BY DEF persist, create, write_all, Abandon, Done, SavesInv, Stages
<1> QED BY <1>1, <1>3, <1>4, <1>5 DEF Owing

(* The file a save replaces held nothing the save does not write.             *)
LEMMA RenameOwes ==
  ASSUME Types, SavesInv, Owing, NEW t \in Threads, rename(t)
  PROVE  Owing'
<1>1. /\ mixed' = mixed /\ store' = store /\ mem' = mem /\ old' = old /\ phase' = phase /\ doc' = doc
      /\ saving[t] = "rename" /\ saving'[t] = "no" /\ \A u \in Threads \ {t} : saving'[u] = saving[u]
      /\ here' = here \/ here' = [here EXCEPT !["file"] = temp]
  BY DEF rename, Done, Types, TypeOK
<1>2. phase = "up"
  BY <1>1 DEF SavesInv, Stages
<1>3. here'["backups"] = here["backups"]
  BY <1>1, FileReplaced DEF Types, Typed
<1>4. Safe(here)' = Safe(here)
  BY <1>1, <1>3 DEF Safe
<1>5. CASE mixed
  <2>1. owed' = owed
    BY <1>5 DEF rename
  <2> QED BY <1>1, <1>4, <1>5, <2>1 DEF Owing
<1>6. CASE ~mixed
  <2>1. temp = doc[t] /\ temp \in Documents /\ temp # None
    BY <1>1, <1>6, RenamedIsWhole, NoneIsNothing
  <2>2. here' = [here EXCEPT !["file"] = temp] /\ owed' = owed \cup temp.items
    BY <1>6, <2>1 DEF rename
  <2>3. here'["file"] = temp
    BY <2>1, <2>2, FileReplaced DEF Types, Typed
  <2>4. HeldIn(here') = temp.items \cup ItemsIn(here["backups"])
    BY <1>3, <2>1, <2>3, HeldInParts DEF ItemsOf
  <2>5. OnDisk' = temp.items \cup Safe(here)
    BY <1>1, <2>4 DEF OnDisk, Safe
  <2>6. owed \subseteq temp.items \cup Safe(here)
    <3>1. CASE store.saves = "reread"
      BY <1>1, <1>6, <2>1, <3>1 DEF Owing
    <3>2. CASE store.saves # "reread"
      BY <1>1, <1>2, <1>6, <2>1, <3>2 DEF Owing, SavesInv, Alone, OwnTemp
    <3> QED BY <3>1, <3>2
  <2>7. owed' \subseteq OnDisk'
    BY <2>2, <2>5, <2>6
  <2>8. store.saves # "reread" => temp.items = mem
    BY <1>1, <1>6, <2>1 DEF SavesInv, Alone, OwnTemp
  <2>9. store.saves # "reread" => owed' \subseteq mem' \cup Safe(here)'
    BY <1>1, <1>4, <2>2, <2>6, <2>8
  <2>10. \A u \in Threads : saving'[u] = "no"
    BY <1>1, <1>6 DEF SavesInv, Alone
  <2> QED BY <1>1, <2>7, <2>9, <2>10 DEF Owing
<1> QED BY <1>5, <1>6

LEMMA OwingNext == Types /\ SavesInv /\ Owing /\ [Next]_vars => Owing'
<1> SUFFICES ASSUME Types, SavesInv, Owing, [Next]_vars PROVE Owing'
  OBVIOUS
<1>1. ASSUME NEW b \in Builds, Launch(b)
      PROVE  Owing'
  BY <1>1 DEF Launch, Ready, threads, ghosts, Owing, OnDisk, Safe
<1>2. CASE mark
  BY <1>2 DEF mark, threads, ghosts, Owing, OnDisk, Safe
<1>3. CASE Exit
  <2>1. here' = here /\ old' = old /\ phase' = "down" /\ saving' = [t \in Threads |-> "no"]
        /\ owed' = (IF mixed THEN owed \cap OnDisk ELSE owed)
    BY <1>3 DEF Exit
  <2>2. owed' \subseteq OnDisk'
    BY <2>1 DEF Owing, OnDisk
  <2> QED BY <2>1, <2>2 DEF Owing
<1>4. CASE Damage
  <2>1. /\ phase = "down" /\ phase' = phase /\ store' = store /\ saving' = saving /\ old' = old /\ owed' = owed
        /\ mixed' = mixed
    BY <1>4 DEF Damage, threads, ghosts
  <2>2. here["file"] # None /\ here["file"] \in Documents
    BY <1>4 DEF Damage, Types, Typed, IsDir
  <2>. DEFINE d == [here["file"] EXCEPT !.is = "damaged"]
  <2>3. d \in Documents /\ d.items = here["file"].items
    BY <2>2 DEF Documents, States
  <2>4. here' = [here EXCEPT !["file"] = d]
    BY <1>4 DEF Damage
  <2>. HIDE DEF d
  <2>5. here = [x \in Entries |-> here[x]]
    BY DEF Types, Typed, IsDir
  <2>6. here'["file"] = d /\ here'["backups"] = here["backups"]
    BY <2>4, <2>5 DEF Entries
  <2>7. d # None
    BY <2>3, NoneIsNothing
  <2>8. HeldIn(here') = HeldIn(here)
    BY <2>2, <2>3, <2>6, <2>7, HeldInParts DEF ItemsOf
  <2>9. OnDisk' = OnDisk
    BY <2>1, <2>8 DEF OnDisk
  <2> QED BY <2>1, <2>9 DEF Owing, SavesInv, Stages
<1>5. CASE UNCHANGED vars
  BY <1>5 DEF vars, Owing, OnDisk, Safe
<1> QED BY <1>1, <1>2, <1>3, <1>4, <1>5, AdoptionOwes, LoadOwes, TouchOwes, TouchRereadOwes,
           StepOwes, RenameOwes DEF Next

(* NothingEverLost: what a completed save put on disk and the user did not    *)
(* take out stays on disk or in memory, through exits in the middle of a save, *)
(* damaged files, builds of different formats and adoption.                   *)
THEOREM NothingEverLost == Spec => []NothingLost
<1>1. SavesInv /\ Owing => NothingLost
  <2> SUFFICES ASSUME Owing, ~(store.saves = "reread" /\ mixed), SavesInv
               PROVE  owed \subseteq OnDisk \cup mem
    BY DEF NothingLost
  <2>1. CASE ~mixed
    BY <2>1 DEF Owing
  <2>2. CASE store.saves # "reread" /\ mixed
    <3>1. owed \subseteq mem \cup Safe(here)
      BY <2>2 DEF Owing, SavesInv, Stages
    <3>2. Safe(here) \subseteq OnDisk
      BY HeldInParts DEF Safe, OnDisk
    <3> QED BY <3>1, <3>2
  <2> QED BY <2>1, <2>2
<1> QED BY <1>1, OwingInit, OwingNext, SavesHold, PTL DEF Spec

=============================================================================
