------------------------ MODULE AddressSpace_proofs ------------------------
(***************************************************************************)
(* Proofs about AddressSpace, for every set of spaces, of texts and of     *)
(* buckets, every depth of nested visits and every value of InlineResults  *)
(* and MaxMethods: the memo never answers with a stale, truncated or       *)
(* mistaken result, the reader and visit counts are those of the stack,    *)
(* and a bucket is not overwritten under its reader.                       *)
(***************************************************************************)
EXTENDS AddressSpace, SequenceTheorems, FiniteSetTheorems, TLAPS

(***************************************************************************)
(* The stack of frames, and the counts taken of it.                        *)
(***************************************************************************)

\* A space has finitely many open visits, so the counts are numbers.
LEMMA OpenedIsFinite ==
    ASSUME NEW frames \in Seq(Frame), NEW s
    PROVE  /\ IsFiniteSet(Opened(frames, s))
           /\ \A b : IsFiniteSet(ReadBy(frames, s, b))
<1>1. Len(frames) \in Nat
    BY LenProperties
<1>2. IsFiniteSet(1..Len(frames))
    BY <1>1, FS_Interval
<1>3. Opened(frames, s) \subseteq 1..Len(frames)
    BY DEF Opened
<1>4. IsFiniteSet(Opened(frames, s))
    BY <1>2, <1>3, FS_Subset
<1>5. \A b : ReadBy(frames, s, b) \subseteq Opened(frames, s)
    BY DEF ReadBy
<1> QED
    BY <1>4, <1>5, FS_Subset

\* Where a frame is pushed or popped.
LEMMA PushedFrames ==
    ASSUME NEW frames \in Seq(Frame), NEW frame \in Frame, NEW s
    PROVE  LET pushed == Append(frames, frame) IN
           /\ Opened(pushed, s) =
                 IF frame.space = s THEN Opened(frames, s) \cup {Len(frames) + 1}
                                    ELSE Opened(frames, s)
           /\ \A b : ReadBy(pushed, s, b) =
                 IF frame.space = s /\ frame.mode = "kept" /\ BucketOf[frame.text] = b
                 THEN ReadBy(frames, s, b) \cup {Len(frames) + 1}
                 ELSE ReadBy(frames, s, b)
<1> DEFINE pushed == Append(frames, frame)
           n == Len(frames)
<1>1. /\ n \in Nat /\ Len(pushed) = n + 1
      /\ \A i \in 1..n : pushed[i] = frames[i]
      /\ pushed[n + 1] = frame
    BY AppendProperties, LenProperties
<1>2. \A i : i \in 1..(n + 1) <=> i \in 1..n \/ i = n + 1
    BY <1>1
<1>3. n + 1 \notin 1..n
    BY <1>1
<1> HIDE DEF n, pushed
<1>4. Opened(pushed, s) =
          IF frame.space = s THEN Opened(frames, s) \cup {n + 1}
                             ELSE Opened(frames, s)
    BY <1>1, <1>2, <1>3 DEF Opened, n
<1>5. ASSUME NEW b
      PROVE  ReadBy(pushed, s, b) =
                 IF frame.space = s /\ frame.mode = "kept" /\ BucketOf[frame.text] = b
                 THEN ReadBy(frames, s, b) \cup {n + 1}
                 ELSE ReadBy(frames, s, b)
    BY <1>1, <1>2, <1>3 DEF Opened, ReadBy, n
<1> QED
    BY <1>4, <1>5 DEF n, pushed

\* What is left when the innermost visit closes.
LEMMA PoppedFrames ==
    ASSUME NEW frames \in Seq(Frame), frames # <<>>, NEW s
    PROVE  LET popped == SubSeq(frames, 1, Len(frames) - 1) IN
           /\ popped \in Seq(Frame)
           /\ Len(popped) = Len(frames) - 1
           /\ \A i \in 1..(Len(frames) - 1) : popped[i] = frames[i]
           /\ Opened(popped, s) = Opened(frames, s) \ {Len(frames)}
           /\ \A b : ReadBy(popped, s, b) = ReadBy(frames, s, b) \ {Len(frames)}
<1> DEFINE popped == SubSeq(frames, 1, Len(frames) - 1)
           n == Len(frames)
<1>1. n \in Nat /\ n # 0
    BY LenProperties, EmptySeq
<1>2. /\ popped \in Seq(Frame)
      /\ Len(popped) = n - 1
      /\ \A i \in 1..(n - 1) : popped[i] = frames[i]
    <2>1. \A i \in 1..(n - 1) : frames[i] \in Frame
        BY <1>1, ElementOfSeq
    <2>2. (n - 1) \in Int /\ (n - 1) - 1 + 1 = n - 1
        BY <1>1
    <2>3. /\ popped \in Seq(Frame)
          /\ Len(popped) = IF 1 <= n - 1 THEN (n - 1) - 1 + 1 ELSE 0
          /\ \A i \in 1..((n - 1) - 1 + 1) : popped[i] = frames[1 + i - 1]
        BY <2>1, <2>2, SubSeqProperties
    <2> QED
        BY <1>1, <2>2, <2>3
<1>3. \A i : i \in 1..(n - 1) <=> i \in 1..n /\ i # n
    BY <1>1
<1> HIDE DEF n, popped
<1>4. Opened(popped, s) = Opened(frames, s) \ {n}
    BY <1>2, <1>3 DEF Opened, n
<1>5. \A b : ReadBy(popped, s, b) = ReadBy(frames, s, b) \ {n}
    BY <1>2, <1>3 DEF Opened, ReadBy, n
<1> QED
    BY <1>2, <1>4, <1>5 DEF n, popped

(***************************************************************************)
(* The inductive invariant.                                                *)
(***************************************************************************)

\* No bucket was stored in at a generation still to come.
NothingNewer ==
    \A s \in Spaces :
        /\ generation[s] > kNeverStored
        /\ \A b \in Buckets : buckets[s][b].generation <= generation[s]

\* A scan that may be kept has noted the matches it has passed, all of them; a
\* literal is registered when it has a method to visit, and only then.
SoundFrame(frame, list) ==
    /\ frame.mode = "kept" => frame.text \in Texts
    /\ frame.mode \in {"one", "none"} =>
          /\ frame.text \in Literals
          /\ frame.text \in Range(list) <=> frame.mode = "one"
    /\ frame.mode = "scan" =>
          /\ frame.text \in Wildcards
          /\ frame.pos \in 0..Len(list)
          /\ frame.memoisable => Len(list) <= MaxMethods
          /\ frame.memoisable /\ frame.numFound <= InlineResults =>
                /\ Len(frame.found) = frame.numFound
                /\ IsMatchList(list, frame.text, frame.found, frame.pos)

\* Every scan on the stack, however deep, has noted what it passed.
FramesSound ==
    \A i \in 1..Len(stack) : SoundFrame(stack[i], methods[stack[i].space])

\* What every step preserves.  MemoCoherent alone is not inductive: it needs
\* to know that a store is given a complete list (FramesSound) and that a
\* generation that moves on leaves every bucket behind (NothingNewer).
IInv ==
    /\ TypeOK
    /\ MethodsInOrder
    /\ ReadersBalanced
    /\ MemoCoherent
    /\ NothingNewer
    /\ FramesSound

\* A program that has just constructed its spaces satisfies the invariant.
THEOREM InitIInv == Init => IInv
<1> SUFFICES ASSUME Init PROVE IInv
    OBVIOUS
<1> USE ConstantsAssumption
<1>1. TypeOK
    BY EmptySeq DEF Init, TypeOK, EmptyBuckets, Bucket, kNeverStored
<1>2. MethodsInOrder
    BY EmptySeq DEF Init, MethodsInOrder
<1>3. ReadersBalanced
    <2>1. \A s : Opened(stack, s) = {} /\ \A b : ReadBy(stack, s, b) = {}
        BY EmptySeq DEF Init, Opened, ReadBy
    <2> QED
        BY <2>1, FS_EmptySet DEF Init, ReadersBalanced, EmptyBuckets
<1>4. MemoCoherent /\ NothingNewer
    BY DEF Init, MemoCoherent, NothingNewer, Live, EmptyBuckets, kNeverStored
<1>5. FramesSound
    BY EmptySeq DEF Init, FramesSound
<1> QED
    BY <1>1, <1>2, <1>3, <1>4, <1>5 DEF IInv

(***************************************************************************)
(* Steps that change spaces and leave the stack alone.                     *)
(***************************************************************************)

\* A space no visit is open on has no frame on the stack and no reader.
LEMMA UnvisitedSpace ==
    ASSUME IInv, NEW s \in Spaces, Unvisited(s)
    PROVE  /\ Opened(stack, s) = {}
           /\ \A b \in Buckets : /\ ReadBy(stack, s, b) = {}
                                 /\ buckets[s][b].numReaders = 0
<1>1. stack \in Seq(Frame)
    BY DEF IInv, TypeOK
<1>2. Opened(stack, s) = {}
    BY <1>1, OpenedIsFinite, FS_EmptySet DEF IInv, ReadersBalanced, Unvisited
<1>3. \A b : ReadBy(stack, s, b) = {}
    BY <1>2 DEF ReadBy
<1> QED
    BY <1>2, <1>3, FS_EmptySet DEF IInv, ReadersBalanced

\* A space that no visit is open on may change its methods and its buckets:
\* the counts and the frames of the visits in progress do not notice.
LEMMA SpacesChange ==
    ASSUME IInv, UNCHANGED <<openVisits, stack>>,
           \A s \in Spaces :
               \/ methods'[s] = methods[s] /\ buckets'[s] = buckets[s]
               \/ /\ Unvisited(s)
                  /\ \A b \in Buckets : buckets'[s][b].numReaders = 0
    PROVE  ReadersBalanced' /\ FramesSound'
<1>1. stack \in Seq(Frame) /\ Len(stack) \in Nat
    BY LenProperties DEF IInv, TypeOK
<1>2. ReadersBalanced'
    <2>1. \A s \in Spaces : Unvisited(s) =>
              \A b \in Buckets : Cardinality(ReadBy(stack, s, b)) = 0
        BY UnvisitedSpace, FS_EmptySet
    <2> QED
        BY <2>1 DEF IInv, ReadersBalanced
<1>3. FramesSound'
    <2>1. ASSUME NEW i \in 1..Len(stack)
          PROVE  methods'[stack[i].space] = methods[stack[i].space]
        <3>1. stack[i] \in Frame
            BY <1>1, ElementOfSeq
        <3>2. stack[i].space \in Spaces
            BY <3>1 DEF Frame
        <3>3. i \in Opened(stack, stack[i].space)
            BY DEF Opened
        <3>4. ~Unvisited(stack[i].space)
            BY <3>2, <3>3, UnvisitedSpace
        <3> QED
            BY <3>2, <3>4
    <2> QED
        BY <2>1 DEF IInv, FramesSound
<1> QED
    BY <1>2, <1>3

\* insert keeps the table sorted and free of duplicates.
LEMMA InsertedMethods ==
    ASSUME NEW list \in Seq(Address), NEW a \in Address, NEW p, a \notin Range(list),
           \A i, j \in 1..Len(list) : i < j => list[i] < list[j],
           IsLowerBound(list, a, p)
    PROVE  /\ InsertMethod(list, p, a) \in Seq(Address)
           /\ \A i, j \in 1..Len(InsertMethod(list, p, a)) :
                 i < j => InsertMethod(list, p, a)[i] < InsertMethod(list, p, a)[j]
<1> DEFINE n == Len(list)
           grown == InsertMethod(list, p, a)
<1>1. /\ n \in Nat
      /\ p \in 1..(n + 1)
      /\ \A i \in 1..n : list[i] \in Address
    BY LenProperties, ElementOfSeq DEF IsLowerBound
<1>2. /\ \A i \in 1..n : list[i] \in Int /\ list[i] # a
      /\ a \in Int
    <2>1. \A i \in 1..n : list[i] \in Range(list)
        BY LenProperties DEF Range
    <2>2. Address \subseteq Int
        BY ConstantsAssumption DEF Address
    <2> QED
        BY <1>1, <2>1, <2>2
<1>3. grown \in [1..(n + 1) -> Address]
    BY <1>1 DEF InsertMethod
<1>4. grown \in Seq(Address) /\ Len(grown) = n + 1
    BY <1>1, <1>3, IsASeq
<1>5. \A i \in 1..(n + 1) :
          grown[i] = IF i < p THEN list[i] ELSE IF i = p THEN a ELSE list[i - 1]
    BY DEF InsertMethod
<1>6. /\ \A i \in 1..(p - 1) : list[i] < a
      /\ \A i \in p..n : list[i] > a
    BY <1>1, <1>2 DEF IsLowerBound
<1> HIDE DEF grown, n
<1>7. ASSUME NEW i \in 1..(n + 1), NEW j \in 1..(n + 1), i < j
      PROVE  grown[i] < grown[j]
    <2>1. CASE j < p
        BY <1>1, <1>2, <1>5, <1>7, <2>1 DEF n
    <2>2. CASE j = p
        BY <1>1, <1>2, <1>5, <1>6, <1>7, <2>2 DEF n
    <2>3. CASE j > p /\ i = p
        BY <1>1, <1>2, <1>5, <1>6, <1>7, <2>3 DEF n
    <2>4. CASE j > p /\ i < p
        <3>1. grown[i] < a /\ grown[j] > a
            BY <1>1, <1>2, <1>5, <1>6, <1>7, <2>4, SMTT(20)
        <3>2. i \in 1..n /\ j - 1 \in 1..n
            BY <1>1, <1>7, <2>4
        <3>3. grown[i] \in Int /\ grown[j] \in Int
            BY <1>1, <1>2, <1>5, <2>4, <3>2, SMTT(20)
        <3> QED
            BY <1>2, <3>1, <3>3
    <2>5. CASE j > p /\ i > p
        BY <1>1, <1>2, <1>5, <1>7, <2>5, SMTT(20) DEF n
    <2> QED
        BY <1>1, <1>7, <2>1, <2>2, <2>3, <2>4, <2>5
<1> QED
    BY <1>4, <1>7 DEF grown

\* erase keeps the table sorted.
LEMMA ErasedMethods ==
    ASSUME NEW list \in Seq(Address), NEW p \in 1..Len(list),
           \A i, j \in 1..Len(list) : i < j => list[i] < list[j]
    PROVE  /\ EraseMethod(list, p) \in Seq(Address)
           /\ \A i, j \in 1..Len(EraseMethod(list, p)) :
                 i < j => EraseMethod(list, p)[i] < EraseMethod(list, p)[j]
<1> DEFINE n == Len(list)
           shrunk == EraseMethod(list, p)
<1>1. n \in Nat /\ n - 1 \in Nat /\ \A i \in 1..n : list[i] \in Address
    BY LenProperties, ElementOfSeq
<1>2. shrunk \in [1..(n - 1) -> Address]
    BY <1>1 DEF EraseMethod
<1>3. shrunk \in Seq(Address) /\ Len(shrunk) = n - 1
    BY <1>1, <1>2, IsASeq
<1>4. \A i \in 1..(n - 1) : shrunk[i] = IF i < p THEN list[i] ELSE list[i + 1]
    BY DEF EraseMethod
<1> HIDE DEF shrunk
<1>5. ASSUME NEW i \in 1..(n - 1), NEW j \in 1..(n - 1), i < j
      PROVE  shrunk[i] < shrunk[j]
    BY <1>1, <1>4, <1>5
<1> QED
    BY <1>3, <1>5 DEF shrunk

\* No bucket of a space is live once its generation has moved on.
LEMMA ForgottenBuckets ==
    ASSUME IInv, NEW s \in Spaces, Forget(s), UNCHANGED buckets
    PROVE  /\ generation' \in [Spaces -> Nat]
           /\ NothingNewer'
           /\ \A b \in Buckets : ~Live(s, b)'
           /\ \A r \in Spaces \ {s}, b \in Buckets : Live(r, b)' <=> Live(r, b)
<1>1. /\ generation \in [Spaces -> Nat]
      /\ buckets \in [Spaces -> [Buckets -> Bucket]]
      /\ generation' = [generation EXCEPT ![s] = @ + 1]
    BY DEF IInv, TypeOK, Forget
<1>2. \A r \in Spaces, b \in Buckets : buckets[r][b].generation \in Nat
    BY <1>1 DEF Bucket
<1> QED
    BY <1>1, <1>2 DEF IInv, NothingNewer, Live, kNeverStored

\* add: the table stays in order and every bucket falls behind.
LEMMA AddIInv ==
    ASSUME IInv, NEW s \in Spaces, NEW a \in Address, Add(s, a)
    PROVE  IInv'
<1>1. /\ Unvisited(s)
      /\ a \notin Range(methods[s])
      /\ Forget(s)
      /\ UNCHANGED <<memoised, buckets, openVisits, stack>>
    BY DEF Add, Registered
<1>2. PICK p \in 1..(Len(methods[s]) + 1) :
          /\ IsLowerBound(methods[s], a, p)
          /\ methods' = [methods EXCEPT ![s] = InsertMethod(@, p, a)]
    BY DEF Add
<1>3. /\ methods \in [Spaces -> Seq(Address)]
      /\ methods' = [methods EXCEPT ![s] = InsertMethod(methods[s], p, a)]
    BY <1>2 DEF IInv, TypeOK
<1>4. /\ InsertMethod(methods[s], p, a) \in Seq(Address)
      /\ \A i, j \in 1..Len(InsertMethod(methods[s], p, a)) : i < j =>
            InsertMethod(methods[s], p, a)[i] < InsertMethod(methods[s], p, a)[j]
    BY <1>1, <1>2, <1>3, InsertedMethods DEF IInv, MethodsInOrder
<1>5. TypeOK'
    BY <1>1, <1>3, <1>4, ForgottenBuckets DEF IInv, TypeOK
<1>6. MethodsInOrder'
    BY <1>3, <1>4 DEF IInv, MethodsInOrder
<1>7. ReadersBalanced' /\ FramesSound'
    <2>1. \A b \in Buckets : buckets'[s][b].numReaders = 0
        BY <1>1, UnvisitedSpace
    <2> QED
        BY <1>1, <1>3, <2>1, SpacesChange
<1>8. MemoCoherent' /\ NothingNewer'
    BY <1>1, <1>3, ForgottenBuckets DEF IInv, MemoCoherent
<1> QED
    BY <1>5, <1>6, <1>7, <1>8 DEF IInv

\* remove: the table stays in order and every bucket falls behind.
LEMMA RemoveIInv ==
    ASSUME IInv, NEW s \in Spaces, NEW a \in Address, Remove(s, a)
    PROVE  IInv'
<1>1. /\ Unvisited(s)
      /\ Forget(s)
      /\ UNCHANGED <<memoised, buckets, openVisits, stack>>
    BY DEF Remove
<1>2. PICK p \in 1..Len(methods[s]) :
          methods' = [methods EXCEPT ![s] = EraseMethod(@, p)]
    BY DEF Remove
<1>3. /\ methods \in [Spaces -> Seq(Address)]
      /\ methods' = [methods EXCEPT ![s] = EraseMethod(methods[s], p)]
    BY <1>2 DEF IInv, TypeOK
<1>4. /\ EraseMethod(methods[s], p) \in Seq(Address)
      /\ \A i, j \in 1..Len(EraseMethod(methods[s], p)) : i < j =>
            EraseMethod(methods[s], p)[i] < EraseMethod(methods[s], p)[j]
    BY <1>3, ErasedMethods DEF IInv, MethodsInOrder
<1>5. TypeOK'
    BY <1>1, <1>3, <1>4, ForgottenBuckets DEF IInv, TypeOK
<1>6. MethodsInOrder'
    BY <1>3, <1>4 DEF IInv, MethodsInOrder
<1>7. ReadersBalanced' /\ FramesSound'
    <2>1. \A b \in Buckets : buckets'[s][b].numReaders = 0
        BY <1>1, UnvisitedSpace
    <2> QED
        BY <1>1, <1>3, <2>1, SpacesChange
<1>8. MemoCoherent' /\ NothingNewer'
    BY <1>1, <1>3, ForgottenBuckets DEF IInv, MemoCoherent
<1> QED
    BY <1>5, <1>6, <1>7, <1>8 DEF IInv

\* A bucket is judged by what it holds and by the methods of its space.
LEMMA CoherenceIsLocal ==
    ASSUME IInv, NEW s \in Spaces, NEW r \in Spaces,
           methods'[s] = methods[r], generation'[s] = generation[r],
           \A b \in Buckets :
               /\ buckets'[s][b].generation = buckets[r][b].generation
               /\ buckets'[s][b].text = buckets[r][b].text
               /\ buckets'[s][b].results = buckets[r][b].results
    PROVE  /\ \A i, j \in 1..Len(methods'[s]) :
                 i < j => methods'[s][i] < methods'[s][j]
           /\ generation'[s] > kNeverStored
           /\ \A b \in Buckets :
                 /\ buckets'[s][b].generation <= generation'[s]
                 /\ Live(s, b)' =>
                       /\ buckets'[s][b].text \in Texts \ Malformed
                       /\ IsMatchList(methods'[s], buckets'[s][b].text,
                                      buckets'[s][b].results, Len(methods'[s]))
BY DEF IInv, MethodsInOrder, NothingNewer, MemoCoherent, Live

\* The same of a space that is as good as new.
LEMMA EmptySpace ==
    ASSUME NEW s \in Spaces,
           methods'[s] = <<>>, generation'[s] \in Nat,
           generation'[s] > kNeverStored, buckets'[s] = EmptyBuckets
    PROVE  /\ \A i, j \in 1..Len(methods'[s]) :
                 i < j => methods'[s][i] < methods'[s][j]
           /\ \A b \in Buckets :
                 /\ buckets'[s][b].generation <= generation'[s]
                 /\ ~Live(s, b)'
                 /\ buckets'[s][b].numReaders = 0
BY EmptySeq DEF EmptyBuckets, Live, kNeverStored

\* The buckets of a new memo are buckets.
LEMMA EmptyBucketsType == EmptyBuckets \in [Buckets -> Bucket]
BY EmptySeq DEF EmptyBuckets, Bucket, kNeverStored

\* Three conjuncts of the invariant speak of one space at a time.
LEMMA SpaceBySpace ==
    ASSUME \A s \in Spaces :
               /\ \A i, j \in 1..Len(methods'[s]) :
                     i < j => methods'[s][i] < methods'[s][j]
               /\ generation'[s] > kNeverStored
               /\ \A b \in Buckets :
                     /\ buckets'[s][b].generation <= generation'[s]
                     /\ Live(s, b)' =>
                           /\ buckets'[s][b].text \in Texts \ Malformed
                           /\ IsMatchList(methods'[s], buckets'[s][b].text,
                                          buckets'[s][b].results,
                                          Len(methods'[s]))
    PROVE  MethodsInOrder' /\ NothingNewer' /\ MemoCoherent'
BY DEF MethodsInOrder, NothingNewer, MemoCoherent

\* A new space has nothing to be wrong about.
LEMMA ConstructIInv ==
    ASSUME IInv, NEW s \in Spaces, Construct(s)
    PROVE  IInv'
<1>1. /\ Unvisited(s)
      /\ UNCHANGED <<openVisits, stack>>
      /\ methods' = [methods EXCEPT ![s] = <<>>]
      /\ memoised' = [memoised EXCEPT ![s] = Memo]
      /\ generation' = [generation EXCEPT ![s] = kNeverStored + 1]
      /\ buckets' = [buckets EXCEPT ![s] = EmptyBuckets]
    BY DEF Construct
<1>2. TypeOK'
    BY <1>1, EmptyBucketsType, EmptySeq, ConstantsAssumption
        DEF IInv, TypeOK, kNeverStored
<1>3. /\ methods'[s] = <<>>
      /\ generation'[s] \in Nat
      /\ generation'[s] > kNeverStored
      /\ buckets'[s] = EmptyBuckets
      /\ \A r \in Spaces : r # s =>
            /\ methods'[r] = methods[r]
            /\ generation'[r] = generation[r]
            /\ buckets'[r] = buckets[r]
    BY <1>1 DEF IInv, TypeOK, kNeverStored
<1>4. ReadersBalanced' /\ FramesSound'
    BY <1>1, <1>3, EmptySpace, SpacesChange
<1>5. MethodsInOrder' /\ NothingNewer' /\ MemoCoherent'
    BY <1>3, EmptySpace, CoherenceIsLocal, SpaceBySpace
<1> QED
    BY <1>2, <1>4, <1>5 DEF IInv

\* copy: the copy is as sound as its source, and has no readers.
LEMMA CopyIInv ==
    ASSUME IInv, NEW dst \in Spaces, NEW src \in Spaces, Copy(dst, src)
    PROVE  IInv'
<1>1. /\ Unvisited(dst)
      /\ UNCHANGED <<openVisits, stack>>
      /\ methods' = [methods EXCEPT ![dst] = methods[src]]
      /\ memoised' = [memoised EXCEPT ![dst] = memoised[src]]
      /\ generation' = [generation EXCEPT ![dst] = generation[src]]
      /\ buckets' = [buckets EXCEPT ![dst] = ForgetReaders(buckets[src])]
    BY DEF Copy
<1>2. buckets[src] \in [Buckets -> Bucket]
    BY DEF IInv, TypeOK
<1>3. /\ ForgetReaders(buckets[src]) \in [Buckets -> Bucket]
      /\ \A b \in Buckets :
            LET copied == ForgetReaders(buckets[src])[b] IN
            /\ copied.generation = buckets[src][b].generation
            /\ copied.text = buckets[src][b].text
            /\ copied.results = buckets[src][b].results
            /\ copied.numReaders = 0
    BY <1>2 DEF ForgetReaders, Bucket
<1>4. TypeOK'
    BY <1>1, <1>3 DEF IInv, TypeOK
<1>5. /\ methods'[dst] = methods[src]
      /\ generation'[dst] = generation[src]
      /\ buckets'[dst] = ForgetReaders(buckets[src])
      /\ \A r \in Spaces : r # dst =>
            /\ methods'[r] = methods[r]
            /\ generation'[r] = generation[r]
            /\ buckets'[r] = buckets[r]
    BY <1>1 DEF IInv, TypeOK
<1>6. ReadersBalanced' /\ FramesSound'
    BY <1>1, <1>3, <1>5, SpacesChange
<1>7. MethodsInOrder' /\ NothingNewer' /\ MemoCoherent'
    BY <1>3, <1>5, CoherenceIsLocal, SpaceBySpace
<1> QED
    BY <1>4, <1>6, <1>7 DEF IInv

\* move: dst takes over what is sound, src is left as good as new.
LEMMA MoveIInv ==
    ASSUME IInv, NEW dst \in Spaces, NEW src \in Spaces, Move(dst, src)
    PROVE  IInv'
<1>1. /\ Unvisited(dst) /\ Unvisited(src) /\ dst # src
      /\ UNCHANGED <<openVisits, stack>>
      /\ methods' = [methods EXCEPT ![dst] = methods[src], ![src] = <<>>]
      /\ memoised' = [memoised EXCEPT ![dst] = memoised[src], ![src] = FALSE]
      /\ generation' = [generation EXCEPT ![dst] = generation[src]]
      /\ buckets' = [buckets EXCEPT ![dst] = buckets[src],
                                    ![src] = EmptyBuckets]
    BY DEF Move
<1>2. TypeOK'
    BY <1>1, EmptyBucketsType, EmptySeq DEF IInv, TypeOK
<1>3. /\ methods'[dst] = methods[src]
      /\ generation'[dst] = generation[src]
      /\ buckets'[dst] = buckets[src]
      /\ methods'[src] = <<>>
      /\ generation'[src] \in Nat
      /\ generation'[src] > kNeverStored
      /\ buckets'[src] = EmptyBuckets
      /\ \A r \in Spaces : r # dst /\ r # src =>
            /\ methods'[r] = methods[r]
            /\ generation'[r] = generation[r]
            /\ buckets'[r] = buckets[r]
    BY <1>1 DEF IInv, TypeOK, NothingNewer
<1>4. ReadersBalanced' /\ FramesSound'
    <2>1. \A b \in Buckets : buckets[src][b].numReaders = 0
        BY <1>1, UnvisitedSpace
    <2>2. \A b \in Buckets : buckets'[src][b].numReaders = 0
        BY <1>3, EmptySpace
    <2>3. \A s \in Spaces :
              \/ methods'[s] = methods[s] /\ buckets'[s] = buckets[s]
              \/ /\ Unvisited(s)
                 /\ \A b \in Buckets : buckets'[s][b].numReaders = 0
        <3> TAKE s \in Spaces
        <3>1. CASE s = dst
            <4>1. buckets'[dst] = buckets[src]
                BY <1>3
            <4>2. \A b \in Buckets : buckets'[dst][b].numReaders = 0
                BY <2>1, <4>1
            <4> QED
                BY <1>1, <3>1, <4>2
        <3>2. CASE s = src
            BY <1>1, <2>2, <3>2
        <3>3. CASE s # dst /\ s # src
            BY <1>3, <3>3
        <3> QED
            BY <3>1, <3>2, <3>3
    <2> QED
        BY <1>1, <2>3, SpacesChange
<1>5. MethodsInOrder' /\ NothingNewer' /\ MemoCoherent'
    <2> DEFINE Sound(s) ==
            /\ \A i, j \in 1..Len(methods'[s]) :
                  i < j => methods'[s][i] < methods'[s][j]
            /\ generation'[s] > kNeverStored
            /\ \A b \in Buckets :
                  /\ buckets'[s][b].generation <= generation'[s]
                  /\ Live(s, b)' =>
                        /\ buckets'[s][b].text \in Texts \ Malformed
                        /\ IsMatchList(methods'[s], buckets'[s][b].text,
                                       buckets'[s][b].results, Len(methods'[s]))
    <2>1. Sound(src)
        BY <1>3, EmptySpace
    <2>2. Sound(dst)
        BY <1>3, CoherenceIsLocal
    <2>3. ASSUME NEW s \in Spaces, s # src, s # dst PROVE Sound(s)
        BY <1>3, <2>3, CoherenceIsLocal
    <2>4. \A s \in Spaces : Sound(s)
        BY <2>1, <2>2, <2>3
    <2> QED
        BY <2>4, SpaceBySpace
<1> QED
    BY <1>2, <1>4, <1>5 DEF IInv

(***************************************************************************)
(* Steps that open, continue and close visits.                             *)
(***************************************************************************)

\* Every text falls into a bucket.
LEMMA BucketOfText ==
    ASSUME NEW t \in Texts
    PROVE  BucketOf[t] \in Buckets
BY ConstantsAssumption

\* store and rememberNoMatch keep the memo coherent when what they are given
\* is right, and count no readers.
LEMMA RememberedBuckets ==
    ASSUME IInv, NEW s \in Spaces, NEW t \in Texts \ Malformed,
           NEW results \in Seq(Nat),
           IsMatchList(methods[s], t, results, Len(methods[s])),
           buckets' = Remember(s, t, results),
           methods' = methods, generation' = generation
    PROVE  /\ buckets' \in [Spaces -> [Buckets -> Bucket]]
           /\ MethodsInOrder' /\ NothingNewer' /\ MemoCoherent'
           /\ \A r \in Spaces, b \in Buckets :
                 buckets'[r][b].numReaders = buckets[r][b].numReaders
<1> DEFINE c == BucketOf[t]
<1>1. c \in Buckets
    BY BucketOfText
<1>2. /\ buckets \in [Spaces -> [Buckets -> Bucket]]
      /\ generation \in [Spaces -> Nat]
    BY DEF IInv, TypeOK
<1>3. CASE buckets' = buckets
    BY <1>2, <1>3 DEF IInv, MethodsInOrder, NothingNewer, MemoCoherent, Live
<1>4. CASE buckets' # buckets
    <2> DEFINE stored == [buckets[s][c] EXCEPT !.generation = generation[s],
                                               !.text = t, !.results = results]
    <2>1. buckets' = [buckets EXCEPT ![s][c] = stored]
        BY <1>4 DEF Remember, BucketFor
    <2>2. /\ stored \in Bucket
          /\ stored.generation = generation[s]
          /\ stored.text = t
          /\ stored.results = results
          /\ stored.numReaders = buckets[s][c].numReaders
        <3>1. buckets[s][c] \in Bucket /\ generation[s] \in Nat
            BY <1>1, <1>2
        <3> HIDE DEF c
        <3> QED
            BY <3>1 DEF Bucket
    <2> HIDE DEF stored, c
    <2>3. /\ buckets' \in [Spaces -> [Buckets -> Bucket]]
          /\ \A r \in Spaces, b \in Buckets :
                buckets'[r][b] = IF r = s /\ b = c THEN stored ELSE buckets[r][b]
        BY <1>1, <1>2, <2>1, <2>2
    <2>4. MethodsInOrder'
        BY DEF IInv, MethodsInOrder
    <2>5. NothingNewer'
        BY <1>2, <2>2, <2>3 DEF IInv, NothingNewer
    <2>6. MemoCoherent'
        BY <2>2, <2>3 DEF IInv, MemoCoherent, Live
    <2> QED
        BY <2>2, <2>3, <2>4, <2>5, <2>6
<1> QED
    BY <1>3, <1>4

\* A reader that starts or ends leaves the contents of its bucket alone.
LEMMA ReadBuckets ==
    ASSUME IInv, NEW s \in Spaces, NEW t \in Texts, NEW change \in Int,
           buckets[s][BucketOf[t]].numReaders + change \in Nat,
           buckets' = Reading(s, t, change),
           methods' = methods, generation' = generation
    PROVE  /\ buckets' \in [Spaces -> [Buckets -> Bucket]]
           /\ MethodsInOrder' /\ NothingNewer' /\ MemoCoherent'
           /\ \A r \in Spaces, b \in Buckets :
                 /\ buckets'[r][b].numReaders =
                       IF r = s /\ b = BucketOf[t]
                       THEN buckets[r][b].numReaders + change
                       ELSE buckets[r][b].numReaders
                 /\ buckets'[r][b].generation = buckets[r][b].generation
                 /\ buckets'[r][b].text = buckets[r][b].text
                 /\ buckets'[r][b].results = buckets[r][b].results
<1> DEFINE c == BucketOf[t]
           read == [buckets[s][c] EXCEPT
                       !.numReaders = buckets[s][c].numReaders + change]
<1>1. c \in Buckets
    BY BucketOfText
<1>2. /\ buckets \in [Spaces -> [Buckets -> Bucket]]
      /\ generation \in [Spaces -> Nat]
    BY DEF IInv, TypeOK
<1>3. buckets' = [buckets EXCEPT ![s][c] = read]
    BY DEF Reading
<1>4. /\ read \in Bucket
      /\ read.generation = buckets[s][c].generation
      /\ read.text = buckets[s][c].text
      /\ read.results = buckets[s][c].results
      /\ read.numReaders = buckets[s][c].numReaders + change
    <2>1. /\ buckets[s][c] \in Bucket
          /\ buckets[s][c].numReaders + change \in Nat
        BY <1>1, <1>2
    <2> HIDE DEF c
    <2> QED
        BY <2>1 DEF Bucket
<1> HIDE DEF read, c
<1>6. /\ buckets' \in [Spaces -> [Buckets -> Bucket]]
      /\ \A r \in Spaces, b \in Buckets :
            buckets'[r][b] = IF r = s /\ b = c THEN read ELSE buckets[r][b]
    BY <1>1, <1>2, <1>3, <1>4
<1>7. \A r \in Spaces, b \in Buckets :
          /\ buckets'[r][b].numReaders =
                IF r = s /\ b = c THEN buckets[r][b].numReaders + change
                                  ELSE buckets[r][b].numReaders
          /\ buckets'[r][b].generation = buckets[r][b].generation
          /\ buckets'[r][b].text = buckets[r][b].text
          /\ buckets'[r][b].results = buckets[r][b].results
    BY <1>4, <1>6
<1>8. MethodsInOrder' /\ NothingNewer'
    BY <1>7 DEF IInv, MethodsInOrder, NothingNewer
<1>9. MemoCoherent'
    BY <1>7 DEF IInv, MemoCoherent, Live
<1> QED
    BY <1>6, <1>7, <1>8, <1>9 DEF c

\* Where a frame is one of the readers counted on a bucket.
Reads(frame, s, b) ==
    frame.space = s /\ frame.mode = "kept" /\ BucketOf[frame.text] = b

\* A visit that opens is counted once, and once more in the bucket it reads.
LEMMA PushKeepsBalance ==
    ASSUME IInv, NEW frame \in Frame, Push(frame), methods' = methods,
           SoundFrame(frame, methods[frame.space]),
           \A s \in Spaces, b \in Buckets :
               buckets'[s][b].numReaders =
                   IF Reads(frame, s, b) THEN buckets[s][b].numReaders + 1
                                         ELSE buckets[s][b].numReaders
    PROVE  /\ stack' \in Seq(Frame)
           /\ openVisits' \in [Spaces -> Nat]
           /\ ReadersBalanced'
           /\ FramesSound'
<1>1. /\ stack \in Seq(Frame)
      /\ Len(stack) \in Nat
      /\ openVisits \in [Spaces -> Nat]
      /\ frame.space \in Spaces
      /\ stack' = Append(stack, frame)
      /\ openVisits' = [openVisits EXCEPT ![frame.space] = @ + 1]
    BY LenProperties DEF IInv, TypeOK, Push, Frame
<1>2. /\ stack' \in Seq(Frame)
      /\ openVisits' \in [Spaces -> Nat]
    BY <1>1, AppendProperties
<1>3. ASSUME NEW s \in Spaces
      PROVE  /\ openVisits'[s] = Cardinality(Opened(stack', s))
             /\ \A b \in Buckets :
                   buckets'[s][b].numReaders = Cardinality(ReadBy(stack', s, b))
    <2>1. /\ Len(stack) + 1 \notin Opened(stack, s)
          /\ \A b : Len(stack) + 1 \notin ReadBy(stack, s, b)
        BY <1>1 DEF Opened, ReadBy
    <2>2. /\ Opened(stack', s) =
                IF frame.space = s THEN Opened(stack, s) \cup {Len(stack) + 1}
                                   ELSE Opened(stack, s)
          /\ \A b : ReadBy(stack', s, b) =
                IF Reads(frame, s, b)
                THEN ReadBy(stack, s, b) \cup {Len(stack) + 1}
                ELSE ReadBy(stack, s, b)
        BY <1>1, PushedFrames DEF Reads
    <2>3. openVisits'[s] = Cardinality(Opened(stack', s))
        <3>1. openVisits[s] = Cardinality(Opened(stack, s))
            BY DEF IInv, ReadersBalanced
        <3>2. Cardinality(Opened(stack, s) \cup {Len(stack) + 1})
                  = Cardinality(Opened(stack, s)) + 1
            BY <1>1, <2>1, OpenedIsFinite, FS_AddElement
        <3>3. openVisits'[s] = IF frame.space = s THEN openVisits[s] + 1
                                                  ELSE openVisits[s]
            BY <1>1
        <3> QED
            BY <2>2, <3>1, <3>2, <3>3
    <2>4. ASSUME NEW b \in Buckets
          PROVE  buckets'[s][b].numReaders = Cardinality(ReadBy(stack', s, b))
        <3>1. buckets[s][b].numReaders = Cardinality(ReadBy(stack, s, b))
            BY DEF IInv, ReadersBalanced
        <3>2. Cardinality(ReadBy(stack, s, b) \cup {Len(stack) + 1})
                  = Cardinality(ReadBy(stack, s, b)) + 1
            <4>1. IsFiniteSet(ReadBy(stack, s, b))
                BY <1>1, OpenedIsFinite
            <4> QED
                BY <2>1, <4>1, FS_AddElement
        <3> QED
            BY <2>2, <3>1, <3>2
    <2> QED
        BY <2>3, <2>4
<1>4. FramesSound'
    <2>1. /\ Len(stack') = Len(stack) + 1
          /\ stack'[Len(stack) + 1] = frame
          /\ \A i \in 1..Len(stack) : stack'[i] = stack[i]
        BY <1>1, AppendProperties
    <2> QED
        BY <1>1, <2>1 DEF IInv, FramesSound
<1> QED
    BY <1>2, <1>3, <1>4 DEF ReadersBalanced

\* What is known of the innermost visit: its counts can be taken down.
LEMMA InnerFrame ==
    ASSUME IInv, stack # <<>>
    PROVE  /\ Len(stack) \in Nat \ {0}
           /\ Inner \in Frame
           /\ Inner.space \in Spaces
           /\ SoundFrame(Inner, methods[Inner.space])
           /\ openVisits[Inner.space] - 1 \in Nat
           /\ Inner.mode = "kept" =>
                 /\ Inner.text \in Texts
                 /\ buckets[Inner.space][BucketOf[Inner.text]].numReaders - 1
                        \in Nat
<1>1. stack \in Seq(Frame) /\ Len(stack) \in Nat \ {0}
    BY LenProperties, EmptySeq DEF IInv, TypeOK
<1>2. Inner \in Frame /\ Inner.space \in Spaces
    <2>1. Len(stack) \in 1..Len(stack)
        BY <1>1
    <2>2. Inner \in Frame
        BY <1>1, <2>1, ElementOfSeq DEF Inner
    <2> QED
        BY <2>2 DEF Frame
<1>3. SoundFrame(Inner, methods[Inner.space])
    BY <1>1 DEF IInv, FramesSound, Inner
<1>4. openVisits[Inner.space] - 1 \in Nat
    <2>1. Len(stack) \in Opened(stack, Inner.space)
        BY <1>1 DEF Opened, Inner
    <2>2. openVisits[Inner.space] # 0
        BY <1>1, <1>2, <2>1, OpenedIsFinite, FS_EmptySet DEF IInv, ReadersBalanced
    <2> QED
        BY <1>2, <2>2 DEF IInv, TypeOK
<1>5. ASSUME Inner.mode = "kept"
      PROVE  /\ Inner.text \in Texts
             /\ buckets[Inner.space][BucketOf[Inner.text]].numReaders - 1 \in Nat
    <2>1. Inner.text \in Texts /\ BucketOf[Inner.text] \in Buckets
        BY <1>3, <1>5, BucketOfText DEF SoundFrame
    <2>2. Len(stack) \in ReadBy(stack, Inner.space, BucketOf[Inner.text])
        BY <1>1, <1>5 DEF Opened, ReadBy, Inner
    <2>3. buckets[Inner.space][BucketOf[Inner.text]].numReaders # 0
        BY <1>1, <1>2, <2>1, <2>2, OpenedIsFinite, FS_EmptySet
            DEF IInv, ReadersBalanced
    <2>4. buckets[Inner.space][BucketOf[Inner.text]] \in Bucket
        BY <1>2, <2>1 DEF IInv, TypeOK
    <2> QED
        BY <2>1, <2>3, <2>4 DEF Bucket
<1> QED
    BY <1>1, <1>2, <1>3, <1>4, <1>5

\* A visit that closes takes back what it counted when it opened.
LEMMA PopKeepsBalance ==
    ASSUME IInv, stack # <<>>, Pop, methods' = methods,
           \A s \in Spaces, b \in Buckets :
               buckets'[s][b].numReaders =
                   IF Reads(Inner, s, b) THEN buckets[s][b].numReaders - 1
                                         ELSE buckets[s][b].numReaders
    PROVE  /\ stack' \in Seq(Frame)
           /\ openVisits' \in [Spaces -> Nat]
           /\ ReadersBalanced'
           /\ FramesSound'
<1>1. /\ stack \in Seq(Frame)
      /\ Len(stack) \in Nat \ {0}
      /\ openVisits \in [Spaces -> Nat]
      /\ Inner.space \in Spaces
      /\ openVisits[Inner.space] - 1 \in Nat
      /\ stack' = SubSeq(stack, 1, Len(stack) - 1)
      /\ openVisits' = [openVisits EXCEPT ![Inner.space] =
                            openVisits[Inner.space] - 1]
    BY InnerFrame DEF IInv, TypeOK, Pop
<1>2. /\ stack' \in Seq(Frame)
      /\ Len(stack') = Len(stack) - 1
      /\ \A i \in 1..(Len(stack) - 1) : stack'[i] = stack[i]
    BY <1>1, PoppedFrames
<1>3. openVisits' \in [Spaces -> Nat]
    BY <1>1
<1>4. ASSUME NEW s \in Spaces
      PROVE  /\ openVisits'[s] = Cardinality(Opened(stack', s))
             /\ \A b \in Buckets :
                   buckets'[s][b].numReaders = Cardinality(ReadBy(stack', s, b))
    <2>1. /\ Opened(stack', s) = Opened(stack, s) \ {Len(stack)}
          /\ \A b : ReadBy(stack', s, b) = ReadBy(stack, s, b) \ {Len(stack)}
        BY <1>1, PoppedFrames
    <2>2. /\ Len(stack) \in Opened(stack, s) <=> Inner.space = s
          /\ \A b : Len(stack) \in ReadBy(stack, s, b) <=> Reads(Inner, s, b)
        BY <1>1 DEF Opened, ReadBy, Reads, Inner
    <2>3. openVisits'[s] = Cardinality(Opened(stack', s))
        <3>1. openVisits[s] = Cardinality(Opened(stack, s))
            BY DEF IInv, ReadersBalanced
        <3>2. Cardinality(Opened(stack, s) \ {Len(stack)}) =
                  IF Len(stack) \in Opened(stack, s)
                  THEN Cardinality(Opened(stack, s)) - 1
                  ELSE Cardinality(Opened(stack, s))
            BY <1>1, OpenedIsFinite, FS_RemoveElement
        <3>3. openVisits'[s] = IF Inner.space = s THEN openVisits[s] - 1
                                                  ELSE openVisits[s]
            BY <1>1
        <3> QED
            BY <2>1, <2>2, <3>1, <3>2, <3>3
    <2>4. ASSUME NEW b \in Buckets
          PROVE  buckets'[s][b].numReaders = Cardinality(ReadBy(stack', s, b))
        <3>1. buckets[s][b].numReaders = Cardinality(ReadBy(stack, s, b))
            BY DEF IInv, ReadersBalanced
        <3>2. Cardinality(ReadBy(stack, s, b) \ {Len(stack)}) =
                  IF Len(stack) \in ReadBy(stack, s, b)
                  THEN Cardinality(ReadBy(stack, s, b)) - 1
                  ELSE Cardinality(ReadBy(stack, s, b))
            <4>1. IsFiniteSet(ReadBy(stack, s, b))
                BY <1>1, OpenedIsFinite
            <4> QED
                BY <4>1, FS_RemoveElement
        <3> QED
            BY <2>1, <2>2, <3>1, <3>2
    <2> QED
        BY <2>3, <2>4
<1>5. FramesSound'
    BY <1>1, <1>2 DEF IInv, FramesSound
<1> QED
    BY <1>2, <1>3, <1>4, <1>5 DEF ReadersBalanced

\* A visit that moves on changes its own frame and nothing else.
LEMMA ReplaceIInv ==
    ASSUME IInv, stack # <<>>, NEW frame \in Frame,
           frame.space = Inner.space, frame.mode = Inner.mode,
           frame.text = Inner.text,
           SoundFrame(frame, methods[Inner.space]),
           stack' = [stack EXCEPT ![Len(stack)] = frame],
           UNCHANGED <<methods, memoVars, openVisits>>
    PROVE  IInv'
<1>1. /\ stack \in Seq(Frame)
      /\ Len(stack) \in Nat \ {0}
      /\ UNCHANGED <<methods, memoised, generation, buckets, openVisits>>
    BY InnerFrame DEF IInv, TypeOK, memoVars
<1>2. /\ stack' \in Seq(Frame)
      /\ Len(stack') = Len(stack)
      /\ stack'[Len(stack)] = frame
      /\ \A i \in 1..(Len(stack) - 1) : stack'[i] = stack[i]
    BY <1>1, ExceptSeq
<1>3. TypeOK'
    BY <1>1, <1>2 DEF IInv, TypeOK
<1>4. ReadersBalanced'
    <2>1. ASSUME NEW s
          PROVE  /\ Opened(stack', s) = Opened(stack, s)
                 /\ \A b : ReadBy(stack', s, b) = ReadBy(stack, s, b)
        <3>1. \A i \in 1..Len(stack) :
                  /\ stack'[i].space = stack[i].space
                  /\ stack'[i].mode = stack[i].mode
                  /\ stack'[i].text = stack[i].text
            <4> TAKE i \in 1..Len(stack)
            <4>1. CASE i = Len(stack)
                BY <1>2, <4>1 DEF Inner
            <4>2. CASE i # Len(stack)
                <5>1. i \in 1..(Len(stack) - 1)
                    BY <1>1, <4>2
                <5>2. stack'[i] = stack[i]
                    BY <1>2, <5>1
                <5> QED
                    BY <5>2
            <4> QED
                BY <4>1, <4>2
        <3> QED
            BY <1>2, <3>1 DEF Opened, ReadBy
    <2>2. \A s \in Spaces :
              /\ openVisits[s] = Cardinality(Opened(stack, s))
              /\ \A b \in Buckets :
                    buckets[s][b].numReaders = Cardinality(ReadBy(stack, s, b))
        BY DEF IInv, ReadersBalanced
    <2> QED
        BY <1>1, <2>1, <2>2 DEF ReadersBalanced
<1>5. FramesSound'
    <2>1. \A i \in 1..Len(stack) : i \in 1..(Len(stack) - 1) \/ i = Len(stack)
        BY <1>1
    <2>2. ASSUME NEW i \in 1..Len(stack')
          PROVE  SoundFrame(stack'[i], methods'[stack'[i].space])
        <3>1. CASE i = Len(stack)
            <4>1. stack'[i] = frame /\ methods' = methods
                BY <1>1, <1>2, <3>1
            <4> QED
                BY <4>1
        <3>2. CASE i \in 1..(Len(stack) - 1)
            <4>1. /\ stack'[i] = stack[i] /\ methods' = methods
                  /\ i \in 1..Len(stack)
                BY <1>1, <1>2, <3>2
            <4> QED
                BY <4>1 DEF IInv, FramesSound
        <3> QED
            BY <1>2, <2>1, <3>1, <3>2
    <2> QED
        BY <2>2 DEF FramesSound
<1>6. MethodsInOrder' /\ NothingNewer' /\ MemoCoherent'
    BY <1>1 DEF IInv, MethodsInOrder, NothingNewer, MemoCoherent, Live
<1> QED
    BY <1>3, <1>4, <1>5, <1>6 DEF IInv

\* A step that touches no table and no memo keeps what is said of them.
LEMMA SameContents ==
    ASSUME IInv, UNCHANGED <<methods, memoVars>>
    PROVE  MethodsInOrder' /\ NothingNewer' /\ MemoCoherent'
<1>1. methods' = methods /\ generation' = generation /\ buckets' = buckets
    BY DEF memoVars
<1> QED
    BY <1>1 DEF IInv, MethodsInOrder, NothingNewer, MemoCoherent, Live

\* A visit that reads no bucket opens and closes with nothing but its frame.
LEMMA OpenIInv ==
    ASSUME IInv, NEW frame \in Frame, frame.mode # "kept", Push(frame),
           SoundFrame(frame, methods[frame.space]),
           UNCHANGED <<methods, memoVars>>
    PROVE  IInv'
<1>1. UNCHANGED <<methods, memoised, generation, buckets>>
    BY DEF memoVars
<1>2. \A s \in Spaces, b \in Buckets :
          buckets'[s][b].numReaders =
              IF Reads(frame, s, b) THEN buckets[s][b].numReaders + 1
                                    ELSE buckets[s][b].numReaders
    BY <1>1 DEF Reads
<1>3. /\ stack' \in Seq(Frame) /\ openVisits' \in [Spaces -> Nat]
      /\ ReadersBalanced' /\ FramesSound'
    BY <1>1, <1>2, PushKeepsBalance
<1>4. TypeOK'
    BY <1>1, <1>3 DEF IInv, TypeOK
<1> QED
    BY <1>3, <1>4, SameContents DEF IInv

\* Such a visit closes, by a return or by an exception.
LEMMA CloseIInv ==
    ASSUME IInv, stack # <<>>, Inner.mode # "kept", Pop,
           UNCHANGED <<methods, memoVars>>
    PROVE  IInv'
<1>1. UNCHANGED <<methods, memoised, generation, buckets>>
    BY DEF memoVars
<1>2. \A s \in Spaces, b \in Buckets :
          buckets'[s][b].numReaders =
              IF Reads(Inner, s, b) THEN buckets[s][b].numReaders - 1
                                    ELSE buckets[s][b].numReaders
    BY <1>1 DEF Reads
<1>3. /\ stack' \in Seq(Frame) /\ openVisits' \in [Spaces -> Nat]
      /\ ReadersBalanced' /\ FramesSound'
    BY <1>1, <1>2, PopKeepsBalance
<1>4. TypeOK'
    BY <1>1, <1>3 DEF IInv, TypeOK
<1> QED
    BY <1>3, <1>4, SameContents DEF IInv

\* The BucketReader of a visit of kept matches is destroyed with the visit.
LEMMA ReadEndsIInv ==
    ASSUME IInv, stack # <<>>, Inner.mode = "kept", Pop,
           buckets' = Reading(Inner.space, Inner.text, -1),
           UNCHANGED <<methods, memoised, generation>>
    PROVE  IInv'
<1>1. /\ Inner.space \in Spaces
      /\ Inner.text \in Texts
      /\ buckets[Inner.space][BucketOf[Inner.text]].numReaders - 1 \in Nat
    BY InnerFrame
<1>2. \A r \in Spaces, b \in Buckets : buckets[r][b].numReaders \in Nat
    BY DEF IInv, TypeOK, Bucket
<1>3. buckets[Inner.space][BucketOf[Inner.text]].numReaders + (-1) \in Nat
    BY <1>1, <1>2, BucketOfText
<1>4. -1 \in Int
    OBVIOUS
<1>5. methods' = methods /\ generation' = generation /\ memoised' = memoised
    OBVIOUS
<1>6. /\ buckets' \in [Spaces -> [Buckets -> Bucket]]
      /\ MethodsInOrder' /\ NothingNewer' /\ MemoCoherent'
      /\ \A r \in Spaces, b \in Buckets :
            buckets'[r][b].numReaders =
                IF r = Inner.space /\ b = BucketOf[Inner.text]
                THEN buckets[r][b].numReaders + (-1)
                ELSE buckets[r][b].numReaders
    BY <1>1, <1>3, <1>4, <1>5, ReadBuckets
<1>7. \A s \in Spaces, b \in Buckets :
          buckets'[s][b].numReaders =
              IF Reads(Inner, s, b) THEN buckets[s][b].numReaders - 1
                                    ELSE buckets[s][b].numReaders
    BY <1>2, <1>6 DEF Reads
<1>8. /\ stack' \in Seq(Frame) /\ openVisits' \in [Spaces -> Nat]
      /\ ReadersBalanced' /\ FramesSound'
    BY <1>5, <1>7, PopKeepsBalance
<1>9. TypeOK'
    BY <1>5, <1>6, <1>8 DEF IInv, TypeOK
<1> QED
    BY <1>6, <1>8, <1>9 DEF IInv

\* DispatchMemo::visit begins to read its bucket.
LEMMA VisitKeptIInv ==
    ASSUME IInv, NEW s \in Spaces, NEW t \in Texts, VisitKept(s, t)
    PROVE  IInv'
<1> DEFINE frame == [space |-> s, mode |-> "kept", text |-> t, pos |-> 0,
                     found |-> <<>>, numFound |-> 0, memoisable |-> FALSE,
                     busy |-> FALSE]
<1>1. frame \in Frame
    BY EmptySeq DEF Frame
<1>2. /\ Push(frame)
      /\ buckets' = Reading(s, t, 1)
      /\ methods' = methods /\ generation' = generation /\ memoised' = memoised
    BY DEF VisitKept, Begin
<1>3. SoundFrame(frame, methods[frame.space])
    BY DEF SoundFrame
<1>4. /\ buckets[s][BucketOf[t]].numReaders + 1 \in Nat
      /\ 1 \in Int
    BY BucketOfText DEF IInv, TypeOK, Bucket
<1>5. /\ buckets' \in [Spaces -> [Buckets -> Bucket]]
      /\ MethodsInOrder' /\ NothingNewer' /\ MemoCoherent'
      /\ \A r \in Spaces, b \in Buckets :
            buckets'[r][b].numReaders =
                IF r = s /\ b = BucketOf[t]
                THEN buckets[r][b].numReaders + 1
                ELSE buckets[r][b].numReaders
    BY <1>2, <1>4, ReadBuckets
<1>6. \A r \in Spaces, b \in Buckets :
          buckets'[r][b].numReaders =
              IF Reads(frame, r, b) THEN buckets[r][b].numReaders + 1
                                    ELSE buckets[r][b].numReaders
    BY <1>5 DEF Reads
<1> HIDE DEF frame
<1>7. /\ stack' \in Seq(Frame) /\ openVisits' \in [Spaces -> Nat]
      /\ ReadersBalanced' /\ FramesSound'
    BY <1>1, <1>2, <1>3, <1>6, PushKeepsBalance
<1>8. TypeOK'
    BY <1>2, <1>5, <1>7 DEF IInv, TypeOK
<1> QED
    BY <1>5, <1>7, <1>8 DEF IInv

\* visitMethod and the literal branch of dispatchParsed.
LEMMA VisitOneIInv ==
    ASSUME IInv, NEW s \in Spaces, NEW t \in Texts, VisitOne(s, t)
    PROVE  IInv'
<1>1. PICK p \in 1..Len(methods[s]) :
          methods[s][p] = t /\ Begin(s, "one", t, <<p>>, FALSE)
    BY DEF VisitOne
<1> DEFINE frame == [space |-> s, mode |-> "one", text |-> t, pos |-> 0,
                     found |-> <<p>>, numFound |-> 0, memoisable |-> FALSE,
                     busy |-> FALSE]
<1>2. frame \in Frame
    <2>1. p \in Nat
        BY LenProperties DEF IInv, TypeOK
    <2>2. <<p>> \in Seq(Nat)
        BY <2>1
    <2> QED
        BY <2>2 DEF Frame
<1>3. SoundFrame(frame, methods[frame.space]) /\ frame.mode # "kept"
    <2>1. t \in Literals /\ t \in Range(methods[s])
        BY <1>1, LenProperties DEF VisitOne, Range, IInv, TypeOK
    <2> QED
        BY <2>1 DEF SoundFrame
<1>4. Push(frame) /\ UNCHANGED <<methods, memoVars>>
    BY <1>1 DEF VisitOne, Begin
<1> HIDE DEF frame
<1> QED
    BY <1>2, <1>3, <1>4, OpenIInv

\* The visit without a pattern.
LEMMA VisitAllIInv ==
    ASSUME IInv, NEW s \in Spaces, VisitAll(s)
    PROVE  IInv'
<1> DEFINE frame == [space |-> s, mode |-> "all", text |-> NoText, pos |-> 0,
                     found |-> <<>>, numFound |-> 0, memoisable |-> FALSE,
                     busy |-> FALSE]
<1>1. frame \in Frame
    BY EmptySeq DEF Frame
<1>2. SoundFrame(frame, methods[frame.space]) /\ frame.mode # "kept"
    BY DEF SoundFrame
<1>3. Push(frame) /\ UNCHANGED <<methods, memoVars>>
    BY DEF VisitAll, Begin
<1> HIDE DEF frame
<1> QED
    BY <1>1, <1>2, <1>3, OpenIInv

\* dispatchParsed begins its loop with nothing noted.
LEMMA VisitScanIInv ==
    ASSUME IInv, NEW s \in Spaces, NEW t \in Texts, VisitScan(s, t)
    PROVE  IInv'
<1> DEFINE frame == [space |-> s, mode |-> "scan", text |-> t, pos |-> 0,
                     found |-> <<>>, numFound |-> 0,
                     memoisable |-> Memoisable(s, t), busy |-> FALSE]
<1>1. Memoisable(s, t) \in BOOLEAN
    BY DEF Memoisable, Accepts, IInv, TypeOK
<1>2. frame \in Frame
    BY <1>1, EmptySeq DEF Frame
<1>3. t \in Wildcards
    BY DEF VisitScan
<1>4. Memoisable(s, t) => Len(methods[s]) <= MaxMethods
    BY DEF Memoisable
<1>5. Len(methods[s]) \in Nat
    BY LenProperties DEF IInv, TypeOK
<1>6. IsMatchList(methods[s], t, <<>>, 0)
    BY EmptySeq DEF IsMatchList
<1>7. SoundFrame(frame, methods[frame.space]) /\ frame.mode # "kept"
    BY <1>3, <1>4, <1>5, <1>6, EmptySeq DEF SoundFrame
<1>8. Push(frame) /\ UNCHANGED <<methods, memoVars>>
    BY DEF VisitScan, Begin
<1> HIDE DEF frame
<1> QED
    BY <1>2, <1>7, <1>8, OpenIInv

\* dispatchParsed finds nothing under a literal.
LEMMA VisitNoneIInv ==
    ASSUME IInv, NEW s \in Spaces, NEW t \in Texts, VisitNone(s, t)
    PROVE  IInv'
<1> DEFINE frame == [space |-> s, mode |-> "none", text |-> t, pos |-> 0,
                     found |-> <<>>, numFound |-> 0, memoisable |-> FALSE,
                     busy |-> FALSE]
<1>1. frame \in Frame
    BY EmptySeq DEF Frame
<1>2. SoundFrame(frame, methods[frame.space]) /\ frame.mode # "kept"
    BY DEF SoundFrame, VisitNone, Registered
<1>3. Push(frame) /\ UNCHANGED <<methods, memoVars>>
    BY DEF VisitNone, Begin
<1> HIDE DEF frame
<1> QED
    BY <1>1, <1>2, <1>3, OpenIInv

\* A visitor that returns hands its frame back as it was.
LEMMA VisitorReturnsIInv ==
    ASSUME IInv, VisitorReturns
    PROVE  IInv'
<1> DEFINE frame == [Inner EXCEPT !.busy = FALSE]
<1>1. stack # <<>> /\ UNCHANGED <<methods, memoVars, openVisits>>
    BY DEF VisitorReturns
<1>2. Inner \in Frame
    BY <1>1, InnerFrame
<1>3. /\ frame \in Frame
      /\ frame.space = Inner.space /\ frame.mode = Inner.mode
      /\ frame.text = Inner.text /\ frame.pos = Inner.pos
      /\ frame.found = Inner.found /\ frame.numFound = Inner.numFound
      /\ frame.memoisable = Inner.memoisable
    BY <1>2 DEF Frame
<1>4. stack' = [stack EXCEPT ![Len(stack)] = frame]
    BY DEF VisitorReturns, Inner
<1> HIDE DEF frame
<1>5. SoundFrame(frame, methods[Inner.space])
    BY <1>1, <1>3, InnerFrame DEF SoundFrame
<1> QED
    BY <1>1, <1>3, <1>4, <1>5, ReplaceIInv

\* Every visit that stores nothing returns.
LEMMA ReturnOthersIInv ==
    ASSUME IInv, ReturnKept \/ ReturnOne \/ ReturnAll
    PROVE  IInv'
<1>1. CASE ReturnKept
    BY <1>1, ReadEndsIInv DEF ReturnKept, Walking
<1>2. CASE ReturnOne
    BY <1>2, CloseIInv DEF ReturnOne, Walking
<1>3. CASE ReturnAll
    BY <1>3, CloseIInv DEF ReturnAll, Walking
<1> QED
    BY <1>1, <1>2, <1>3

\* An exception closes a visit of any kind, and stores nothing.
LEMMA ThrowIInv ==
    ASSUME IInv, Throw
    PROVE  IInv'
<1>1. CASE Inner.mode = "kept"
    BY <1>1, ReadEndsIInv DEF Throw
<1>2. CASE Inner.mode # "kept"
    <2>1. UNCHANGED <<methods, memoVars>>
        BY <1>2 DEF Throw, memoVars
    <2> QED
        BY <1>2, <2>1, CloseIInv DEF Throw
<1> QED
    BY <1>1, <1>2

\* A visit that does not scan only moves to its next method.
LEMMA CallIInv ==
    ASSUME IInv, stack # <<>>, Inner.mode # "scan", NEW pos \in Nat,
           Call([Inner EXCEPT !.pos = pos])
    PROVE  IInv'
<1> DEFINE frame == [[Inner EXCEPT !.pos = pos] EXCEPT !.busy = TRUE]
<1>1. Inner \in Frame
    BY InnerFrame
<1>2. /\ frame \in Frame
      /\ frame.space = Inner.space /\ frame.mode = Inner.mode
      /\ frame.text = Inner.text
    BY <1>1 DEF Frame
<1>3. /\ stack' = [stack EXCEPT ![Len(stack)] = frame]
      /\ UNCHANGED <<methods, memoVars, openVisits>>
    BY DEF Call
<1> HIDE DEF frame
<1>4. SoundFrame(frame, methods[Inner.space])
    BY <1>2, InnerFrame DEF SoundFrame
<1> QED
    BY <1>2, <1>3, <1>4, ReplaceIInv

\* A delivery of a visit that does not scan.
LEMMA DeliverOthersIInv ==
    ASSUME IInv, DeliverKept \/ DeliverOne \/ DeliverAll
    PROVE  IInv'
<1>1. stack # <<>> /\ Inner.mode # "scan"
    BY DEF DeliverKept, DeliverOne, DeliverAll, Walking
<1>2. Inner.pos \in Nat
    BY <1>1, InnerFrame DEF Frame
<1>3. CASE DeliverKept
    <2>1. Call([Inner EXCEPT !.pos = Inner.pos + 1])
        BY <1>3 DEF DeliverKept
    <2>2. Inner.pos + 1 \in Nat
        BY <1>2
    <2> QED
        BY <1>1, <2>1, <2>2, CallIInv
<1>4. CASE DeliverOne
    BY <1>1, <1>4, CallIInv DEF DeliverOne
<1>5. CASE DeliverAll
    <2>1. Call([Inner EXCEPT !.pos = Inner.pos + 1])
        BY <1>5 DEF DeliverAll
    <2>2. Inner.pos + 1 \in Nat
        BY <1>2
    <2> QED
        BY <1>1, <2>1, <2>2, CallIInv
<1> QED
    BY <1>3, <1>4, <1>5

\* The next match extends the list of the matches so far.
LEMMA ExtendedMatchList ==
    ASSUME NEW list, NEW t, NEW positions \in Seq(Nat), NEW pos \in Nat,
           NEW i \in Nat, i > pos, IsMatchList(list, t, positions, pos),
           list[i] \in Matching(t),
           \A j \in (pos + 1)..(i - 1) : list[j] \notin Matching(t)
    PROVE  IsMatchList(list, t, Append(positions, i), i)
<1> DEFINE n == Len(positions)
           extended == Append(positions, i)
<1>1. /\ n \in Nat
      /\ Len(extended) = n + 1
      /\ \A k \in 1..n : extended[k] = positions[k]
      /\ extended[n + 1] = i
    BY LenProperties, AppendProperties
<1>2. \A k \in 1..(n + 1) : k \in 1..n \/ k = n + 1
    BY <1>1
<1>3. \A k \in 1..n : positions[k] \in 1..pos /\ positions[k] \in Nat
    BY ElementOfSeq DEF IsMatchList
<1> HIDE DEF extended, n
<1>4. ASSUME NEW k \in 1..(n + 1), NEW l \in 1..(n + 1), k < l
      PROVE  extended[k] < extended[l]
    <2>1. k \in 1..n
        BY <1>1, <1>4
    <2>2. CASE l = n + 1
        BY <1>1, <1>3, <2>1, <2>2
    <2>3. CASE l \in 1..n
        BY <1>1, <1>4, <2>1, <2>3 DEF IsMatchList, n
    <2> QED
        BY <1>2, <2>2, <2>3
<1>5. ASSUME NEW k \in 1..(n + 1)
      PROVE  extended[k] \in 1..i
    BY <1>1, <1>2, <1>3
<1>6. ASSUME NEW j \in 1..i
      PROVE  list[j] \in Matching(t) <=> \E k \in 1..(n + 1) : extended[k] = j
    <2>1. CASE j = i
        BY <1>1, <2>1
    <2>2. CASE j \in 1..pos
        <3>1. list[j] \in Matching(t) <=> \E k \in 1..n : positions[k] = j
            BY <2>2 DEF IsMatchList, n
        <3>2. (\E k \in 1..n : positions[k] = j)
                  <=> \E k \in 1..(n + 1) : extended[k] = j
            BY <1>1, <1>2, <2>2, SMTT(20)
        <3> QED
            BY <3>1, <3>2
    <2>3. CASE j \in (pos + 1)..(i - 1)
        <3>1. list[j] \notin Matching(t)
            BY <2>3
        <3>2. \A k \in 1..(n + 1) : extended[k] # j
            BY <1>1, <1>2, <1>3, <2>3
        <3> QED
            BY <3>1, <3>2
    <2> QED
        BY <2>1, <2>2, <2>3
<1> QED
    BY <1>1, <1>4, <1>5, <1>6 DEF IsMatchList, extended

\* A list of the matches so far is complete once no match is left.
LEMMA CompletedMatchList ==
    ASSUME NEW list, NEW t, NEW positions \in Seq(Nat), NEW n \in Nat,
           NEW pos \in 0..n, IsMatchList(list, t, positions, pos),
           \A j \in (pos + 1)..n : list[j] \notin Matching(t)
    PROVE  IsMatchList(list, t, positions, n)
<1>1. \A k \in 1..Len(positions) : positions[k] \in 1..pos
    BY DEF IsMatchList
<1>2. ASSUME NEW j \in 1..n
      PROVE  list[j] \in Matching(t) <=>
                 \E k \in 1..Len(positions) : positions[k] = j
    <2>1. CASE j \in 1..pos
        BY <2>1 DEF IsMatchList
    <2>2. CASE j \in (pos + 1)..n
        BY <1>1, <2>2
    <2> QED
        BY <2>1, <2>2
<1>3. \A k \in 1..Len(positions) : positions[k] \in 1..n
    BY <1>1
<1> QED
    BY <1>2, <1>3 DEF IsMatchList

\* The 32-bit index is the index while the table has at most kMaxMethods.
LEMMA NarrowFits ==
    ASSUME NEW i \in Nat \ {0}
    PROVE  Narrow(i) \in Nat /\ (i <= MaxMethods => Narrow(i) = i)
BY ConstantsAssumption DEF Narrow

\* The loop of dispatchParsed notes a match and calls the visitor.
LEMMA DeliverScanIInv ==
    ASSUME IInv, DeliverScan
    PROVE  IInv'
<1> DEFINE s == Inner.space
           list == methods[s]
<1>1. stack # <<>> /\ Inner.mode = "scan"
    BY DEF DeliverScan, Walking
<1>2. /\ Inner \in Frame /\ s \in Spaces
      /\ SoundFrame(Inner, list)
      /\ list \in Seq(Address)
      /\ Len(list) \in Nat
    BY <1>1, InnerFrame, LenProperties DEF IInv, TypeOK
<1>3. PICK i \in (Inner.pos + 1)..Len(list) :
          /\ Matches(Inner, i)
          /\ \A j \in (Inner.pos + 1)..(i - 1) : ~Matches(Inner, j)
          /\ Call([Inner EXCEPT
                !.pos = i,
                !.found = IF Inner.numFound < InlineResults
                          THEN Append(@, Narrow(i)) ELSE @,
                !.numFound = @ + 1])
    BY DEF DeliverScan
<1> DEFINE found == IF Inner.numFound < InlineResults
                    THEN Append(Inner.found, Narrow(i)) ELSE Inner.found
           frame == [[Inner EXCEPT !.pos = i, !.found = found,
                                   !.numFound = Inner.numFound + 1]
                        EXCEPT !.busy = TRUE]
<1>4. /\ Inner.pos \in Nat /\ Inner.numFound \in Nat
      /\ Inner.found \in Seq(Nat)
      /\ Inner.text \in Wildcards
      /\ i \in Nat /\ i > Inner.pos /\ i <= Len(list)
    BY <1>1, <1>2 DEF Frame, SoundFrame
<1>5. Narrow(i) \in Nat /\ (Len(list) <= MaxMethods => Narrow(i) = i)
    <2>1. i \in Nat \ {0}
        BY <1>4
    <2>2. Len(list) <= MaxMethods => i <= MaxMethods
        BY <1>2, <1>4, ConstantsAssumption
    <2> QED
        BY <2>1, <2>2, NarrowFits
<1>6. found \in Seq(Nat)
    BY <1>4, <1>5, AppendProperties
<1> HIDE DEF found, list
<1>7. /\ frame \in Frame
      /\ frame.space = s /\ frame.mode = "scan" /\ frame.text = Inner.text
      /\ frame.pos = i /\ frame.found = found
      /\ frame.numFound = Inner.numFound + 1
      /\ frame.memoisable = Inner.memoisable
    <2>1. i \in Nat /\ Inner.numFound + 1 \in Nat
        BY <1>4
    <2>2. frame = [Inner EXCEPT !.pos = i, !.found = found,
                       !.numFound = Inner.numFound + 1, !.busy = TRUE]
        OBVIOUS
    <2> HIDE DEF frame
    <2> QED
        BY <1>1, <1>2, <1>6, <2>1, <2>2 DEF Frame
<1>8. /\ stack' = [stack EXCEPT ![Len(stack)] = frame]
      /\ UNCHANGED <<methods, memoVars, openVisits>>
    BY <1>3 DEF Call, found
<1>9. ASSUME frame.memoisable, frame.numFound <= InlineResults
      PROVE  Len(found) = frame.numFound /\ IsMatchList(list, frame.text, found, i)
    <2>1. /\ Inner.memoisable
          /\ Inner.numFound < InlineResults
          /\ InlineResults \in Nat
        BY <1>4, <1>7, <1>9, ConstantsAssumption
    <2>2. /\ Len(Inner.found) = Inner.numFound
          /\ IsMatchList(list, Inner.text, Inner.found, Inner.pos)
          /\ Len(list) <= MaxMethods
        BY <1>1, <1>2, <1>4, <2>1 DEF SoundFrame
    <2>3. found = Append(Inner.found, i)
        BY <1>5, <2>1, <2>2 DEF found
    <2>4. /\ list[i] \in Matching(Inner.text)
          /\ \A j \in (Inner.pos + 1)..(i - 1) : list[j] \notin Matching(Inner.text)
        BY <1>3, <1>4 DEF Matches, Matching, list
    <2>5. IsMatchList(list, Inner.text, found, i)
        BY <1>4, <2>2, <2>3, <2>4, ExtendedMatchList
    <2>6. Len(found) = Inner.numFound + 1
        BY <1>4, <2>2, <2>3, AppendProperties
    <2> QED
        BY <1>7, <2>5, <2>6
<1> HIDE DEF frame
<1>10. SoundFrame(frame, list)
    <2>1. frame.pos \in 0..Len(list)
        BY <1>2, <1>4, <1>7
    <2>2. frame.memoisable => Len(list) <= MaxMethods
        BY <1>1, <1>2, <1>7 DEF SoundFrame
    <2> QED
        BY <1>4, <1>7, <1>9, <2>1, <2>2 DEF SoundFrame
<1> QED
    BY <1>1, <1>7, <1>8, <1>10, ReplaceIInv DEF list

\* A visit that reads no bucket returns, and its list of matches is kept.
LEMMA StoreIInv ==
    ASSUME IInv, stack # <<>>, Inner.mode # "kept", Pop,
           Inner.text \in Texts \ Malformed, NEW results \in Seq(Nat),
           IsMatchList(methods[Inner.space], Inner.text, results,
                       Len(methods[Inner.space])),
           buckets' = Remember(Inner.space, Inner.text, results),
           UNCHANGED <<methods, memoised, generation>>
    PROVE  IInv'
<1>1. methods' = methods /\ generation' = generation /\ memoised' = memoised
    OBVIOUS
<1>2. Inner.space \in Spaces
    BY InnerFrame
<1>3. /\ buckets' \in [Spaces -> [Buckets -> Bucket]]
      /\ MethodsInOrder' /\ NothingNewer' /\ MemoCoherent'
      /\ \A r \in Spaces, b \in Buckets :
            buckets'[r][b].numReaders = buckets[r][b].numReaders
    BY <1>1, <1>2, RememberedBuckets
<1>4. \A r \in Spaces, b \in Buckets :
          buckets'[r][b].numReaders =
              IF Reads(Inner, r, b) THEN buckets[r][b].numReaders - 1
                                    ELSE buckets[r][b].numReaders
    BY <1>3 DEF Reads
<1>5. /\ stack' \in Seq(Frame) /\ openVisits' \in [Spaces -> Nat]
      /\ ReadersBalanced' /\ FramesSound'
    BY <1>1, <1>4, PopKeepsBalance
<1>6. TypeOK'
    BY <1>1, <1>3, <1>5 DEF IInv, TypeOK
<1> QED
    BY <1>3, <1>5, <1>6 DEF IInv

\* rememberNoMatch: an empty list is right for a literal nothing is under.
LEMMA ReturnNoneIInv ==
    ASSUME IInv, ReturnNone
    PROVE  IInv'
<1> DEFINE s == Inner.space
           t == Inner.text
<1>1. /\ stack # <<>> /\ Inner.mode = "none" /\ Pop
      /\ UNCHANGED <<methods, memoised, generation>>
    BY DEF ReturnNone, Walking
<1>2. CASE buckets' = buckets
    <2>1. UNCHANGED <<methods, memoVars>>
        BY <1>1, <1>2 DEF memoVars
    <2> QED
        BY <1>1, <2>1, CloseIInv
<1>3. CASE buckets' = Remember(s, t, <<>>)
    <2>1. /\ s \in Spaces
          /\ t \in Literals /\ t \notin Range(methods[s])
        BY <1>1, InnerFrame DEF SoundFrame
    <2>2. t \in Texts \ Malformed /\ t \notin Wildcards
        BY <2>1, ConstantsAssumption DEF Literals, Texts
    <2>3. methods[s] \in Seq(Address)
        BY <2>1 DEF IInv, TypeOK
    <2> HIDE DEF s, t
    <2>4. \A i \in 1..Len(methods[s]) : methods[s][i] # t
        BY <2>1, <2>3, LenProperties DEF Range
    <2>5. IsMatchList(methods[s], t, <<>>, Len(methods[s]))
        BY <2>2, <2>4, EmptySeq DEF IsMatchList, Matching
    <2>6. <<>> \in Seq(Nat)
        BY EmptySeq
    <2> QED
        BY <1>1, <1>3, <2>2, <2>5, <2>6, StoreIInv DEF s, t
<1> QED
    BY <1>2, <1>3 DEF ReturnNone

\* The scan is over, and its matches are kept if they may be.
LEMMA ReturnScanIInv ==
    ASSUME IInv, ReturnScan
    PROVE  IInv'
<1> DEFINE s == Inner.space
<1>1. /\ stack # <<>> /\ Inner.mode = "scan" /\ Pop
      /\ UNCHANGED <<methods, memoised, generation>>
    BY DEF ReturnScan, Walking
<1>2. /\ Inner \in Frame /\ s \in Spaces
      /\ SoundFrame(Inner, methods[s])
      /\ Len(methods[s]) \in Nat
    BY <1>1, InnerFrame, LenProperties DEF IInv, TypeOK
<1>3. CASE ~(Inner.memoisable /\ Inner.numFound <= InlineResults)
    <2>1. UNCHANGED <<methods, memoVars>>
        BY <1>1, <1>3 DEF ReturnScan, memoVars
    <2> QED
        BY <1>1, <2>1, CloseIInv
<1>4. CASE Inner.memoisable /\ Inner.numFound <= InlineResults
    <2>1. buckets' = Remember(s, Inner.text, Inner.found)
        BY <1>4 DEF ReturnScan
    <2>2. /\ Inner.text \in Wildcards
          /\ Inner.text \in Texts \ Malformed
          /\ Inner.found \in Seq(Nat)
          /\ Inner.pos \in 0..Len(methods[s])
        BY <1>1, <1>2, ConstantsAssumption DEF SoundFrame, Frame, Texts
    <2>3. IsMatchList(methods[s], Inner.text, Inner.found, Inner.pos)
        BY <1>1, <1>2, <1>4 DEF SoundFrame
    <2>4. \A j \in (Inner.pos + 1)..Len(methods[s]) :
              methods[s][j] \notin Matching(Inner.text)
        BY <2>2 DEF ReturnScan, Matches, Matching
    <2>5. IsMatchList(methods[s], Inner.text, Inner.found, Len(methods[s]))
        BY <1>2, <2>2, <2>3, <2>4, CompletedMatchList
    <2> QED
        BY <1>1, <2>1, <2>2, <2>5, StoreIInv
<1> QED
    BY <1>3, <1>4

(***************************************************************************)
(* The theorems.                                                           *)
(***************************************************************************)

\* Every step of the program preserves the invariant.
LEMMA NextIInv ==
    ASSUME IInv, [Next]_vars
    PROVE  IInv'
<1>1. CASE UNCHANGED vars
    <2>1. UNCHANGED <<methods, memoised, generation, buckets, openVisits, stack>>
        BY <1>1 DEF vars, memoVars
    <2> QED
        BY <2>1 DEF IInv, TypeOK, MethodsInOrder, ReadersBalanced, MemoCoherent,
                    NothingNewer, FramesSound, Live
<1>2. ASSUME NEW s \in Spaces, NEW a \in Address, Add(s, a) \/ Remove(s, a)
      PROVE  IInv'
    BY <1>2, AddIInv, RemoveIInv
<1>3. ASSUME NEW s \in Spaces, NEW t \in Texts,
             \/ VisitKept(s, t) \/ VisitOne(s, t)
             \/ VisitNone(s, t) \/ VisitScan(s, t)
      PROVE  IInv'
    BY <1>3, VisitKeptIInv, VisitOneIInv, VisitNoneIInv, VisitScanIInv
<1>4. ASSUME NEW s \in Spaces, VisitAll(s) \/ Construct(s)
      PROVE  IInv'
    BY <1>4, VisitAllIInv, ConstructIInv
<1>5. ASSUME NEW dst \in Spaces, NEW src \in Spaces,
             Copy(dst, src) \/ Move(dst, src)
      PROVE  IInv'
    BY <1>5, CopyIInv, MoveIInv
<1>6. ASSUME Deliver
      PROVE  IInv'
    BY <1>6, DeliverOthersIInv, DeliverScanIInv DEF Deliver
<1>7. ASSUME Return
      PROVE  IInv'
    BY <1>7, ReturnOthersIInv, ReturnNoneIInv, ReturnScanIInv DEF Return
<1> QED
    BY <1>1, <1>2, <1>3, <1>4, <1>5, <1>6, <1>7, VisitorReturnsIInv, ThrowIInv
        DEF Next

\* Every reachable state of every instance satisfies the inductive invariant.
THEOREM Invariance == Spec => []IInv
<1>1. IInv /\ [Next]_vars => IInv'
    BY NextIInv
<1> QED
    BY <1>1, InitIInv, PTL DEF Spec

\* Every variable keeps its type: no count of readers or visits goes negative,
\* in m_openVisits or in any bucket, on any path out of a visit.
THEOREM TypeCorrect == Spec => []TypeOK
<1>1. IInv => TypeOK
    BY DEF IInv
<1> QED
    BY <1>1, Invariance, PTL

\* The binary search of lowerBound always has a sorted table to work on.
THEOREM StaysInOrder == Spec => []MethodsInOrder
<1>1. IInv => MethodsInOrder
    BY DEF IInv
<1> QED
    BY <1>1, Invariance, PTL

\* A kept result that would be delivered is the result a scan would find now,
\* through add, remove, copy, move, nested visits and exceptions.
THEOREM MemoStaysCoherent == Spec => []MemoCoherent
<1>1. IInv => MemoCoherent
    BY DEF IInv
<1> QED
    BY <1>1, Invariance, PTL

\* Reader and visit counts are those of the visits on the stack: an idle space
\* is never left refusing add and remove, nor a bucket refusing to be stored in.
THEOREM ReadersStayBalanced == Spec => []ReadersBalanced
<1>1. IInv => ReadersBalanced
    BY DEF IInv
<1> QED
    BY <1>1, Invariance, PTL
(***************************************************************************)
(* What no step does to a bucket that is being read.                       *)
(***************************************************************************)

\* The contents of the bucket stay as they are through the step.
ContentsStay(s, b) ==
    buckets'[s][b] = [buckets[s][b] EXCEPT !.numReaders = buckets'[s][b].numReaders]

LEMMA SameFields ==
    ASSUME NEW old \in Bucket, NEW new \in Bucket,
           new.generation = old.generation, new.text = old.text,
           new.results = old.results
    PROVE  new = [old EXCEPT !.numReaders = new.numReaders]
BY DEF Bucket

LEMMA UnchangedStays ==
    ASSUME IInv, UNCHANGED buckets, NEW s \in Spaces, NEW b \in Buckets
    PROVE  ContentsStay(s, b)
<1>1. buckets[s][b] \in Bucket /\ buckets'[s][b] = buckets[s][b]
    BY DEF IInv, TypeOK
<1> QED
    BY <1>1, SameFields DEF ContentsStay

LEMMA ReadingStays ==
    ASSUME IInv, IInv', NEW r \in Spaces, NEW t \in Texts, NEW change \in Int,
           buckets[r][BucketOf[t]].numReaders + change \in Nat,
           buckets' = Reading(r, t, change),
           methods' = methods, generation' = generation,
           NEW s \in Spaces, NEW b \in Buckets
    PROVE  ContentsStay(s, b)
<1>1. buckets[s][b] \in Bucket /\ buckets'[s][b] \in Bucket
    BY DEF IInv, TypeOK
<1>2. /\ buckets'[s][b].generation = buckets[s][b].generation
      /\ buckets'[s][b].text = buckets[s][b].text
      /\ buckets'[s][b].results = buckets[s][b].results
    BY ReadBuckets
<1> QED
    BY <1>1, <1>2, SameFields DEF ContentsStay

LEMMA RememberStays ==
    ASSUME IInv, NEW r \in Spaces, NEW t \in Texts, NEW results,
           buckets' = Remember(r, t, results),
           NEW s \in Spaces, NEW b \in Buckets, buckets[s][b].numReaders # 0
    PROVE  ContentsStay(s, b)
<1> DEFINE c == BucketOf[t]
<1>1. CASE buckets[r][c].numReaders # 0
    BY <1>1, UnchangedStays DEF Remember, BucketFor
<1>2. CASE buckets[r][c].numReaders = 0
    <2>1. ~(s = r /\ b = c)
        BY <1>2
    <2>2. buckets \in [Spaces -> [Buckets -> Bucket]]
        BY DEF IInv, TypeOK
    <2> DEFINE stored == [buckets[r][c] EXCEPT !.generation = generation[r],
                                               !.text = t, !.results = results]
    <2>3. buckets' = [buckets EXCEPT ![r][c] = stored]
        BY <1>2 DEF Remember, BucketFor
    <2> HIDE DEF stored
    <2>4. buckets'[s][b] = buckets[s][b] /\ buckets[s][b] \in Bucket
        BY <2>1, <2>2, <2>3
    <2> QED
        BY <2>4, SameFields DEF ContentsStay
<1> QED
    BY <1>1, <1>2

\* A space that is copied to, moved or constructed anew has no readers.
LEMMA ReplacedSpaceStays ==
    ASSUME IInv,
           \A r \in Spaces : Unvisited(r) \/ buckets'[r] = buckets[r],
           NEW s \in Spaces, NEW b \in Buckets, buckets[s][b].numReaders # 0
    PROVE  ContentsStay(s, b)
<1>1. ~Unvisited(s)
    BY UnvisitedSpace
<1>2. buckets[s][b] \in Bucket /\ buckets'[s][b] = buckets[s][b]
    BY <1>1 DEF IInv, TypeOK
<1> QED
    BY <1>2, SameFields DEF ContentsStay

LEMMA StepKeepsReadBuckets ==
    ASSUME IInv, IInv', Next, NEW s \in Spaces, NEW b \in Buckets,
           buckets[s][b].numReaders # 0
    PROVE  ContentsStay(s, b)
<1>1. CASE UNCHANGED buckets
    BY <1>1, UnchangedStays
<1>2. ASSUME NEW r \in Spaces, NEW t \in Texts, VisitKept(r, t)
      PROVE  ContentsStay(s, b)
    <2>1. buckets' = Reading(r, t, 1) /\ methods' = methods /\ generation' = generation
        BY <1>2 DEF VisitKept
    <2>2. buckets[r][BucketOf[t]].numReaders + 1 \in Nat
        <3>1. buckets[r][BucketOf[t]] \in Bucket
            BY BucketOfText DEF IInv, TypeOK
        <3> QED
            BY <3>1 DEF Bucket
    <2> QED
        BY <2>1, <2>2, ReadingStays
<1>3. CASE ReturnNone /\ ~UNCHANGED buckets
    <2>1. /\ stack # <<>> /\ Inner.mode = "none"
          /\ buckets' = Remember(Inner.space, Inner.text, <<>>)
        BY <1>3 DEF ReturnNone, Walking
    <2>2. Inner.space \in Spaces /\ Inner.text \in Texts
        BY <2>1, InnerFrame DEF SoundFrame, Texts
    <2> QED
        BY <2>1, <2>2, RememberStays
<1>4. CASE ReturnKept \/ (Throw /\ Inner.mode = "kept")
    <2>1. /\ stack # <<>> /\ Inner.mode = "kept"
          /\ buckets' = Reading(Inner.space, Inner.text, -1)
          /\ methods' = methods /\ generation' = generation
        BY <1>4 DEF ReturnKept, Throw, Walking
    <2>2. /\ Inner.space \in Spaces /\ Inner.text \in Texts
          /\ buckets[Inner.space][BucketOf[Inner.text]].numReaders - 1 \in Nat
        BY <2>1, InnerFrame
    <2>3. buckets[Inner.space][BucketOf[Inner.text]].numReaders \in Nat
        BY <2>2, BucketOfText DEF IInv, TypeOK, Bucket
    <2>4. buckets[Inner.space][BucketOf[Inner.text]].numReaders + (-1) \in Nat
        BY <2>2, <2>3
    <2> QED
        BY <2>1, <2>2, <2>4, ReadingStays
<1>5. CASE ReturnScan /\ ~UNCHANGED buckets
    <2>1. /\ stack # <<>> /\ Inner.mode = "scan"
          /\ buckets' = Remember(Inner.space, Inner.text, Inner.found)
        BY <1>5 DEF ReturnScan, Walking
    <2>2. Inner.space \in Spaces /\ Inner.text \in Texts
        BY <2>1, InnerFrame DEF SoundFrame, Texts
    <2> QED
        BY <2>1, <2>2, RememberStays
<1>6. ASSUME NEW dst \in Spaces, NEW src \in Spaces,
             Copy(dst, src) \/ Move(dst, src) \/ Construct(dst)
      PROVE  ContentsStay(s, b)
    <2>1. buckets \in [Spaces -> [Buckets -> Bucket]]
        BY DEF IInv, TypeOK
    <2>2. \A r \in Spaces : Unvisited(r) \/ buckets'[r] = buckets[r]
        BY <1>6, <2>1 DEF Copy, Move, Construct
    <2> QED
        BY <2>2, ReplacedSpaceStays
<1>7. \/ UNCHANGED buckets
      \/ \E r \in Spaces, t \in Texts : VisitKept(r, t)
      \/ ReturnKept \/ ReturnNone \/ ReturnScan \/ (Throw /\ Inner.mode = "kept")
      \/ \E dst, src \in Spaces :
            Copy(dst, src) \/ Move(dst, src) \/ Construct(dst)
    BY DEF Next, Add, Remove, VisitOne, VisitNone, VisitScan, VisitAll, Deliver,
           DeliverKept,
           DeliverOne, DeliverScan, DeliverAll, Call, VisitorReturns, Return,
           ReturnOne, ReturnAll, Throw, memoVars
<1> QED
    BY <1>1, <1>2, <1>3, <1>4, <1>5, <1>6, <1>7

\* A visit that reads a bucket finds it as it was, whatever its visitor visits.
THEOREM ReadBucketsAreKept == Spec => ReadBucketsStay
<1> DEFINE Stays ==
        \A s \in Spaces, b \in Buckets :
            buckets[s][b].numReaders # 0 /\ buckets'[s][b].numReaders # 0 =>
                buckets'[s][b] = [buckets[s][b] EXCEPT
                    !.numReaders = buckets'[s][b].numReaders]
<1>1. IInv /\ IInv' /\ [Next]_vars => [Stays]_vars
    BY StepKeepsReadBuckets DEF ContentsStay
<1>2. Spec => [][Stays]_vars
    BY <1>1, Invariance, PTL DEF Spec
<1> QED
    BY <1>2 DEF ReadBucketsStay

-----------------------------------------------------------------------------
(***************************************************************************)
(* AddressSpace implements AddressSpaceSpec, for every value of the        *)
(* constants: a table with its memo delivers what a plain set of addresses *)
(* would, through nested visits, exceptions, copies and moves.             *)
(***************************************************************************)
(***************************************************************************)
(* What a frame is to its caller, before and after a step.                 *)
(***************************************************************************)

\* Pending, over the list and the results a frame walks.
PendingOf(f, list, results) ==
    LET Rest(positions) == {list[i] : i \in positions} IN
    CASE f.mode = "kept" -> Rest({results[k] : k \in (f.pos + 1)..Len(results)})
      [] f.mode = "one"  -> Rest({f.found[k] : k \in (f.pos + 1)..1})
      [] f.mode = "none" -> {}
      [] f.mode = "scan" -> Selects[f.text] \cap Rest((f.pos + 1)..Len(list))
      [] f.mode = "all"  -> Rest((f.pos + 1)..Len(list))

\* The abstract call a frame is.
CallOf(f, list, results) ==
    [space |-> f.space, text |-> f.text,
     pending |-> PendingOf(f, list, results), busy |-> f.busy]

\* The call in the state before a step, and in the state after it.
CallNow(f) ==
    CallOf(f, methods[f.space], buckets[f.space][BucketOf[f.text]].results)

CallNext(f) ==
    CallOf(f, methods'[f.space], buckets'[f.space][BucketOf[f.text]].results)

\* The calls are those of the frames, before and after a step.
LEMMA CallsOfFrames ==
    /\ calls = [i \in 1..Len(stack) |-> CallNow(stack[i])]
    /\ calls' = [i \in 1..Len(stack') |-> CallNext(stack'[i])]
BY DEF calls, CallNow, CallNext, CallOf, PendingOf, Pending, BucketFor

\* A function on 1..n is a sequence of length n.
LEMMA FunctionIsSeq ==
    ASSUME NEW S, NEW n \in Nat, NEW f \in [1..n -> S]
    PROVE  f \in Seq(S) /\ Len(f) = n
<1>1. f \in Seq(S)
    BY SeqDef
<1> QED
    BY <1>1, LenProperties

\* A frame on the stack finds what it walks unchanged.
FrameStays(f) ==
    /\ methods'[f.space] = methods[f.space]
    /\ generation'[f.space] = generation[f.space]
    /\ f.mode = "kept" =>
          LET old == buckets[f.space][BucketOf[f.text]]
              new == buckets'[f.space][BucketOf[f.text]]
          IN  /\ new.generation = old.generation
              /\ new.text = old.text
              /\ new.results = old.results

\* A frame that finds what it walks unchanged is the same call.
LEMMA SameCall ==
    ASSUME NEW f \in Frame, FrameStays(f)
    PROVE  CallNext(f) = CallNow(f)
<1>1. f.mode \in {"kept", "one", "none", "scan", "all"}
    BY DEF Frame
<1> QED
    BY <1>1, ZenonT(60) DEF FrameStays, CallNext, CallNow, CallOf, PendingOf

\* What each kind of visit has still to deliver.
LEMMA PendingByMode ==
    ASSUME NEW f, NEW list, NEW results
    PROVE  /\ f.mode = "kept" =>
                 PendingOf(f, list, results)
                     = {list[results[k]] : k \in (f.pos + 1)..Len(results)}
           /\ f.mode = "one" =>
                 PendingOf(f, list, results)
                     = {list[f.found[k]] : k \in (f.pos + 1)..1}
           /\ f.mode = "none" => PendingOf(f, list, results) = {}
           /\ f.mode = "scan" =>
                 PendingOf(f, list, results)
                     = Selects[f.text] \cap {list[i] : i \in (f.pos + 1)..Len(list)}
           /\ f.mode = "all" =>
                 PendingOf(f, list, results)
                     = {list[i] : i \in (f.pos + 1)..Len(list)}
<1>1. CASE f.mode = "kept"
    BY <1>1 DEF PendingOf
<1>2. CASE f.mode = "one"
    BY <1>2 DEF PendingOf
<1>3. CASE f.mode = "none"
    BY <1>3 DEF PendingOf
<1>4. CASE f.mode = "scan"
    BY <1>4 DEF PendingOf
<1>5. CASE f.mode = "all"
    BY <1>5 DEF PendingOf
<1> QED
    BY <1>1, <1>2, <1>3, <1>4, <1>5

(***************************************************************************)
(* The shapes of the steps: the calls follow the stack.                    *)
(***************************************************************************)

\* The calls as a sequence.
LEMMA CallsAreSeq ==
    ASSUME IInv
    PROVE  /\ Len(stack) \in Nat
           /\ Len(calls) = Len(stack)
           /\ \A i \in 1..Len(stack) : calls[i] = CallNow(stack[i])
           /\ \E S : calls \in Seq(S)
<1>1. Len(stack) \in Nat
    BY LenProperties DEF IInv, TypeOK
<1> DEFINE S == {CallNow(stack[i]) : i \in 1..Len(stack)}
<1>2. calls \in [1..Len(stack) -> S]
    BY CallsOfFrames
<1>3. calls \in Seq(S) /\ Len(calls) = Len(stack)
    BY <1>1, <1>2, FunctionIsSeq
<1> QED
    BY <1>1, <1>3, CallsOfFrames

\* Every open visit finds what it walks unchanged.
AllStay == \A i \in 1..Len(stack) : FrameStays(stack[i])

\* An open visit is the call it was before the step.
LEMMA CallsStay ==
    ASSUME IInv, AllStay
    PROVE  \A i \in 1..Len(stack) : CallNext(stack[i]) = calls[i]
<1> TAKE i \in 1..Len(stack)
<1>1. stack[i] \in Frame
    BY ElementOfSeq DEF IInv, TypeOK
<1> QED
    BY <1>1, SameCall, CallsAreSeq DEF AllStay

\* No visit opens, moves on or closes.
LEMMA SameCalls ==
    ASSUME IInv, AllStay, UNCHANGED stack
    PROVE  UNCHANGED calls
<1>1. calls' = [i \in 1..Len(stack) |-> CallNext(stack[i])]
    BY CallsOfFrames
<1>2. calls = [i \in 1..Len(stack) |-> CallNow(stack[i])]
    BY CallsOfFrames
<1> QED
    BY <1>1, <1>2, CallsStay, CallsAreSeq

\* A visit opens.
LEMMA OpenedCalls ==
    ASSUME IInv, AllStay, NEW frame \in Frame, stack' = Append(stack, frame)
    PROVE  calls' = Append(calls, CallNext(frame))
<1> DEFINE n == Len(stack)
           call == CallNext(frame)
<1>1. /\ n \in Nat
      /\ Len(stack') = n + 1
      /\ stack'[n + 1] = frame
      /\ \A i \in 1..n : stack'[i] = stack[i]
    BY CallsAreSeq, AppendProperties DEF IInv, TypeOK
<1>2. calls' = [i \in 1..(n + 1) |-> CallNext(stack'[i])]
    BY <1>1, CallsOfFrames
<1>3. calls'[n + 1] = call /\ \A i \in 1..n : calls'[i] = calls[i]
    <2>1. \A i \in 1..n : i \in 1..(n + 1)
        BY <1>1
    <2>2. n + 1 \in 1..(n + 1)
        BY <1>1
    <2> HIDE DEF n
    <2> QED
        BY <1>1, <1>2, <2>1, <2>2, CallsStay DEF n
<1> HIDE DEF call
<1> DEFINE S == {calls[i] : i \in 1..n} \cup {call}
<1>4. calls \in [1..n -> S] /\ calls' \in [1..(n + 1) -> S]
    <2>1. calls = [i \in 1..n |-> calls[i]]
        BY CallsOfFrames
    <2>2. \A i \in 1..(n + 1) : i \in 1..n \/ i = n + 1
        BY <1>1
    <2>3. \A i \in 1..(n + 1) : calls'[i] \in S
        BY <1>3, <2>2
    <2> QED
        BY <1>2, <2>1, <2>3
<1> HIDE DEF S
<1>5. calls \in Seq(S) /\ Len(calls) = n
    BY <1>1, <1>4, FunctionIsSeq
<1>6. calls' \in Seq(S) /\ Len(calls') = n + 1
    BY <1>1, <1>4, FunctionIsSeq
<1>7. call \in S
    BY DEF S
<1>8. /\ Append(calls, call) \in Seq(S)
      /\ Len(Append(calls, call)) = n + 1
      /\ Append(calls, call)[n + 1] = call
      /\ \A i \in 1..n : Append(calls, call)[i] = calls[i]
    BY <1>5, <1>7, AppendProperties
<1>9. \A i \in 1..(n + 1) : i \in 1..n \/ i = n + 1
    BY <1>1
<1> HIDE DEF n
<1>10. \A i \in 1..Len(calls') : calls'[i] = Append(calls, call)[i]
    BY <1>3, <1>6, <1>8, <1>9
<1>11. calls' = Append(calls, call)
    BY <1>6, <1>8, <1>10, SeqEqual
<1> QED
    BY <1>11 DEF call

\* The innermost visit closes.
LEMMA ClosedCalls ==
    ASSUME IInv, AllStay, stack # <<>>, Pop
    PROVE  calls' = SubSeq(calls, 1, Len(calls) - 1)
<1> DEFINE n == Len(stack)
<1>1. /\ n \in Nat \ {0}
      /\ stack' = SubSeq(stack, 1, n - 1)
      /\ Len(stack') = n - 1
      /\ \A i \in 1..(n - 1) : stack'[i] = stack[i]
    BY InnerFrame, PoppedFrames DEF IInv, TypeOK, Pop
<1>2. calls' = [i \in 1..(n - 1) |-> CallNext(stack'[i])]
    BY <1>1, CallsOfFrames
<1>3. \A i \in 1..(n - 1) : i \in 1..n /\ calls'[i] = calls[i]
    <2>1. \A i \in 1..(n - 1) : i \in 1..n
        BY <1>1
    <2> HIDE DEF n
    <2> QED
        BY <1>1, <1>2, <2>1, CallsStay DEF n
<1> DEFINE S == {calls[i] : i \in 1..n}
<1>4. /\ Len(calls) = n
      /\ calls' \in [1..(n - 1) -> S]
    BY <1>2, <1>3, CallsAreSeq
<1>5. \A i \in 1..(n - 1) : calls[i] \in S
    BY <1>3
<1>6. n - 1 \in Nat /\ n - 1 \in Int /\ (n - 1) - 1 + 1 = n - 1
    BY <1>1
<1> HIDE DEF S
<1>7. calls' \in Seq(S) /\ Len(calls') = n - 1
    BY <1>4, <1>6, FunctionIsSeq
<1>8. /\ SubSeq(calls, 1, n - 1) \in Seq(S)
      /\ Len(SubSeq(calls, 1, n - 1)) = IF 1 <= n - 1 THEN (n - 1) - 1 + 1 ELSE 0
      /\ \A i \in 1..((n - 1) - 1 + 1) : SubSeq(calls, 1, n - 1)[i] = calls[1 + i - 1]
    BY <1>5, <1>6, SubSeqProperties
<1>9. Len(SubSeq(calls, 1, n - 1)) = n - 1
    BY <1>1, <1>6, <1>8
<1>10. \A i \in 1..(n - 1) : SubSeq(calls, 1, n - 1)[i] = calls[i]
    BY <1>6, <1>8
<1> HIDE DEF n
<1>11. calls' = SubSeq(calls, 1, n - 1)
    BY <1>3, <1>7, <1>8, <1>9, <1>10, SeqEqual
<1> QED
    BY <1>4, <1>11

\* The innermost visit moves on.
LEMMA ChangedCalls ==
    ASSUME IInv, AllStay, stack # <<>>, NEW frame \in Frame,
           stack' = [stack EXCEPT ![Len(stack)] = frame]
    PROVE  calls' = [calls EXCEPT ![Len(calls)] = CallNext(frame)]
<1> DEFINE n == Len(stack)
<1>1. /\ n \in Nat \ {0}
      /\ n \in 1..n
      /\ Len(stack') = n
      /\ \A i \in 1..n : stack'[i] = IF i = n THEN frame ELSE stack[i]
    BY InnerFrame, ExceptSeq DEF IInv, TypeOK
<1>2. /\ calls' = [i \in 1..n |-> CallNext(stack'[i])]
      /\ calls = [i \in 1..n |-> CallNow(stack[i])]
      /\ Len(calls) = n
      /\ \A i \in 1..n : CallNext(stack[i]) = calls[i]
    BY <1>1, CallsOfFrames, CallsAreSeq, CallsStay
<1> HIDE DEF n
<1>3. \A i \in 1..n : calls'[i] = [calls EXCEPT ![n] = CallNext(frame)][i]
    BY <1>1, <1>2
<1> QED
    BY <1>2, <1>3

(***************************************************************************)
(* The frames below the step: no step disturbs what an open visit walks.   *)
(***************************************************************************)

\* A scan has counted the methods it has passed that its pattern matches.
Counted(f, list) ==
    f.numFound = Cardinality(Selects[f.text] \cap {list[k] : k \in 1..f.pos})

\* What an open visit relies on: a kept visit on a bucket that still answers
\* for its pattern, a single method on an index within the table, a scan on
\* its count.
Stands(f, list, bucket, gen) ==
    /\ f.mode = "kept" => bucket.generation = gen /\ bucket.text = f.text
    /\ f.mode = "one" => f.found[1] \in 1..Len(list)
    /\ f.mode = "scan" => Counted(f, list)

\* The same, in the state before a step and in the state after it.
StandsNow(f) ==
    Stands(f, methods[f.space], buckets[f.space][BucketOf[f.text]],
           generation[f.space])

StandsNext(f) ==
    Stands(f, methods'[f.space], buckets'[f.space][BucketOf[f.text]],
           generation'[f.space])

\* Every open visit can rely on what it walks.
FramesStand == \A i \in 1..Len(stack) : StandsNow(stack[i])

\* A step changes the methods and the generation of unvisited spaces only.
LEMMA VisitedSpacesStay ==
    ASSUME IInv, Next, NEW s \in Spaces, ~Unvisited(s)
    PROVE  methods'[s] = methods[s] /\ generation'[s] = generation[s]
<1>1. methods \in [Spaces -> Seq(Address)] /\ generation \in [Spaces -> Nat]
    BY DEF IInv, TypeOK
<1>2. ASSUME NEW r \in Spaces, NEW a \in Address, Add(r, a) \/ Remove(r, a)
      PROVE  methods'[s] = methods[s] /\ generation'[s] = generation[s]
    BY <1>1, <1>2 DEF Add, Remove, Forget
<1>3. ASSUME NEW r \in Spaces, Construct(r)
      PROVE  methods'[s] = methods[s] /\ generation'[s] = generation[s]
    BY <1>1, <1>3 DEF Construct
<1>4. ASSUME NEW dst \in Spaces, NEW src \in Spaces,
             Copy(dst, src) \/ Move(dst, src)
      PROVE  methods'[s] = methods[s] /\ generation'[s] = generation[s]
    BY <1>1, <1>4 DEF Copy, Move
<1>5. \/ UNCHANGED <<methods, generation>>
      \/ \E r \in Spaces, a \in Address : Add(r, a) \/ Remove(r, a)
      \/ \E r \in Spaces : Construct(r)
      \/ \E dst, src \in Spaces : Copy(dst, src) \/ Move(dst, src)
    BY DEF Next, VisitKept, VisitOne, VisitNone, VisitScan, VisitAll, Deliver,
           DeliverKept, DeliverOne, DeliverScan, DeliverAll, Call, VisitorReturns,
           Return, ReturnKept, ReturnOne, ReturnNone, ReturnScan, ReturnAll, Throw,
           memoVars
<1> QED
    BY <1>2, <1>3, <1>4, <1>5

\* The space of an open visit is visited, and the bucket of a kept one is read.
LEMMA OpenFrame ==
    ASSUME IInv, NEW i \in 1..Len(stack)
    PROVE  /\ stack[i] \in Frame
           /\ stack[i].space \in Spaces
           /\ ~Unvisited(stack[i].space)
           /\ stack[i].mode = "kept" =>
                 /\ stack[i].text \in Texts
                 /\ BucketOf[stack[i].text] \in Buckets
                 /\ buckets[stack[i].space][BucketOf[stack[i].text]].numReaders # 0
<1> DEFINE s == stack[i].space
           b == BucketOf[stack[i].text]
<1>1. stack \in Seq(Frame) /\ stack[i] \in Frame
    BY ElementOfSeq DEF IInv, TypeOK
<1>2. s \in Spaces
    BY <1>1 DEF Frame
<1>3. i \in Opened(stack, s)
    BY DEF Opened
<1>4. ~Unvisited(s)
    BY <1>2, <1>3, UnvisitedSpace
<1>5. ASSUME stack[i].mode = "kept"
      PROVE  stack[i].text \in Texts /\ b \in Buckets /\ buckets[s][b].numReaders # 0
    <2>1. stack[i].text \in Texts
        BY <1>5 DEF IInv, FramesSound, SoundFrame
    <2>2. b \in Buckets
        BY <2>1, BucketOfText
    <2>3. i \in ReadBy(stack, s, b)
        BY <1>3, <1>5 DEF ReadBy
    <2>4. IsFiniteSet(ReadBy(stack, s, b))
        BY <1>1, OpenedIsFinite
    <2>5. buckets[s][b].numReaders = Cardinality(ReadBy(stack, s, b))
        BY <1>2, <2>2 DEF IInv, ReadersBalanced
    <2> QED
        BY <2>1, <2>2, <2>3, <2>4, <2>5, FS_EmptySet
<1> QED
    BY <1>1, <1>2, <1>4, <1>5

\* No step disturbs a visit that is open: its table, its generation and the
\* bucket it reads stay as they are.
LEMMA StepKeepsFrames ==
    ASSUME IInv, IInv', Next
    PROVE  AllStay
<1> SUFFICES ASSUME NEW i \in 1..Len(stack)
             PROVE  FrameStays(stack[i])
    BY DEF AllStay
<1> DEFINE s == stack[i].space
           b == BucketOf[stack[i].text]
<1>1. methods'[s] = methods[s] /\ generation'[s] = generation[s]
    BY OpenFrame, VisitedSpacesStay
<1>2. ASSUME stack[i].mode = "kept"
      PROVE  /\ buckets'[s][b].generation = buckets[s][b].generation
             /\ buckets'[s][b].text = buckets[s][b].text
             /\ buckets'[s][b].results = buckets[s][b].results
    <2>1. s \in Spaces /\ b \in Buckets /\ ContentsStay(s, b)
        BY <1>2, OpenFrame, StepKeepsReadBuckets
    <2>2. buckets[s][b] \in Bucket
        BY <2>1 DEF IInv, TypeOK
    <2> HIDE DEF s, b
    <2> QED
        BY <2>1, <2>2 DEF ContentsStay, Bucket
<1> QED
    BY <1>1, <1>2 DEF FrameStays

\* A visit that finds what it walks unchanged can rely on it still.
LEMMA StandsStill ==
    ASSUME NEW f \in Frame, FrameStays(f), StandsNow(f)
    PROVE  StandsNext(f)
BY DEF FrameStays, StandsNow, StandsNext, Stands

\* An open visit of the step before, still open after it, can rely on what it
\* walks.
LEMMA OldFramesStand ==
    ASSUME IInv, AllStay, FramesStand, NEW i \in 1..Len(stack)
    PROVE  StandsNext(stack[i])
BY OpenFrame, StandsStill DEF AllStay, FramesStand

\* A step that leaves the stack alone leaves every open visit standing.
LEMMA SameStand ==
    ASSUME IInv, AllStay, FramesStand, UNCHANGED stack
    PROVE  FramesStand'
<1>1. \A i \in 1..Len(stack) : StandsNext(stack[i])
    BY OldFramesStand
<1> QED
    BY <1>1 DEF FramesStand, StandsNow, StandsNext

\* A visit that opens stands with those below it.
LEMMA OpenedStand ==
    ASSUME IInv, AllStay, FramesStand, NEW frame \in Frame,
           stack' = Append(stack, frame), StandsNext(frame)
    PROVE  FramesStand'
<1> DEFINE n == Len(stack)
<1>1. /\ n \in Nat
      /\ Len(stack') = n + 1
      /\ stack'[n + 1] = frame
      /\ \A i \in 1..n : stack'[i] = stack[i]
    BY CallsAreSeq, AppendProperties DEF IInv, TypeOK
<1>2. \A i \in 1..(n + 1) : i \in 1..n \/ i = n + 1
    BY <1>1
<1>3. \A i \in 1..n : StandsNext(stack[i])
    BY OldFramesStand
<1> HIDE DEF n
<1>4. \A i \in 1..Len(stack') : StandsNext(stack'[i])
    BY <1>1, <1>2, <1>3
<1> QED
    BY <1>4 DEF FramesStand, StandsNow, StandsNext

\* When the innermost visit closes, those below it stand.
LEMMA ClosedStand ==
    ASSUME IInv, AllStay, FramesStand, stack # <<>>, Pop
    PROVE  FramesStand'
<1> DEFINE n == Len(stack)
<1>1. /\ n \in Nat \ {0}
      /\ Len(stack') = n - 1
      /\ \A i \in 1..(n - 1) : stack'[i] = stack[i]
    BY InnerFrame, PoppedFrames DEF IInv, TypeOK, Pop
<1>2. \A i \in 1..(n - 1) : i \in 1..n
    BY <1>1
<1>3. \A i \in 1..n : StandsNext(stack[i])
    BY OldFramesStand
<1> HIDE DEF n
<1>4. \A i \in 1..Len(stack') : StandsNext(stack'[i])
    BY <1>1, <1>2, <1>3
<1> QED
    BY <1>4 DEF FramesStand, StandsNow, StandsNext

\* The innermost visit moves on and stands where it is then.
LEMMA ChangedStand ==
    ASSUME IInv, AllStay, FramesStand, stack # <<>>, NEW frame \in Frame,
           frame.space = Inner.space, frame.mode = Inner.mode,
           frame.text = Inner.text, frame.mode = "one" => frame.found = Inner.found,
           frame.mode = "scan" => Counted(frame, methods'[frame.space]),
           stack' = [stack EXCEPT ![Len(stack)] = frame]
    PROVE  FramesStand'
<1> DEFINE n == Len(stack)
<1>1. /\ n \in 1..n
      /\ Len(stack') = n
      /\ \A i \in 1..n : stack'[i] = IF i = n THEN frame ELSE stack[i]
    BY InnerFrame, ExceptSeq DEF IInv, TypeOK
<1>2. \A i \in 1..n : StandsNext(stack[i])
    BY OldFramesStand
<1>3. StandsNext(Inner)
    BY <1>1, <1>2 DEF Inner
<1>4. StandsNext(frame)
    BY <1>3 DEF StandsNext, Stands
<1> HIDE DEF n
<1>5. \A i \in 1..Len(stack') : StandsNext(stack'[i])
    BY <1>1, <1>2, <1>4
<1> QED
    BY <1>5 DEF FramesStand, StandsNow, StandsNext

(***************************************************************************)
(* What the promise sees of a state.                                       *)
(***************************************************************************)

\* The innermost call is the innermost frame, and one is busy when the other is.
LEMMA InnermostCall ==
    ASSUME IInv
    PROVE  /\ Promise!Idle <=> stack = <<>>
           /\ stack # <<>> => Promise!Inner = CallNow(Inner)
           /\ Promise!ClientRuns <=> ClientRuns
<1>1. /\ Len(stack) \in Nat
      /\ Len(calls) = Len(stack)
      /\ \A i \in 1..Len(stack) : calls[i] = CallNow(stack[i])
    BY CallsAreSeq
<1>2. \E S : calls \in Seq(S)
    BY CallsAreSeq
<1>3. calls = <<>> <=> Len(calls) = 0
    BY <1>2, EmptySeq, LenProperties
<1>4. stack = <<>> <=> Len(stack) = 0
    BY EmptySeq DEF IInv, TypeOK
<1>5. Promise!Idle <=> stack = <<>>
    BY <1>1, <1>3, <1>4 DEF Promise!Idle
<1>6. stack # <<>> => Promise!Inner = CallNow(Inner)
    BY <1>1, <1>4 DEF Promise!Inner, Inner
<1>7. Promise!ClientRuns <=> ClientRuns
    BY <1>5, <1>6 DEF Promise!ClientRuns, ClientRuns, CallNow, CallOf
<1> QED
    BY <1>5, <1>6, <1>7

\* A space no visit is open on is not being visited.
LEMMA UnvisitedIsIdle ==
    ASSUME IInv, NEW s \in Spaces, Unvisited(s)
    PROVE  ~Promise!Visiting(s)
<1>1. \A i \in 1..Len(stack) : stack[i].space # s
    BY UnvisitedSpace DEF Opened
<1>2. DOMAIN calls = 1..Len(stack)
    BY DEF calls
<1>3. \A i \in 1..Len(stack) : calls[i].space = stack[i].space
    BY DEF calls
<1> QED
    BY <1>1, <1>2, <1>3 DEF Promise!Visiting

\* The sets of addresses are those of the tables.
LEMMA RegisteredNow ==
    /\ registered = [s \in Spaces |-> Range(methods[s])]
    /\ registered' = [s \in Spaces |-> Range(methods'[s])]
BY DEF registered, Registered

\* Inserting a method adds its address.
LEMMA InsertedRange ==
    ASSUME NEW list \in Seq(Address), NEW a, NEW p \in 1..(Len(list) + 1)
    PROVE  Range(InsertMethod(list, p, a)) = Range(list) \cup {a}
<1> DEFINE n == Len(list)
           grown == InsertMethod(list, p, a)
<1>1. n \in Nat /\ DOMAIN list = 1..n /\ DOMAIN grown = 1..(n + 1)
    BY LenProperties DEF InsertMethod
<1>2. ASSUME NEW i \in 1..(n + 1)
      PROVE  grown[i] \in Range(list) \cup {a}
    <2>1. i < p => i \in 1..n
        BY <1>1
    <2>2. i > p => i - 1 \in 1..n
        BY <1>1
    <2>3. i < p \/ i = p \/ i > p
        BY <1>1
    <2> QED
        BY <1>1, <2>1, <2>2, <2>3 DEF InsertMethod, Range
<1>3. ASSUME NEW i \in 1..n
      PROVE  list[i] \in Range(grown)
    <2>1. CASE i < p
        <3>1. i \in 1..(n + 1)
            BY <1>1
        <3>2. grown[i] = list[i]
            BY <2>1, <3>1 DEF InsertMethod
        <3> QED
            BY <1>1, <3>1, <3>2 DEF Range
    <2>2. CASE ~(i < p)
        <3>1. i + 1 \in 1..(n + 1) /\ ~(i + 1 < p) /\ i + 1 # p /\ (i + 1) - 1 = i
            BY <1>1, <2>2
        <3>2. grown[i + 1] = list[i]
            BY <3>1 DEF InsertMethod
        <3> QED
            BY <1>1, <3>1, <3>2 DEF Range
    <2> QED
        BY <2>1, <2>2
<1>4. a \in Range(grown)
    BY <1>1 DEF InsertMethod, Range
<1> HIDE DEF grown, n
<1>5. Range(grown) \subseteq Range(list) \cup {a}
    BY <1>1, <1>2 DEF Range
<1>6. Range(list) \subseteq Range(grown)
    BY <1>1, <1>3 DEF Range
<1> QED
    BY <1>4, <1>5, <1>6 DEF grown

\* Erasing a method removes its address, for no address is there twice.
LEMMA ErasedRange ==
    ASSUME NEW list \in Seq(Address), NEW p \in 1..Len(list),
           \A i, j \in 1..Len(list) : i < j => list[i] < list[j]
    PROVE  Range(EraseMethod(list, p)) = Range(list) \ {list[p]}
<1> DEFINE n == Len(list)
           shrunk == EraseMethod(list, p)
<1>1. /\ n \in Nat \ {0} /\ p \in 1..n
      /\ DOMAIN list = 1..n /\ DOMAIN shrunk = 1..(n - 1)
      /\ \A i \in 1..n : list[i] \in Int
    BY LenProperties, ElementOfSeq, ConstantsAssumption DEF EraseMethod, Address
<1>2. \A i \in 1..n : i # p => list[i] # list[p]
    BY <1>1
<1>3. ASSUME NEW i \in 1..(n - 1)
      PROVE  \E j \in 1..n : j # p /\ shrunk[i] = list[j]
    <2>1. i \in 1..n /\ i + 1 \in 1..n /\ (i < p => i # p) /\ (~(i < p) => i + 1 # p)
        BY <1>1
    <2>2. shrunk[i] = IF i < p THEN list[i] ELSE list[i + 1]
        BY DEF EraseMethod
    <2> HIDE DEF shrunk
    <2> QED
        BY <2>1, <2>2
<1>4. ASSUME NEW j \in 1..n, j # p
      PROVE  \E i \in 1..(n - 1) : shrunk[i] = list[j]
    <2>1. CASE j < p
        BY <1>1, <2>1 DEF EraseMethod
    <2>2. CASE ~(j < p)
        <3>1. j - 1 \in 1..(n - 1) /\ ~(j - 1 < p) /\ (j - 1) + 1 = j
            BY <1>1, <1>4, <2>2
        <3>2. shrunk[j - 1] = list[j]
            BY <3>1 DEF EraseMethod
        <3> QED
            BY <3>1, <3>2
    <2> QED
        BY <2>1, <2>2
<1> HIDE DEF shrunk, n
<1>5. Range(shrunk) \subseteq Range(list) \ {list[p]}
    <2> SUFFICES ASSUME NEW i \in 1..(n - 1)
                 PROVE  shrunk[i] \in Range(list) \ {list[p]}
        BY <1>1 DEF Range
    <2>1. PICK j \in 1..n : j # p /\ shrunk[i] = list[j]
        BY <1>3
    <2>2. list[j] # list[p] /\ list[j] \in Range(list)
        BY <1>1, <1>2, <2>1 DEF Range
    <2> QED
        BY <2>1, <2>2
<1>6. Range(list) \ {list[p]} \subseteq Range(shrunk)
    BY <1>1, <1>4 DEF Range
<1> QED
    BY <1>5, <1>6 DEF shrunk

(***************************************************************************)
(* Each step is a step of the promise, or none.                            *)
(***************************************************************************)

\* add puts the address into the set.
LEMMA AddPromised ==
    ASSUME IInv, AllStay, FramesStand,
           NEW s \in Spaces, NEW a \in Address, Add(s, a)
    PROVE  FramesStand' /\ Promise!Add(s, a)
<1>1. methods[s] \in Seq(Address)
    BY DEF IInv, TypeOK
<1>2. ClientRuns /\ Unvisited(s) /\ UNCHANGED stack
    BY DEF Add
<1>3. PICK p \in 1..(Len(methods[s]) + 1) :
          methods' = [methods EXCEPT ![s] = InsertMethod(methods[s], p, a)]
    BY DEF Add
<1>4. Range(methods'[s]) = Range(methods[s]) \cup {a}
    BY <1>1, <1>3, InsertedRange DEF IInv, TypeOK
<1>5. registered' = [registered EXCEPT ![s] = registered[s] \cup {a}]
    BY <1>3, <1>4, RegisteredNow DEF IInv, TypeOK
<1>6. UNCHANGED calls /\ FramesStand'
    BY <1>2, SameCalls, SameStand
<1> QED
    BY <1>2, <1>5, <1>6, InnermostCall, UnvisitedIsIdle DEF Promise!Add

\* remove takes the address out of the set.
LEMMA RemovePromised ==
    ASSUME IInv, AllStay, FramesStand,
           NEW s \in Spaces, NEW a \in Address, Remove(s, a)
    PROVE  FramesStand' /\ Promise!Remove(s, a)
<1>1. methods[s] \in Seq(Address)
    BY DEF IInv, TypeOK
<1>2. ClientRuns /\ Unvisited(s) /\ UNCHANGED stack
    BY DEF Remove
<1>3. PICK p \in 1..Len(methods[s]) :
          /\ methods[s][p] = a
          /\ methods' = [methods EXCEPT ![s] = EraseMethod(methods[s], p)]
    BY DEF Remove
<1>4. Range(EraseMethod(methods[s], p)) = Range(methods[s]) \ {a}
    BY <1>1, <1>3, ErasedRange DEF IInv, MethodsInOrder
<1>5. registered' = [registered EXCEPT ![s] = registered[s] \ {a}]
    BY <1>3, <1>4, RegisteredNow DEF IInv, TypeOK
<1>6. UNCHANGED calls /\ FramesStand'
    BY <1>2, SameCalls, SameStand
<1> QED
    BY <1>2, <1>5, <1>6, InnermostCall, UnvisitedIsIdle DEF Promise!Remove

\* Copies, moves and constructions replace whole sets of addresses.
LEMMA SpacesPromised ==
    ASSUME IInv, AllStay, FramesStand, NEW dst \in Spaces, NEW src \in Spaces
    PROVE  /\ Copy(dst, src) => FramesStand' /\ Promise!Copy(dst, src)
           /\ Move(dst, src) => FramesStand' /\ Promise!Move(dst, src)
           /\ Construct(dst) => FramesStand' /\ Promise!Construct(dst)
<1> USE InnermostCall, UnvisitedIsIdle
<1>1. methods \in [Spaces -> Seq(Address)]
    BY DEF IInv, TypeOK
<1>2. Range(<<>>) = {}
    BY DEF Range
<1>3. UNCHANGED stack => UNCHANGED calls /\ FramesStand'
    BY SameCalls, SameStand
<1>4. ASSUME Copy(dst, src)
      PROVE  FramesStand' /\ Promise!Copy(dst, src)
    <2>1. registered' = [registered EXCEPT ![dst] = registered[src]]
        BY <1>1, <1>4, RegisteredNow DEF Copy
    <2> QED
        BY <1>3, <1>4, <2>1 DEF Copy, Promise!Copy
<1>5. ASSUME Move(dst, src)
      PROVE  FramesStand' /\ Promise!Move(dst, src)
    <2>1. registered' = [registered EXCEPT ![dst] = registered[src], ![src] = {}]
        BY <1>1, <1>2, <1>5, RegisteredNow DEF Move
    <2> QED
        BY <1>3, <1>5, <2>1 DEF Move, Promise!Move
<1>6. ASSUME Construct(dst)
      PROVE  FramesStand' /\ Promise!Construct(dst)
    <2>1. registered' = [registered EXCEPT ![dst] = {}]
        BY <1>1, <1>2, <1>6, RegisteredNow DEF Construct
    <2> QED
        BY <1>3, <1>6, <2>1 DEF Construct, Promise!Construct
<1> QED
    BY <1>4, <1>5, <1>6

\* A visit opens with all it selects still to deliver.
LEMMA OpenPromised ==
    ASSUME IInv, AllStay, FramesStand, ClientRuns,
           NEW frame \in Frame, NEW selected, Push(frame), methods' = methods,
           frame.busy = FALSE, StandsNext(frame),
           PendingOf(frame, methods[frame.space],
                     buckets'[frame.space][BucketOf[frame.text]].results)
               = selected \cap Range(methods[frame.space])
    PROVE  FramesStand' /\ Promise!Open(frame.space, frame.text, selected)
<1>1. stack' = Append(stack, frame)
    BY DEF Push
<1>2. calls' = Append(calls, CallNext(frame)) /\ FramesStand'
    BY <1>1, OpenedCalls, OpenedStand
<1>3. frame.space \in Spaces
    BY DEF Frame
<1>4. registered[frame.space] = Range(methods[frame.space])
    BY <1>3, RegisteredNow
<1>5. UNCHANGED registered
    BY RegisteredNow
<1>6. CallNext(frame) = [space |-> frame.space, text |-> frame.text,
                         pending |-> selected \cap registered[frame.space],
                         busy |-> FALSE]
    BY <1>4 DEF CallNext, CallOf
<1> QED
    BY <1>2, <1>5, <1>6, InnermostCall DEF Promise!Open

\* A complete list of matches names the registered addresses that match.
LEMMA MatchedAddresses ==
    ASSUME NEW list \in Seq(Address), NEW t, NEW positions,
           IsMatchList(list, t, positions, Len(list))
    PROVE  {list[positions[k]] : k \in 1..Len(positions)}
               = Matching(t) \cap Range(list)
<1>1. DOMAIN list = 1..Len(list)
    OBVIOUS
<1>2. /\ \A k \in 1..Len(positions) : positions[k] \in 1..Len(list)
      /\ \A i \in 1..Len(list) : list[i] \in Matching(t) <=>
             \E k \in 1..Len(positions) : positions[k] = i
    BY DEF IsMatchList
<1> QED
    BY <1>1, <1>2 DEF Range

\* A visit of a bucket opens with the matches of its pattern.
LEMMA VisitKeptPromised ==
    ASSUME IInv, AllStay, FramesStand,
           NEW s \in Spaces, NEW t \in Texts, VisitKept(s, t)
    PROVE  FramesStand' /\ Promise!Visit(s, t)
<1> DEFINE frame == [space |-> s, mode |-> "kept", text |-> t, pos |-> 0,
                     found |-> <<>>, numFound |-> 0, memoisable |-> FALSE,
                     busy |-> FALSE]
           old == buckets[s][BucketOf[t]]
           new == buckets'[s][BucketOf[t]]
<1>1. frame \in Frame
    BY EmptySeq DEF Frame
<1>2. /\ ClientRuns /\ Push(frame)
      /\ buckets' = Reading(s, t, 1)
      /\ UNCHANGED <<methods, memoised, generation>>
      /\ Holds(s, t)
    BY DEF VisitKept, Begin, Kept
<1>3. old \in Bucket /\ BucketOf[t] \in Buckets
    BY BucketOfText DEF IInv, TypeOK
<1>4. new.generation = old.generation /\ new.text = old.text /\ new.results = old.results
    <2>1. new = [old EXCEPT !.numReaders = old.numReaders + 1]
        BY <1>2, <1>3 DEF Reading, IInv, TypeOK
    <2> HIDE DEF new, old
    <2> QED
        BY <1>3, <2>1 DEF Bucket
<1>5. old.generation = generation[s] /\ old.text = t
    BY <1>2 DEF Holds, BucketFor
<1>6. t \notin Malformed /\ IsMatchList(methods[s], t, old.results, Len(methods[s]))
    BY <1>3, <1>5 DEF IInv, MemoCoherent, Live
<1> DEFINE list == methods[s]
           results == old.results
<1>7. {list[results[k]] : k \in 1..Len(results)} = Matching(t) \cap Range(list)
    <2>1. list \in Seq(Address)
        BY DEF IInv, TypeOK
    <2>2. IsMatchList(list, t, results, Len(list))
        BY <1>6
    <2> HIDE DEF list, results
    <2> QED
        BY <2>1, <2>2, MatchedAddresses
<1>8. frame.space = s /\ frame.text = t /\ frame.mode = "kept" /\ frame.pos = 0
      /\ frame.busy = FALSE
    OBVIOUS
<1>9. StandsNext(frame)
    BY <1>2, <1>4, <1>5, <1>8 DEF StandsNext, Stands
<1> HIDE DEF frame
<1>10. PendingOf(frame, list, results) = Matching(t) \cap Range(list)
    <2> HIDE DEF list, results
    <2>1. PendingOf(frame, list, results)
              = {list[results[k]] : k \in (0 + 1)..Len(results)}
        BY <1>8, PendingByMode
    <2> QED
        BY <1>7, <2>1
<1>11. FramesStand' /\ Promise!Open(s, t, Matching(t))
    BY <1>1, <1>2, <1>4, <1>8, <1>9, <1>10, OpenPromised
<1> QED
    BY <1>6, <1>11 DEF Promise!Visit, Promise!Matching, Promise!Address, Matching, Address

\* A visit of the one method a literal names.
LEMMA VisitOnePromised ==
    ASSUME IInv, AllStay, FramesStand,
           NEW s \in Spaces, NEW t \in Texts, VisitOne(s, t)
    PROVE  FramesStand' /\ Promise!Visit(s, t)
<1>1. PICK p \in 1..Len(methods[s]) :
          methods[s][p] = t /\ Begin(s, "one", t, <<p>>, FALSE)
    BY DEF VisitOne
<1> DEFINE frame == [space |-> s, mode |-> "one", text |-> t, pos |-> 0,
                     found |-> <<p>>, numFound |-> 0, memoisable |-> FALSE,
                     busy |-> FALSE]
           list == methods[s]
           results == buckets'[s][BucketOf[t]].results
<1>2. list \in Seq(Address) /\ Len(list) \in Nat /\ DOMAIN list = 1..Len(list)
    BY LenProperties DEF IInv, TypeOK
<1>3. frame \in Frame
    <2>1. p \in Nat
        BY <1>2
    <2>2. <<p>> \in Seq(Nat)
        BY <2>1
    <2> QED
        BY <2>2 DEF Frame
<1>4. ClientRuns /\ Push(frame) /\ methods' = methods /\ t \in Literals
    BY <1>1 DEF VisitOne, Begin
<1>5. t \in Address /\ t \in Range(list)
    BY <1>1, <1>2, ElementOfSeq DEF Range
<1>6. t \notin Wildcards /\ t \notin Malformed
    BY <1>4, ConstantsAssumption DEF Literals
<1>7. Matching(t) \cap Range(list) = {t}
    BY <1>5, <1>6 DEF Matching
<1>8. /\ frame.space = s /\ frame.text = t /\ frame.mode = "one"
      /\ frame.pos = 0 /\ frame.busy = FALSE /\ frame.found = <<p>>
    OBVIOUS
<1>9. StandsNext(frame)
    BY <1>4, <1>8 DEF StandsNext, Stands
<1> HIDE DEF frame
<1>10. PendingOf(frame, list, results) = Matching(t) \cap Range(list)
    <2>1. list[p] = t
        BY <1>1
    <2> HIDE DEF list, results
    <2>2. PendingOf(frame, list, results)
              = {list[frame.found[k]] : k \in (frame.pos + 1)..1}
        BY <1>8, PendingByMode
    <2>3. (frame.pos + 1)..1 = {1} /\ frame.found[1] = p
        BY <1>8
    <2> QED
        BY <1>7, <2>1, <2>2, <2>3
<1>11. FramesStand' /\ Promise!Open(s, t, Matching(t))
    BY <1>3, <1>4, <1>8, <1>9, <1>10, OpenPromised
<1> QED
    BY <1>6, <1>11 DEF Promise!Visit, Promise!Matching, Promise!Address, Matching, Address

\* A visit that scans the table.
LEMMA VisitScanPromised ==
    ASSUME IInv, AllStay, FramesStand,
           NEW s \in Spaces, NEW t \in Texts, VisitScan(s, t)
    PROVE  FramesStand' /\ Promise!Visit(s, t)
<1> DEFINE frame == [space |-> s, mode |-> "scan", text |-> t, pos |-> 0,
                     found |-> <<>>, numFound |-> 0,
                     memoisable |-> Memoisable(s, t), busy |-> FALSE]
           list == methods[s]
           results == buckets'[s][BucketOf[t]].results
<1>1. Memoisable(s, t) \in BOOLEAN
    BY DEF Memoisable, Accepts, IInv, TypeOK
<1>2. frame \in Frame
    BY <1>1, EmptySeq DEF Frame
<1>3. ClientRuns /\ Push(frame) /\ methods' = methods /\ t \in Wildcards
    BY DEF VisitScan, Begin
<1>4. t \notin Malformed /\ Matching(t) = Selects[t]
    BY <1>3, ConstantsAssumption DEF Matching
<1>5. /\ frame.space = s /\ frame.text = t /\ frame.mode = "scan"
      /\ frame.pos = 0 /\ frame.busy = FALSE
    OBVIOUS
<1>6. StandsNext(frame)
    <2>1. {methods'[s][k] : k \in 1..0} = {} /\ Cardinality({}) = 0
        BY FS_EmptySet
    <2>2. Counted(frame, methods'[s])
        BY <1>5, <2>1 DEF Counted
    <2> QED
        BY <1>5, <2>2 DEF StandsNext, Stands
<1>7. DOMAIN list = 1..Len(list)
    BY DEF IInv, TypeOK
<1> HIDE DEF frame
<1>8. PendingOf(frame, list, results) = Matching(t) \cap Range(list)
    <2> HIDE DEF list, results
    <2>1. PendingOf(frame, list, results)
              = Selects[t] \cap {list[i] : i \in (0 + 1)..Len(list)}
        BY <1>5, PendingByMode
    <2> QED
        BY <1>4, <1>7, <2>1 DEF Range
<1>9. FramesStand' /\ Promise!Open(s, t, Matching(t))
    BY <1>2, <1>3, <1>5, <1>6, <1>8, OpenPromised
<1> QED
    BY <1>4, <1>9 DEF Promise!Visit, Promise!Matching, Promise!Address, Matching, Address

\* A visit without a pattern.
LEMMA VisitAllPromised ==
    ASSUME IInv, AllStay, FramesStand, NEW s \in Spaces, VisitAll(s)
    PROVE  FramesStand' /\ Promise!VisitAll(s)
<1> DEFINE frame == [space |-> s, mode |-> "all", text |-> NoText, pos |-> 0,
                     found |-> <<>>, numFound |-> 0, memoisable |-> FALSE,
                     busy |-> FALSE]
           list == methods[s]
           results == buckets'[s][BucketOf[NoText]].results
<1>1. frame \in Frame
    BY EmptySeq DEF Frame
<1>2. ClientRuns /\ Push(frame) /\ methods' = methods
    BY DEF VisitAll, Begin
<1>3. /\ frame.space = s /\ frame.text = NoText /\ frame.mode = "all"
      /\ frame.pos = 0 /\ frame.busy = FALSE
    OBVIOUS
<1>4. StandsNext(frame)
    BY <1>3 DEF StandsNext, Stands
<1>5. DOMAIN list = 1..Len(list) /\ \A i \in 1..Len(list) : list[i] \in Address
    BY ElementOfSeq DEF IInv, TypeOK
<1> HIDE DEF frame
<1>6. PendingOf(frame, list, results) = Address \cap Range(list)
    <2> HIDE DEF list, results
    <2>1. PendingOf(frame, list, results) = {list[i] : i \in (0 + 1)..Len(list)}
        BY <1>3, PendingByMode
    <2> QED
        BY <1>5, <2>1 DEF Range
<1>7. FramesStand' /\ Promise!Open(s, NoText, Address)
    BY <1>1, <1>2, <1>3, <1>4, <1>6, OpenPromised
<1> QED
    BY <1>7 DEF Promise!VisitAll, Promise!Address, Address

\* A literal nothing is registered under is a visit with nothing to deliver.
LEMMA VisitNonePromised ==
    ASSUME IInv, AllStay, FramesStand,
           NEW s \in Spaces, NEW t \in Texts, VisitNone(s, t)
    PROVE  FramesStand' /\ Promise!Visit(s, t)
<1> DEFINE frame == [space |-> s, mode |-> "none", text |-> t, pos |-> 0,
                     found |-> <<>>, numFound |-> 0, memoisable |-> FALSE,
                     busy |-> FALSE]
           list == methods[s]
           results == buckets'[s][BucketOf[t]].results
<1>1. frame \in Frame
    BY EmptySeq DEF Frame
<1>2. /\ ClientRuns /\ Push(frame) /\ methods' = methods
      /\ t \in Literals /\ t \notin Range(list)
    BY DEF VisitNone, Begin, Registered
<1>3. t \notin Wildcards /\ t \notin Malformed
    BY <1>2, ConstantsAssumption DEF Literals
<1>4. Matching(t) \cap Range(list) = {}
    BY <1>2, <1>3 DEF Matching
<1>5. /\ frame.space = s /\ frame.text = t /\ frame.mode = "none"
      /\ frame.busy = FALSE
    OBVIOUS
<1>6. StandsNext(frame)
    BY <1>5 DEF StandsNext, Stands
<1> HIDE DEF frame
<1>7. PendingOf(frame, list, results) = Matching(t) \cap Range(list)
    BY <1>4, <1>5, PendingByMode
<1>8. FramesStand' /\ Promise!Open(s, t, Matching(t))
    BY <1>1, <1>2, <1>5, <1>6, <1>7, OpenPromised
<1> QED
    BY <1>3, <1>8 DEF Promise!Visit, Promise!Matching, Promise!Address, Matching, Address

\* The next match of a walk in order is the least address left to deliver.
LEMMA NextIsLeast ==
    ASSUME NEW n \in Nat, NEW f, \A k \in 1..n : f[k] \in Int,
           \A j, k \in 1..n : j < k => f[j] < f[k],
           NEW pos \in Nat, NEW i \in (pos + 1)..n, NEW selected,
           f[i] \in selected, \A j \in (pos + 1)..(i - 1) : f[j] \notin selected
    PROVE  LET Rest(p) == selected \cap {f[k] : k \in (p + 1)..n} IN
           /\ f[i] \in Rest(pos)
           /\ \A a \in Rest(pos) : f[i] <= a
           /\ Rest(i) = Rest(pos) \ {f[i]}
<1>1. i \in Nat \ {0} /\ i \in 1..n
    OBVIOUS
<1>2. ASSUME NEW k \in (pos + 1)..n
      PROVE  k \in 1..n /\ (k \in (pos + 1)..(i - 1) \/ k = i \/ (k > i /\ k \in (i + 1)..n))
    BY <1>1
<1>3. ASSUME NEW k \in (i + 1)..n
      PROVE  k \in 1..n /\ k \in (pos + 1)..n /\ f[i] < f[k]
    BY <1>1
<1>4. ASSUME NEW k \in (pos + 1)..n, f[k] \in selected
      PROVE  f[i] <= f[k]
    <2>1. k = i \/ k \in (i + 1)..n
        BY <1>2, <1>4
    <2>2. f[i] \in Int /\ f[k] \in Int
        BY <1>1, <1>2
    <2> QED
        BY <1>3, <2>1, <2>2
<1>5. ASSUME NEW k \in (pos + 1)..n, f[k] \in selected, f[k] # f[i]
      PROVE  k \in (i + 1)..n
    BY <1>2, <1>5
<1>6. ASSUME NEW k \in (i + 1)..n
      PROVE  k \in (pos + 1)..n /\ f[k] # f[i]
    BY <1>1, <1>3
<1> QED
    BY <1>4, <1>5, <1>6

\* What is left to deliver depends on where the visit stands, not on busy.
LEMMA SamePending ==
    ASSUME NEW f, NEW g, NEW list, NEW results,
           f.mode = g.mode, f.pos = g.pos, f.text = g.text, f.found = g.found
    PROVE  PendingOf(f, list, results) = PendingOf(g, list, results)
BY DEF PendingOf

\* A record with the fields of an abstract call.
LEMMA CallRecord ==
    ASSUME NEW space, NEW text, NEW pending,
           NEW r \in [space : {space}, text : {text}, pending : {pending}, busy : BOOLEAN]
    PROVE  /\ r.busy = TRUE =>
                 r = [space |-> space, text |-> text, pending |-> pending, busy |-> TRUE]
           /\ r.busy = FALSE =>
                 r = [space |-> space, text |-> text, pending |-> pending, busy |-> FALSE]
OBVIOUS

\* The visitor is called with the least address left.
LEMMA CallPromised ==
    ASSUME IInv, AllStay, FramesStand, stack # <<>>, ~Inner.busy,
           NEW frame \in Frame,
           frame.space = Inner.space, frame.mode = Inner.mode,
           frame.text = Inner.text, frame.mode = "one" => frame.found = Inner.found,
           frame.mode = "scan" => Counted(frame, methods[frame.space]),
           Call(frame),
           NEW now, now = CallNow(Inner).pending,
           NEW a, a \in now, \A b \in now : a <= b,
           CallNow(frame).pending = now \ {a}
    PROVE  FramesStand' /\ Promise!Deliver
<1> DEFINE called == [frame EXCEPT !.busy = TRUE]
<1>1. /\ called \in Frame
      /\ called.space = frame.space /\ called.mode = frame.mode
      /\ called.text = frame.text /\ called.found = frame.found
      /\ called.pos = frame.pos /\ called.numFound = frame.numFound
      /\ called.busy = TRUE
    BY DEF Frame
<1>2. stack' = [stack EXCEPT ![Len(stack)] = called]
      /\ UNCHANGED <<methods, buckets>>
    BY DEF Call, memoVars
<1> HIDE DEF called
<1>3. FramesStand' /\ calls' = [calls EXCEPT ![Len(calls)] = CallNext(called)]
    <2>1. called.mode = "scan" => Counted(called, methods'[called.space])
        BY <1>1, <1>2 DEF Counted
    <2> QED
        BY <1>1, <1>2, <2>1, ChangedStand, ChangedCalls
<1>4. CallNow(frame).pending = PendingOf(frame, methods[frame.space],
                                 buckets[frame.space][BucketOf[frame.text]].results)
    BY DEF CallNow, CallOf
<1>5. PendingOf(called, methods'[called.space],
                buckets'[called.space][BucketOf[called.text]].results) = now \ {a}
    BY <1>1, <1>2, <1>4, SamePending
<1>6. CallNext(called) = [space |-> Inner.space, text |-> Inner.text,
                          pending |-> now \ {a}, busy |-> TRUE]
    BY <1>1, <1>5 DEF CallNext, CallOf
<1>7. CallNow(Inner) = [space |-> Inner.space, text |-> Inner.text,
                        pending |-> now, busy |-> Inner.busy]
    BY DEF CallNow, CallOf
<1>8. CallNext(called) = [CallNow(Inner) EXCEPT !.pending = now \ {a}, !.busy = TRUE]
    <2> DEFINE call == CallNow(Inner)
               delivered == [call EXCEPT !.pending = now \ {a}, !.busy = TRUE]
    <2>1. call = [space |-> Inner.space, text |-> Inner.text,
                  pending |-> now, busy |-> Inner.busy]
        BY <1>7
    <2> HIDE DEF call
    <2>2. /\ delivered \in [space : {Inner.space}, text : {Inner.text},
                            pending : {now \ {a}}, busy : BOOLEAN]
          /\ delivered.busy = TRUE
        BY <2>1
    <2> HIDE DEF delivered
    <2>3. delivered = [space |-> Inner.space, text |-> Inner.text,
                       pending |-> now \ {a}, busy |-> TRUE]
        BY <2>2, CallRecord
    <2> QED
        BY <1>6, <2>3, Zenon DEF call, delivered
<1>9. /\ ~Promise!Idle /\ ~Promise!Inner.busy
      /\ Promise!Inner = CallNow(Inner) /\ Promise!Inner.pending = now
    BY <1>7, InnermostCall
<1>10. calls' = [calls EXCEPT ![Len(calls)] =
                    [Promise!Inner EXCEPT !.pending = Promise!Inner.pending \ {a},
                                          !.busy = TRUE]]
    BY <1>3, <1>8, <1>9, Zenon
<1>11. UNCHANGED registered
    BY <1>2, RegisteredNow
<1> QED
    BY <1>3, <1>9, <1>10, <1>11, Zenon DEF Promise!Deliver

\* The innermost visit can rely on what it walks.
LEMMA InnerStands ==
    ASSUME IInv, FramesStand, stack # <<>>
    PROVE  /\ Inner.mode = "kept" =>
                 LET bucket == buckets[Inner.space][BucketOf[Inner.text]] IN
                 /\ bucket.results \in Seq(Nat)
                 /\ IsMatchList(methods[Inner.space], Inner.text, bucket.results,
                                Len(methods[Inner.space]))
           /\ Inner.mode = "one" => Inner.found[1] \in 1..Len(methods[Inner.space])
           /\ Inner.mode = "scan" => Counted(Inner, methods[Inner.space])
<1>1. Len(stack) \in 1..Len(stack)
    BY InnerFrame
<1>2. StandsNow(Inner)
    BY <1>1 DEF FramesStand, Inner
<1>3. ASSUME Inner.mode = "kept"
      PROVE  LET bucket == buckets[Inner.space][BucketOf[Inner.text]] IN
             /\ bucket.results \in Seq(Nat)
             /\ IsMatchList(methods[Inner.space], Inner.text, bucket.results,
                            Len(methods[Inner.space]))
    <2> DEFINE s == Inner.space
               b == BucketOf[Inner.text]
    <2>1. s \in Spaces /\ b \in Buckets
        BY <1>1, <1>3, OpenFrame DEF Inner
    <2>2. buckets[s][b] \in Bucket
        BY <2>1 DEF IInv, TypeOK
    <2>3. buckets[s][b].generation = generation[s] /\ buckets[s][b].text = Inner.text
        BY <1>2, <1>3 DEF StandsNow, Stands
    <2>4. IsMatchList(methods[s], Inner.text, buckets[s][b].results, Len(methods[s]))
        BY <2>1, <2>3 DEF IInv, MemoCoherent, Live
    <2> QED
        BY <2>2, <2>4 DEF Bucket
<1> QED
    BY <1>2, <1>3 DEF StandsNow, Stands

\* DispatchMemo::visit calls the visitor with the next result.
LEMMA DeliverKeptPromised ==
    ASSUME IInv, AllStay, FramesStand, DeliverKept
    PROVE  FramesStand' /\ Promise!Deliver
<1> DEFINE s == Inner.space
           list == methods[s]
           results == buckets[s][BucketOf[Inner.text]].results
           n == Len(results)
           i == Inner.pos + 1
           f == [k \in 1..n |-> list[results[k]]]
           frame == [Inner EXCEPT !.pos = i]
           now == PendingOf(Inner, list, results)
<1>1. /\ stack # <<>> /\ ~Inner.busy /\ Inner.mode = "kept"
      /\ Inner.pos < n
      /\ Call(frame)
    BY DEF DeliverKept, Walking, BucketFor
<1>2. Inner \in Frame /\ s \in Spaces /\ Inner.pos \in Nat
    BY <1>1, InnerFrame DEF Frame
<1>3. /\ frame \in Frame /\ frame.space = s /\ frame.mode = "kept"
      /\ frame.text = Inner.text /\ frame.pos = i
    BY <1>1, <1>2, SMTT(20) DEF Frame
<1>4. results \in Seq(Nat) /\ IsMatchList(list, Inner.text, results, Len(list))
    BY <1>1, InnerStands
<1>5. list \in Seq(Address) /\ \A j, k \in 1..Len(list) : j < k => list[j] < list[k]
    BY <1>2 DEF IInv, TypeOK, MethodsInOrder
<1>6. n \in Nat /\ i \in (Inner.pos + 1)..n
    BY <1>1, <1>2, <1>4, LenProperties
<1> HIDE DEF frame
<1>7. /\ now = {list[results[k]] : k \in (Inner.pos + 1)..n}
      /\ PendingOf(frame, list, results) = {list[results[k]] : k \in (i + 1)..n}
    <2> HIDE DEF list, results, i
    <2> QED
        BY <1>1, <1>3, PendingByMode
<1> HIDE DEF list, results, n, i, now
<1>8. /\ \A k \in 1..n : results[k] \in 1..Len(list)
      /\ \A j, k \in 1..n : j < k => results[j] < results[k]
    BY <1>4 DEF IsMatchList, n
<1>9. \A k \in 1..n : f[k] \in Int
    <2>1. \A k \in 1..Len(list) : list[k] \in Int
        BY <1>5, ElementOfSeq, ConstantsAssumption DEF Address
    <2> QED
        BY <1>8, <2>1
<1>10. \A j, k \in 1..n : j < k => f[j] < f[k]
    BY <1>5, <1>8
<1>11. \A j \in Nat : {f[k] : k \in (j + 1)..n} = {list[results[k]] : k \in (j + 1)..n}
    <2>1. \A j \in Nat : \A k \in (j + 1)..n : k \in 1..n
        BY <1>6
    <2> QED
        BY <2>1
<1>12. i \in Nat /\ \A j \in Nat : {f[k] : k \in (j + 1)..n} \subseteq Int
    <2>1. \A j \in Nat : \A k \in (j + 1)..n : k \in 1..n
        BY <1>6
    <2>2. \A j \in Nat : {f[k] : k \in (j + 1)..n} \subseteq Int
        <3> HIDE DEF f
        <3> QED
            BY <1>9, <2>1
    <2>3. i \in Nat
        BY <1>2 DEF i
    <2> QED
        BY <2>2, <2>3
<1>13. \A j \in (Inner.pos + 1)..(i - 1) : f[j] \notin Int
    BY <1>2 DEF i
<1>14. f[i] \in Int
    BY <1>2, <1>6, <1>9
<1> HIDE DEF f
<1>15. /\ f[i] \in Int \cap {f[k] : k \in (Inner.pos + 1)..n}
       /\ \A a \in Int \cap {f[k] : k \in (Inner.pos + 1)..n} : f[i] <= a
       /\ Int \cap {f[k] : k \in (i + 1)..n}
              = (Int \cap {f[k] : k \in (Inner.pos + 1)..n}) \ {f[i]}
    BY <1>2, <1>6, <1>9, <1>10, <1>13, <1>14, NextIsLeast
<1>16. /\ now = Int \cap {f[k] : k \in (Inner.pos + 1)..n}
       /\ PendingOf(frame, list, results) = Int \cap {f[k] : k \in (i + 1)..n}
    BY <1>2, <1>7, <1>11, <1>12
<1>17. /\ f[i] \in now /\ \A b \in now : f[i] <= b
       /\ PendingOf(frame, list, results) = now \ {f[i]}
    BY <1>15, <1>16
<1>18. CallNow(Inner).pending = now /\ CallNow(frame).pending = now \ {f[i]}
    BY <1>3, <1>17 DEF CallNow, CallOf, now, list, results
<1> QED
    BY <1>1, <1>3, <1>17, <1>18, CallPromised

\* visitMethod calls the visitor with the one method.
LEMMA DeliverOnePromised ==
    ASSUME IInv, AllStay, FramesStand, DeliverOne
    PROVE  FramesStand' /\ Promise!Deliver
<1> DEFINE s == Inner.space
           list == methods[s]
           results == buckets[s][BucketOf[Inner.text]].results
           a == list[Inner.found[1]]
           frame == [Inner EXCEPT !.pos = 1]
           now == PendingOf(Inner, list, results)
<1>1. /\ stack # <<>> /\ ~Inner.busy /\ Inner.mode = "one" /\ Inner.pos = 0
      /\ Call(frame)
    BY DEF DeliverOne, Walking
<1>2. Inner \in Frame /\ s \in Spaces
    BY <1>1, InnerFrame
<1>3. /\ frame \in Frame /\ frame.space = s /\ frame.mode = "one"
      /\ frame.text = Inner.text /\ frame.pos = 1 /\ frame.found = Inner.found
    BY <1>1, <1>2 DEF Frame
<1>4. a \in Int
    <2>1. Inner.found[1] \in 1..Len(list) /\ list \in Seq(Address)
        BY <1>1, <1>2, InnerStands DEF IInv, TypeOK
    <2> QED
        BY <2>1, ElementOfSeq, ConstantsAssumption DEF Address
<1> HIDE DEF frame
<1>5. now = {a} /\ PendingOf(frame, list, results) = {}
    <2> HIDE DEF list, results
    <2>1. now = {list[Inner.found[k]] : k \in (Inner.pos + 1)..1}
        BY <1>1, PendingByMode
    <2>2. PendingOf(frame, list, results)
              = {list[frame.found[k]] : k \in (frame.pos + 1)..1}
        BY <1>3, PendingByMode
    <2>3. (Inner.pos + 1)..1 = {1} /\ (frame.pos + 1)..1 = {}
        BY <1>1, <1>3
    <2> QED
        BY <2>1, <2>2, <2>3
<1>6. CallNow(Inner).pending = now /\ CallNow(frame).pending = now \ {a}
    BY <1>3, <1>5 DEF CallNow, CallOf
<1>7. a \in now /\ \A b \in now : a <= b
    BY <1>4, <1>5
<1> HIDE DEF a, now
<1> QED
    BY <1>1, <1>3, <1>6, <1>7, CallPromised

\* A walk over the table itself calls the visitor with the next method selected.
LEMMA WalkPromised ==
    ASSUME IInv, AllStay, FramesStand, stack # <<>>, ~Inner.busy,
           Inner.mode \in {"scan", "all"},
           NEW list, list = methods[Inner.space],
           NEW results, results = buckets[Inner.space][BucketOf[Inner.text]].results,
           NEW selected,
           \A f \in Frame :
               f.mode = Inner.mode /\ f.text = Inner.text
                  => PendingOf(f, list, results)
                         = selected \cap {list[k] : k \in (f.pos + 1)..Len(list)},
           NEW i \in (Inner.pos + 1)..Len(list), list[i] \in selected,
           \A j \in (Inner.pos + 1)..(i - 1) : list[j] \notin selected,
           NEW frame \in Frame, Call(frame),
           frame.space = Inner.space, frame.mode = Inner.mode,
           frame.text = Inner.text, frame.pos = i,
           frame.mode = "scan" => Counted(frame, list)
    PROVE  FramesStand' /\ Promise!Deliver
<1> DEFINE n == Len(list)
           now == PendingOf(Inner, list, results)
<1>1. Inner \in Frame /\ Inner.space \in Spaces /\ Inner.pos \in Nat
    BY InnerFrame DEF Frame
<1>2. list \in Seq(Address) /\ \A j, k \in 1..n : j < k => list[j] < list[k]
    BY <1>1 DEF IInv, TypeOK, MethodsInOrder
<1>3. n \in Nat /\ \A k \in 1..n : list[k] \in Int
    BY <1>2, LenProperties, ElementOfSeq, ConstantsAssumption DEF Address
<1>4. /\ now = selected \cap {list[k] : k \in (Inner.pos + 1)..n}
      /\ PendingOf(frame, list, results) = selected \cap {list[k] : k \in (i + 1)..n}
    BY <1>1
<1>5. CallNow(Inner).pending = now /\ CallNow(frame).pending = PendingOf(frame, list, results)
    BY DEF CallNow, CallOf
<1> HIDE DEF now, n
<1>6. i \in (Inner.pos + 1)..n
    BY DEF n
<1>7. /\ list[i] \in selected \cap {list[k] : k \in (Inner.pos + 1)..n}
      /\ \A a \in selected \cap {list[k] : k \in (Inner.pos + 1)..n} : list[i] <= a
      /\ selected \cap {list[k] : k \in (i + 1)..n}
             = (selected \cap {list[k] : k \in (Inner.pos + 1)..n}) \ {list[i]}
    <2> DEFINE pos == Inner.pos
    <2>1. pos \in Nat /\ i \in (pos + 1)..n /\ list[i] \in selected
        BY <1>1, <1>6
    <2>2. \A j \in (pos + 1)..(i - 1) : list[j] \notin selected
        OBVIOUS
    <2> HIDE DEF pos
    <2>3. LET Rest(p) == selected \cap {list[k] : k \in (p + 1)..n} IN
          /\ list[i] \in Rest(pos)
          /\ \A a \in Rest(pos) : list[i] <= a
          /\ Rest(i) = Rest(pos) \ {list[i]}
        BY <1>2, <1>3, <2>1, <2>2, NextIsLeast
    <2> QED
        BY <2>3 DEF pos
<1>8. /\ list[i] \in now /\ \A b \in now : list[i] <= b
      /\ CallNow(frame).pending = now \ {list[i]}
    BY <1>4, <1>5, <1>7
<1> QED
    BY <1>5, <1>8, CallPromised

\* The next match is one more of the methods passed.
LEMMA OneMoreCounted ==
    ASSUME NEW list \in Seq(Address),
           \A j, k \in 1..Len(list) : j < k => list[j] < list[k],
           NEW pos \in Nat, NEW i \in (pos + 1)..Len(list), NEW selected,
           list[i] \in selected,
           \A j \in (pos + 1)..(i - 1) : list[j] \notin selected
    PROVE  Cardinality(selected \cap {list[k] : k \in 1..i})
               = Cardinality(selected \cap {list[k] : k \in 1..pos}) + 1
<1> DEFINE passed == selected \cap {list[k] : k \in 1..pos}
<1>1. Len(list) \in Nat /\ \A k \in 1..Len(list) : list[k] \in Address
    BY LenProperties, ElementOfSeq
<1>2. /\ i \in Nat /\ i \in 1..Len(list)
      /\ \A k \in 1..pos : k \in 1..Len(list) /\ k < i
      /\ \A k \in 1..i : k \in 1..pos \/ k \in (pos + 1)..(i - 1) \/ k = i
      /\ \A k \in 1..pos : k \in 1..i
      /\ i \in 1..i
    BY <1>1
<1>3. passed \subseteq Address
    BY <1>1, <1>2
<1>4. IsFiniteSet(Address)
    BY FS_Interval, ConstantsAssumption DEF Address
<1>5. IsFiniteSet(passed)
    BY <1>3, <1>4, FS_Subset
<1>6. list[i] \notin passed
    <2>1. \A k \in 1..pos : list[k] < list[i]
        BY <1>2
    <2>2. \A k \in 1..Len(list) : list[k] \in Int
        BY <1>1, ConstantsAssumption DEF Address
    <2> QED
        BY <1>2, <2>1, <2>2
<1>7. selected \cap {list[k] : k \in 1..i} = passed \cup {list[i]}
    BY <1>2
<1> QED
    BY <1>5, <1>6, <1>7, FS_AddElement

\* dispatchParsed calls the visitor with the next match.
LEMMA DeliverScanPromised ==
    ASSUME IInv, AllStay, FramesStand, DeliverScan
    PROVE  FramesStand' /\ Promise!Deliver
<1> DEFINE list == methods[Inner.space]
           results == buckets[Inner.space][BucketOf[Inner.text]].results
           selected == Selects[Inner.text]
<1>1. stack # <<>> /\ ~Inner.busy /\ Inner.mode = "scan"
    BY DEF DeliverScan, Walking
<1> DEFINE found(i) == IF Inner.numFound < InlineResults
                       THEN Append(Inner.found, Narrow(i)) ELSE Inner.found
           frame(i) == [Inner EXCEPT !.pos = i, !.found = found(i),
                                     !.numFound = Inner.numFound + 1]
<1>2. PICK i \in (Inner.pos + 1)..Len(list) :
          /\ list[i] \in selected
          /\ \A j \in (Inner.pos + 1)..(i - 1) : list[j] \notin selected
          /\ Call(frame(i))
    BY DEF DeliverScan, Matches
<1>3. Inner \in Frame /\ Inner.space \in Spaces
    BY <1>1, InnerFrame
<1>4. Inner.found \in Seq(Nat) /\ Inner.numFound \in Nat /\ Inner.pos \in Nat
    BY <1>3 DEF Frame
<1>5. i \in Nat \ {0}
    BY <1>4
<1>6. found(i) \in Seq(Nat)
    BY <1>4, <1>5, NarrowFits, AppendProperties
<1>7. /\ frame(i) \in Frame /\ frame(i).space = Inner.space
      /\ frame(i).mode = Inner.mode /\ frame(i).text = Inner.text
      /\ frame(i).pos = i
    <2> HIDE DEF found, list
    <2>1. Inner.numFound + 1 \in Nat /\ i \in Nat
        BY <1>4, <1>5
    <2> QED
        BY <1>3, <1>6, <2>1 DEF Frame
<1>8. \A f \in Frame : f.mode = Inner.mode /\ f.text = Inner.text
             => PendingOf(f, list, results)
                    = selected \cap {list[k] : k \in (f.pos + 1)..Len(list)}
    <2> HIDE DEF list, results
    <2> QED
        BY <1>1, PendingByMode
<1>9. frame(i).mode = "scan" => Counted(frame(i), list)
    <2>1. Inner.pos \in 0..Len(list) /\ Counted(Inner, list)
        BY <1>1, InnerFrame, InnerStands DEF SoundFrame
    <2>2. list \in Seq(Address)
        BY <1>3 DEF IInv, TypeOK
    <2>3. \A j, k \in 1..Len(list) : j < k => list[j] < list[k]
        BY <1>3 DEF IInv, MethodsInOrder
    <2>4. frame(i).numFound = Inner.numFound + 1 /\ frame(i).pos = i
          /\ frame(i).text = Inner.text
        <3> HIDE DEF found, list
        <3> QED
            BY <1>3 DEF Frame
    <2> DEFINE pos == Inner.pos
    <2>5. /\ pos \in Nat /\ i \in (pos + 1)..Len(list) /\ list[i] \in selected
          /\ \A j \in (pos + 1)..(i - 1) : list[j] \notin selected
        BY <1>2, <1>4
    <2> HIDE DEF list, selected, pos
    <2>6. Cardinality(selected \cap {list[k] : k \in 1..i})
              = Cardinality(selected \cap {list[k] : k \in 1..pos}) + 1
        BY <2>2, <2>3, <2>5, OneMoreCounted, SMTT(20)
    <2> QED
        BY <2>1, <2>4, <2>6 DEF Counted, selected, pos
<1> HIDE DEF frame
<1> QED
    BY <1>1, <1>2, <1>7, <1>8, <1>9, WalkPromised

\* The visit without a pattern calls the visitor with the next method.
LEMMA DeliverAllPromised ==
    ASSUME IInv, AllStay, FramesStand, DeliverAll
    PROVE  FramesStand' /\ Promise!Deliver
<1> DEFINE list == methods[Inner.space]
           results == buckets[Inner.space][BucketOf[Inner.text]].results
           i == Inner.pos + 1
           frame == [Inner EXCEPT !.pos = i]
<1>1. /\ stack # <<>> /\ ~Inner.busy /\ Inner.mode = "all"
      /\ Inner.pos < Len(list) /\ Call(frame)
    BY DEF DeliverAll, Walking
<1>2. Inner \in Frame /\ Inner.space \in Spaces /\ Inner.pos \in Nat
    BY <1>1, InnerFrame DEF Frame
<1>3. list \in Seq(Address) /\ Len(list) \in Nat
    BY <1>2, LenProperties DEF IInv, TypeOK
<1>4. /\ frame \in Frame /\ frame.space = Inner.space /\ frame.mode = Inner.mode
      /\ frame.text = Inner.text /\ frame.pos = i
    BY <1>2, SMTT(20) DEF Frame
<1>5. \A k \in 1..Len(list) : list[k] \in Address
    <2> HIDE DEF list
    <2> QED
        BY <1>3, ElementOfSeq
<1>6. /\ i \in (Inner.pos + 1)..Len(list) /\ i \in 1..Len(list)
      /\ \A j \in (Inner.pos + 1)..(i - 1) : list[j] \notin Address
    BY <1>1, <1>2, <1>3
<1>7. ASSUME NEW f \in Frame, f.mode = Inner.mode, f.text = Inner.text
      PROVE  PendingOf(f, list, results)
                 = Address \cap {list[k] : k \in (f.pos + 1)..Len(list)}
    <2> HIDE DEF list, results
    <2>1. PendingOf(f, list, results) = {list[k] : k \in (f.pos + 1)..Len(list)}
        BY <1>1, <1>7, PendingByMode
    <2>2. \A k \in (f.pos + 1)..Len(list) : k \in 1..Len(list)
        BY <1>3 DEF Frame
    <2> QED
        BY <1>5, <2>1, <2>2
<1> HIDE DEF frame
<1> QED
    BY <1>1, <1>4, <1>5, <1>6, <1>7, WalkPromised, SMTT(20)

\* The visitor comes back with nothing more delivered.
LEMMA VisitorReturnsPromised ==
    ASSUME IInv, AllStay, FramesStand, VisitorReturns
    PROVE  FramesStand' /\ Promise!VisitorReturns
<1> DEFINE frame == [Inner EXCEPT !.busy = FALSE]
           now == CallNow(Inner)
<1>1. /\ stack # <<>> /\ Inner.busy
      /\ stack' = [stack EXCEPT ![Len(stack)] = frame]
      /\ UNCHANGED <<methods, buckets>>
    BY DEF VisitorReturns, Inner, memoVars
<1>2. Inner \in Frame
    BY <1>1, InnerFrame
<1>3. /\ frame \in Frame
      /\ frame.space = Inner.space /\ frame.mode = Inner.mode
      /\ frame.text = Inner.text /\ frame.pos = Inner.pos
      /\ frame.found = Inner.found /\ frame.numFound = Inner.numFound
      /\ frame.busy = FALSE
    BY <1>2 DEF Frame
<1> HIDE DEF frame
<1>4. FramesStand' /\ calls' = [calls EXCEPT ![Len(calls)] = CallNext(frame)]
    <2>1. frame.mode = "scan" => Counted(frame, methods'[frame.space])
        BY <1>1, <1>3, InnerStands DEF Counted
    <2> QED
        BY <1>1, <1>3, <2>1, ChangedStand, ChangedCalls
<1>5. now = [space |-> Inner.space, text |-> Inner.text,
             pending |-> now.pending, busy |-> Inner.busy]
    BY DEF CallNow, CallOf
<1>6. PendingOf(frame, methods'[frame.space],
                buckets'[frame.space][BucketOf[frame.text]].results) = now.pending
    BY <1>1, <1>3, SamePending DEF CallNow, CallOf
<1>7. CallNext(frame) = [space |-> Inner.space, text |-> Inner.text,
                         pending |-> now.pending, busy |-> FALSE]
    BY <1>3, <1>6 DEF CallNext, CallOf
<1>8. [now EXCEPT !.busy = FALSE] = [space |-> Inner.space, text |-> Inner.text,
                                     pending |-> now.pending, busy |-> FALSE]
    <2> DEFINE left == now.pending
               returned == [now EXCEPT !.busy = FALSE]
    <2>1. now = [space |-> Inner.space, text |-> Inner.text,
                 pending |-> left, busy |-> Inner.busy]
        BY <1>5
    <2> HIDE DEF now, left
    <2>2. /\ returned \in [space : {Inner.space}, text : {Inner.text},
                           pending : {left}, busy : BOOLEAN]
          /\ returned.busy = FALSE
        BY <2>1
    <2> HIDE DEF returned
    <2>3. returned = [space |-> Inner.space, text |-> Inner.text,
                      pending |-> left, busy |-> FALSE]
        BY <2>2, CallRecord
    <2> QED
        BY <2>3, Zenon DEF returned, left
<1>9. /\ ~Promise!Idle /\ Promise!Inner.busy
      /\ calls[Len(calls)] = now
    BY <1>1, <1>5, InnermostCall DEF Promise!Inner
<1> HIDE DEF now
<1>10. calls' = [calls EXCEPT ![Len(calls)] = [calls[Len(calls)] EXCEPT !.busy = FALSE]]
    BY <1>4, <1>7, <1>8, <1>9, Zenon
<1>11. UNCHANGED registered
    BY <1>1, RegisteredNow
<1> QED
    BY <1>4, <1>9, <1>10, <1>11 DEF Promise!VisitorReturns

\* A visit that returns or is left by an exception is closed.
LEMMA ClosePromised ==
    ASSUME IInv, AllStay, FramesStand, stack # <<>>, Pop, methods' = methods
    PROVE  FramesStand' /\ Promise!Close
<1>1. FramesStand' /\ calls' = SubSeq(calls, 1, Len(calls) - 1)
    BY ClosedStand, ClosedCalls
<1>2. UNCHANGED registered
    BY RegisteredNow
<1> QED
    BY <1>1, <1>2 DEF Promise!Close

\* A visitor's exception closes the visit.
LEMMA ThrowPromised ==
    ASSUME IInv, AllStay, FramesStand, Throw
    PROVE  FramesStand' /\ Promise!Throw
<1>1. stack # <<>> /\ Inner.busy /\ Pop /\ methods' = methods
    BY DEF Throw
<1>2. ~Promise!Idle /\ Promise!Inner.busy
    BY <1>1, InnermostCall DEF CallNow, CallOf
<1> QED
    BY <1>1, <1>2, ClosePromised DEF Promise!Throw

\* A visit returns only when nothing is left to deliver.
LEMMA ReturnPromised ==
    ASSUME IInv, AllStay, FramesStand, Return
    PROVE  FramesStand' /\ Promise!Return
<1> DEFINE list == methods[Inner.space]
           results == buckets[Inner.space][BucketOf[Inner.text]].results
           now == PendingOf(Inner, list, results)
<1>1. stack # <<>> /\ ~Inner.busy /\ Pop /\ methods' = methods
    BY DEF Return, ReturnKept, ReturnOne, ReturnNone, ReturnScan, ReturnAll, Walking,
           memoVars
<1>2. /\ Inner \in Frame /\ Inner.space \in Spaces /\ Inner.pos \in Nat
      /\ Len(list) \in Nat
    BY <1>1, InnerFrame, LenProperties DEF Frame, IInv, TypeOK
<1>3. now = {}
    <2>1. CASE ReturnKept
        <3>1. Inner.mode = "kept" /\ Inner.pos = Len(results)
            BY <2>1 DEF ReturnKept, Walking, BucketFor
        <3> HIDE DEF list, results
        <3>2. now = {list[results[k]] : k \in (Inner.pos + 1)..Len(results)}
            BY <3>1, PendingByMode
        <3> QED
            BY <1>2, <3>1, <3>2
    <2>2. CASE ReturnOne
        <3>1. Inner.mode = "one" /\ Inner.pos = 1
            BY <2>2 DEF ReturnOne, Walking
        <3> HIDE DEF list, results
        <3>2. now = {list[Inner.found[k]] : k \in (Inner.pos + 1)..1}
            BY <3>1, PendingByMode
        <3> QED
            BY <3>1, <3>2
    <2>3. CASE ReturnScan
        <3>1. /\ Inner.mode = "scan"
              /\ \A i \in (Inner.pos + 1)..Len(list) : list[i] \notin Selects[Inner.text]
            BY <2>3 DEF ReturnScan, Walking, Matches
        <3> HIDE DEF list, results
        <3>2. now = Selects[Inner.text] \cap {list[i] : i \in (Inner.pos + 1)..Len(list)}
            BY <3>1, PendingByMode
        <3> QED
            BY <3>1, <3>2
    <2>4. CASE ReturnAll
        <3>1. Inner.mode = "all" /\ Inner.pos = Len(list)
            BY <2>4 DEF ReturnAll, Walking
        <3> HIDE DEF list, results
        <3>2. now = {list[i] : i \in (Inner.pos + 1)..Len(list)}
            BY <3>1, PendingByMode
        <3> QED
            BY <1>2, <3>1, <3>2
    <2>5. CASE ReturnNone
        <3>1. Inner.mode = "none"
            BY <2>5 DEF ReturnNone, Walking
        <3> QED
            BY <3>1, PendingByMode
    <2> QED
        BY <2>1, <2>2, <2>3, <2>4, <2>5 DEF Return
<1>4. CallNow(Inner).pending = {} /\ CallNow(Inner).busy = Inner.busy
    BY <1>3 DEF CallNow, CallOf
<1>5. ~Promise!Idle /\ ~Promise!Inner.busy /\ Promise!Inner.pending = {}
    BY <1>1, <1>4, InnermostCall
<1> QED
    BY <1>1, <1>5, ClosePromised DEF Promise!Return

-----------------------------------------------------------------------------
\* Initially no space holds an address and no visit is open.
LEMMA InitPromised == Init => FramesStand /\ Promise!Init
<1> SUFFICES ASSUME Init
             PROVE  FramesStand /\ Promise!Init
    OBVIOUS
<1>1. stack = <<>> /\ methods = [s \in Spaces |-> <<>>] /\ Len(stack) = 0
    BY EmptySeq DEF Init
<1>2. FramesStand
    BY <1>1 DEF FramesStand
<1>3. Range(<<>>) = {}
    BY DEF Range
<1>4. registered = [s \in Spaces |-> {}]
    BY <1>1, <1>3, RegisteredNow
<1>5. calls = <<>>
    BY <1>1, InitIInv, InnermostCall DEF Promise!Idle
<1> QED
    BY <1>2, <1>4, <1>5 DEF Promise!Init

\* Every step is a step of the promise, or one it does not see.
LEMMA NextPromised ==
    ASSUME IInv, IInv', FramesStand, [Next]_vars
    PROVE  FramesStand' /\ [Promise!Next]_(Promise!absVars)
<1> USE DEF Promise!Address, Promise!Literals, Promise!Texts, Address, Literals, Texts
<1>1. CASE UNCHANGED vars
    <2>1. UNCHANGED <<methods, generation, buckets, stack>>
        BY <1>1 DEF vars, memoVars
    <2>2. AllStay
        BY <2>1 DEF AllStay, FrameStays
    <2>3. FramesStand' /\ UNCHANGED <<registered, calls>>
        BY <2>1, <2>2, SameStand, SameCalls, RegisteredNow
    <2> QED
        BY <2>3 DEF Promise!absVars
<1>2. CASE Next
    <2> USE <1>2, StepKeepsFrames
    <2>1. ASSUME NEW s \in Spaces, NEW a \in Address, Add(s, a) \/ Remove(s, a)
          PROVE  FramesStand' /\ Promise!Next
        BY <2>1, AddPromised, RemovePromised DEF Promise!Next
    <2>2. ASSUME NEW s \in Spaces, NEW t \in Texts,
                 VisitKept(s, t) \/ VisitOne(s, t)
          PROVE  FramesStand' /\ Promise!Next
        BY <2>2, VisitKeptPromised, VisitOnePromised DEF Promise!Next
    <2>3. ASSUME NEW s \in Spaces, NEW t \in Texts,
                 VisitNone(s, t) \/ VisitScan(s, t)
          PROVE  FramesStand' /\ Promise!Next
        BY <2>3, VisitNonePromised, VisitScanPromised DEF Promise!Next
    <2>4. ASSUME NEW s \in Spaces, VisitAll(s) \/ Construct(s)
          PROVE  FramesStand' /\ Promise!Next
        BY <2>4, VisitAllPromised, SpacesPromised DEF Promise!Next
    <2>5. ASSUME NEW dst \in Spaces, NEW src \in Spaces,
                 Copy(dst, src) \/ Move(dst, src)
          PROVE  FramesStand' /\ Promise!Next
        BY <2>5, SpacesPromised DEF Promise!Next
    <2>6. ASSUME Deliver
          PROVE  FramesStand' /\ Promise!Next
        BY <2>6, DeliverKeptPromised, DeliverOnePromised, DeliverScanPromised,
           DeliverAllPromised DEF Deliver, Promise!Next
    <2>7. ASSUME VisitorReturns \/ Return \/ Throw
          PROVE  FramesStand' /\ Promise!Next
        BY <2>7, VisitorReturnsPromised, ReturnPromised, ThrowPromised
            DEF Promise!Next
    <2> QED
        BY <2>1, <2>2, <2>3, <2>4, <2>5, <2>6, <2>7 DEF Next
<1> QED
    BY <1>1, <1>2

\* The table with its memo does what the plain set of addresses would: every
\* visit, from a bucket, the index or a scan, nested or not, hands exactly the
\* addresses its pattern matches to the visitor, once each, in bytewise order.
THEOREM ImplementsPromise == Spec => DeliversAsPromised
<1>1. Init => FramesStand /\ Promise!Init
    BY InitPromised
<1>2. IInv /\ IInv' /\ FramesStand /\ [Next]_vars
          => FramesStand' /\ [Promise!Next]_(Promise!absVars)
    BY NextPromised
<1> QED
    BY <1>1, <1>2, Invariance, PTL DEF Spec, DeliversAsPromised, Promise!Spec

-----------------------------------------------------------------------------
\* A complete list of matches is as long as there are addresses that match.
LEMMA ListCounts ==
    ASSUME NEW list \in Seq(Address),
           \A j, k \in 1..Len(list) : j < k => list[j] < list[k],
           NEW t, NEW positions \in Seq(Nat),
           IsMatchList(list, t, positions, Len(list))
    PROVE  Len(positions) = Cardinality(Matching(t) \cap Range(list))
<1> DEFINE n == Len(positions)
           matched == Matching(t) \cap Range(list)
           f == [k \in 1..n |-> list[positions[k]]]
<1>1. n \in Nat /\ \A k \in 1..n : positions[k] \in 1..Len(list)
    BY LenProperties DEF IsMatchList
<1>2. \A k \in 1..Len(list) : list[k] \in Int
    BY ElementOfSeq, ConstantsAssumption DEF Address
<1>3. {list[positions[k]] : k \in 1..n} = matched
    BY MatchedAddresses
<1> HIDE DEF n, matched
<1>4. f \in [1..n -> matched] /\ \A a \in matched : \E k \in 1..n : f[k] = a
    BY <1>3
<1>5. \A j, k \in 1..n : j < k => positions[j] < positions[k]
    BY DEF IsMatchList, n
<1>6. \A j, k \in 1..n : j < k => f[j] < f[k]
    BY <1>1, <1>5
<1>7. \A k \in 1..n : f[k] \in Int
    BY <1>1, <1>2
<1> HIDE DEF f
<1>8. ASSUME NEW j \in 1..n, NEW k \in 1..n, f[j] = f[k]
      PROVE  j = k
    <2>1. ~(f[j] < f[k]) /\ ~(f[k] < f[j])
        BY <1>7, <1>8
    <2>2. ~(j < k) /\ ~(k < j)
        BY <1>6, <2>1
    <2> QED
        BY <1>1, <2>2
<1>9. f \in Bijection(1..n, matched)
    BY <1>4, <1>8 DEF Bijection, Injection, Surjection, IsInjective
<1>10. IsFiniteSet(1..n) /\ Cardinality(1..n) = n
    BY <1>1, FS_Interval
<1>11. Cardinality(matched) = Cardinality(1..n)
    BY <1>9, <1>10, FS_Bijection DEF ExistsBijection
<1> QED
    BY <1>10, <1>11 DEF n, matched

\* A visit of a pattern returns with the right count, by whichever way.
LEMMA CountAtReturn ==
    ASSUME IInv, FramesStand, Return, Inner.mode # "all"
    PROVE  NumReturned = NumMatched(Inner.space, Inner.text)
<1> DEFINE list == methods[Inner.space]
           results == buckets[Inner.space][BucketOf[Inner.text]].results
           matched == Matching(Inner.text) \cap Range(list)
<1>1. stack # <<>>
    BY DEF Return, ReturnKept, ReturnOne, ReturnNone, ReturnScan, ReturnAll, Walking
<1>2. /\ list \in Seq(Address) /\ Len(list) \in Nat
      /\ DOMAIN list = 1..Len(list)
      /\ \A j, k \in 1..Len(list) : j < k => list[j] < list[k]
      /\ Inner \in Frame
      /\ SoundFrame(Inner, list)
    BY <1>1, InnerFrame, LenProperties DEF IInv, TypeOK, MethodsInOrder
<1>3. NumMatched(Inner.space, Inner.text) = Cardinality(matched)
    BY DEF NumMatched, Registered
<1>4. CASE ReturnKept
    <2>1. Inner.mode = "kept"
        BY <1>4 DEF ReturnKept, Walking
    <2>2. results \in Seq(Nat) /\ IsMatchList(list, Inner.text, results, Len(list))
        BY <1>1, <2>1, InnerStands
    <2>3. NumReturned = Len(results)
        BY <2>1 DEF NumReturned, BucketFor
    <2> HIDE DEF list, results
    <2> QED
        BY <1>2, <1>3, <2>2, <2>3, ListCounts
<1>5. CASE ReturnOne \/ ReturnNone
    <2>1. Inner.mode \in {"one", "none"}
        BY <1>5 DEF ReturnOne, ReturnNone, Walking
    <2>2. Inner.text \in Literals /\ Inner.text \notin Wildcards
        BY <1>2, <2>1, ConstantsAssumption DEF SoundFrame, Literals
    <2>3. matched = IF Inner.mode = "one" THEN {Inner.text} ELSE {}
        <3>1. \A a \in Range(list) : a \in Address
            <4> HIDE DEF list
            <4> QED
                BY <1>2, ElementOfSeq DEF Range
        <3>2. Matching(Inner.text) = {Inner.text} \cap Address
            BY <2>2 DEF Matching
        <3>3. Inner.text \in Range(list) <=> Inner.mode = "one"
            BY <1>2, <2>1 DEF SoundFrame
        <3> HIDE DEF list
        <3> QED
            BY <3>1, <3>2, <3>3
    <2>4. NumReturned = IF Inner.mode = "one" THEN 1 ELSE 0
        BY <2>1 DEF NumReturned
    <2> HIDE DEF matched
    <2> QED
        BY <1>3, <2>3, <2>4, FS_EmptySet, FS_Singleton
<1>6. CASE ReturnScan
    <2>1. /\ Inner.mode = "scan"
          /\ \A i \in (Inner.pos + 1)..Len(list) : list[i] \notin Selects[Inner.text]
        BY <1>6 DEF ReturnScan, Walking, Matches
    <2>2. /\ Counted(Inner, list) /\ Inner.text \in Wildcards
          /\ Inner.pos \in 0..Len(list)
        BY <1>1, <1>2, <2>1, InnerStands DEF SoundFrame
    <2>3. NumReturned = Inner.numFound /\ Matching(Inner.text) = Selects[Inner.text]
        BY <2>1, <2>2 DEF NumReturned, Matching
    <2> HIDE DEF list
    <2>4. matched = Selects[Inner.text] \cap {list[k] : k \in 1..Inner.pos}
        <3>1. \A k \in 1..Len(list) : k \in 1..Inner.pos \/ k \in (Inner.pos + 1)..Len(list)
            BY <1>2, <2>2
        <3>2. \A k \in 1..Inner.pos : k \in 1..Len(list)
            BY <1>2, <2>2
        <3> QED
            BY <1>2, <2>1, <2>3, <3>1, <3>2 DEF Range
    <2> HIDE DEF matched
    <2> QED
        BY <1>3, <2>2, <2>3, <2>4 DEF Counted
<1>7. CASE ReturnAll
    BY <1>7 DEF ReturnAll, Walking
<1> QED
    BY <1>4, <1>5, <1>6, <1>7 DEF Return

\* What matched says of every visit of a pattern that returns is how many
\* registered addresses the pattern matches, whether the visit was answered
\* from a bucket, by the index or its absence, or by a scan.
THEOREM CountsMatches == Spec => ReturnsMatchCount
<1>1. Init => FramesStand
    BY InitPromised
<1>2. IInv /\ IInv' /\ FramesStand /\ [Next]_vars => FramesStand'
    BY NextPromised
<1>3. IInv /\ FramesStand /\ [Next]_vars
          => [Return /\ Inner.mode # "all" =>
                 NumReturned = NumMatched(Inner.space, Inner.text)]_vars
    BY CountAtReturn
<1> QED
    BY <1>1, <1>2, <1>3, Invariance, PTL DEF Spec, ReturnsMatchCount
=============================================================================
