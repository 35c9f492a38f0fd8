----------------------- MODULE ClassBodyParserProofs -----------------------
(****************************************************************************)
(* Theorems about ClassBodyParser, for every pool, length, count and menu   *)
(* of flags, and however deep annotations and arrays nest.                  *)
(****************************************************************************)
EXTENDS ClassBodyParser, SequenceTheorems, FiniteSetTheorems, TLAPS

(* The loops that may be the k-th from the outside.                         *)
LoopsAt(k) ==
    IF k = 1 THEN {"interfaces", "fields"}
    ELSE IF k = 2 THEN {"attributes"}
    ELSE IF k = 3 THEN {"annotations"}
    ELSE {"pairs", "values"}

(* Loops nest in one order only.  All properties rest on this.              *)
LoopsNest ==
    /\ \A d \in 1 .. Len(stack) : stack[d].loop \in LoopsAt(Len(stack) + 1 - d)
    /\ phase \in {"header", "fields"} => stack = <<>>

(* The cursor is inside the buffer, and so are the interfaces that have yet *)
(* to be read, which were ensured all at once.  No loop is entered there.   *)
CursorInv ==
    /\ ptr <= end
    /\ \A d \in 1 .. Len(stack) :
          stack[d].loop = "interfaces" =>
              Len(stack) = 1 /\ ptr + 2 * stack[1].left <= end

(* Whatever is inside of a loop of attributes is inside of an attribute of  *)
(* annotations, the one that was read last.                                 *)
AttributeInv ==
    /\ Len(stack) > 2 => attribute.annotations
    /\ AttributesEndWhereDeclared

(* The bytes that each depth has cost.                                      *)
DepthInv ==
    /\ phase = "fields" => ptr >= 8
    /\ Len(stack) = 1 /\ stack[1].loop = "fields" => ptr >= 10
    /\ Len(stack) = 1 => ptr >= 8
    /\ Len(stack) = 2 => ptr >= 18
    /\ Len(stack) = 3 => ptr >= 26
    /\ DepthBoundedByBytes

FlagsInv ==
    /\ ClassAllowed(accessFlags)
    /\ \A d \in 1 .. Len(stack) :
          stack[d].loop = "attributes" => FieldAllowed(stack[d].flags)

BodyInv ==
    /\ TypeOK
    /\ LoopsNest
    /\ CursorInv
    /\ AttributeInv
    /\ DepthInv
    /\ FlagsInv

------------------------------------------------------------------------------
(* The reader.                                                              *)

LEMMA ModBelow ==
    ASSUME NEW m \in Nat \ {0}, NEW n \in 0 .. m - 1 PROVE n % m = n
OBVIOUS

(* As long as the cursor is inside the buffer, ensure does what it says.    *)
LEMMA EnsuredIsInside ==
    ASSUME TypeOK, NEW p \in Nat, p <= end, NEW n \in Nat, ensure(p, n)
    PROVE  p + n <= end
<1>1. end \in Nat /\ end - p \in 0 .. UInt32 - 1
    BY UInt32Assumption DEF TypeOK
<1>2. remaining(p) = end - p
    BY <1>1, ModBelow, UInt32Assumption DEF remaining
<1>3. QED
    BY <1>1, <1>2 DEF ensure

(* Arithmetic of depths, for the provers.                                   *)
LEMMA Depths ==
    ASSUME NEW n \in Nat
    PROVE  /\ n \notin {0, 1, 2, 3} => n > 3
           /\ n > 3 => n # 1
           /\ n - 1 = 2 => n > 2
           /\ \A d \in 1 .. n - 1 :
                 /\ d + 1 \in 1 .. n /\ n # 1
                 /\ (n - 1) + 1 - d = n + 1 - (d + 1)
OBVIOUS

(* The stack.                                                               *)
LEMMA HeadOfStack ==
    ASSUME TypeOK, NEW loops, InLoop(loops)
    PROVE  /\ stack # <<>> /\ Len(stack) \in Nat \ {0}
           /\ Head(stack) = stack[1] /\ stack[1] \in Frames
           /\ stack[1].loop \in loops
<1>1. stack \in Seq(Frames) /\ stack # <<>> /\ Head(stack).loop \in loops
    BY DEF TypeOK, InLoop
<1>2. Len(stack) \in Nat \ {0}
    BY <1>1, EmptySeq
<1>3. Head(stack) = stack[1] /\ stack[1] \in Frames
    BY <1>1, <1>2, ElementOfSeq
<1>4. QED
    BY <1>1, <1>2, <1>3

(* An iteration of a loop changes nothing but its counter.                  *)
LEMMA SpentStack ==
    ASSUME TypeOK, NEW loops, Iterating(loops)
    PROVE  /\ Spent \in Seq(Frames) /\ Len(Spent) = Len(stack)
           /\ Spent[1].left = stack[1].left - 1
           /\ \A d \in 1 .. Len(stack) :
                 /\ Spent[d].loop = stack[d].loop
                 /\ Spent[d].flags = stack[d].flags
<1>1. /\ stack # <<>> /\ Len(stack) \in Nat \ {0} /\ stack \in Seq(Frames)
      /\ Head(stack) = stack[1] /\ stack[1] \in Frames /\ stack[1].left > 0
    BY HeadOfStack DEF Iterating, TypeOK
<1> DEFINE top == [Head(stack) EXCEPT !.left = @ - 1]
<1>2. /\ top \in Frames /\ top.left = stack[1].left - 1
      /\ top.loop = stack[1].loop /\ top.flags = stack[1].flags
    BY <1>1 DEF Frames
<1>3. /\ Tail(stack) \in Seq(Frames) /\ Len(Tail(stack)) = Len(stack) - 1
      /\ \A d \in 1 .. Len(stack) - 1 : Tail(stack)[d] = stack[d + 1]
    BY <1>1, HeadTailProperties
<1>4. <<top>> \in Seq(Frames) /\ Len(<<top>>) = 1 /\ <<top>>[1] = top
    BY <1>2
<1>5. Spent = <<top>> \o Tail(stack)
    BY DEF Spent
<1> HIDE DEF top
<1>6. /\ Spent \in Seq(Frames) /\ Len(Spent) = 1 + (Len(stack) - 1)
      /\ \A d \in 1 .. 1 + (Len(stack) - 1) :
            Spent[d] = IF d <= 1 THEN <<top>>[d] ELSE Tail(stack)[d - 1]
    BY <1>3, <1>4, <1>5, ConcatProperties
<1>7. Spent[1] = top
    BY <1>1, <1>4, <1>6
<1>8. \A d \in 2 .. Len(stack) : Spent[d] = stack[d]
    BY <1>1, <1>3, <1>6
<1>9. QED
    BY <1>1, <1>2, <1>6, <1>7, <1>8

(* An iteration that enters a loop.                                         *)
LEMMA EnteredStack ==
    ASSUME TypeOK, NEW loops, Iterating(loops), NEW loop \in Loops,
           NEW count \in Nat, NEW flags \in {{}} \cup FieldFlags,
           Enter(loop, count, flags)
    PROVE  /\ stack' \in Seq(Frames) /\ stack' # <<>>
           /\ Len(stack') = Len(stack) + 1
           /\ stack'[1] = Frame(loop, count, flags)
           /\ \A d \in 2 .. Len(stack) + 1 :
                 /\ stack'[d].loop = stack[d - 1].loop
                 /\ stack'[d].flags = stack[d - 1].flags
<1> DEFINE top == Frame(loop, count, flags)
<1>1. Len(stack) \in Nat \ {0}
    BY HeadOfStack DEF Iterating
<1>2. /\ Spent \in Seq(Frames) /\ Len(Spent) = Len(stack)
      /\ \A d \in 1 .. Len(stack) :
            Spent[d].loop = stack[d].loop /\ Spent[d].flags = stack[d].flags
    BY SpentStack
<1>3. top \in Frames
    BY DEF Frame, Frames
<1>4. stack' = <<top>> \o Spent
    BY DEF Enter
<1> HIDE DEF top
<1>5. <<top>> \in Seq(Frames) /\ Len(<<top>>) = 1 /\ <<top>>[1] = top
    BY <1>3
<1>6. /\ stack' \in Seq(Frames) /\ Len(stack') = 1 + Len(stack)
      /\ \A d \in 1 .. 1 + Len(stack) :
            stack'[d] = IF d <= 1 THEN <<top>>[d] ELSE Spent[d - 1]
    BY <1>2, <1>4, <1>5, ConcatProperties
<1>7. stack'[1] = top /\ \A d \in 2 .. Len(stack) + 1 : stack'[d] = Spent[d - 1]
    BY <1>1, <1>5, <1>6
<1>8. stack' # <<>>
    BY <1>1, <1>6, EmptySeq
<1>9. QED
    BY <1>1, <1>2, <1>6, <1>7, <1>8 DEF top

(* The end of a loop.                                                       *)
LEMMA LeftStack ==
    ASSUME TypeOK, NEW loops, InLoop(loops), stack' = Tail(stack)
    PROVE  /\ stack' \in Seq(Frames) /\ Len(stack') = Len(stack) - 1
           /\ stack' = <<>> <=> Len(stack) = 1
           /\ \A d \in 1 .. Len(stack) - 1 : stack'[d] = stack[d + 1]
<1>1. stack # <<>> /\ Len(stack) \in Nat \ {0} /\ stack \in Seq(Frames)
    BY HeadOfStack DEF TypeOK
<1>2. /\ stack' \in Seq(Frames) /\ Len(stack') = Len(stack) - 1
      /\ \A d \in 1 .. Len(stack) - 1 : stack'[d] = stack[d + 1]
    BY <1>1, HeadTailProperties
<1>3. QED
    BY <1>1, <1>2, EmptySeq
------------------------------------------------------------------------------
(* An iteration that enters no loop keeps the invariant, if it keeps the    *)
(* cursor and the attribute right.                                          *)
LEMMA ContinueKeepsInv ==
    ASSUME BodyInv, NEW loops, Iterating(loops), Continue,
           UNCHANGED <<end, phase, cp, accessFlags>>,
           ptr' \in Nat, ptr' >= ptr, CursorInv',
           attribute' \in Attribute, AttributeInv'
    PROVE  BodyInv'
<1>1. /\ phase = "loops" /\ Len(stack) \in Nat \ {0}
    BY HeadOfStack DEF Iterating, InLoop, BodyInv
<1>2. /\ stack' \in Seq(Frames) /\ Len(stack') = Len(stack)
      /\ \A d \in 1 .. Len(stack) :
            stack'[d].loop = stack[d].loop /\ stack'[d].flags = stack[d].flags
    BY SpentStack DEF BodyInv, Continue
<1>3. stack' # <<>>
    BY <1>1, <1>2, EmptySeq
<1>4. TypeOK'
    BY <1>2, <1>3 DEF BodyInv, TypeOK
<1>5. LoopsNest'
    BY <1>1, <1>2 DEF BodyInv, LoopsNest
<1>6. DepthInv'
  <2>1. ptr \in Nat
      BY DEF BodyInv, TypeOK
  <2>2. stack'[1].loop = stack[1].loop
      BY <1>1, <1>2
  <2>3. QED
      BY <1>1, <1>2, <2>1, <2>2 DEF BodyInv, DepthInv, DepthBoundedByBytes
<1>7. FlagsInv'
    BY <1>1, <1>2 DEF BodyInv, FlagsInv, FieldAllowed
<1>8. QED
    BY <1>4, <1>5, <1>6, <1>7 DEF BodyInv

(* An iteration that enters a loop keeps it, if the loop may be there, and  *)
(* the step has read enough.                                                *)
LEMMA EnterKeepsInv ==
    ASSUME BodyInv, NEW loops \in SUBSET Loops, Iterating(loops),
           "interfaces" \notin loops,
           NEW loop \in LoopsAt(Len(stack) + 1) \cap Loops,
           NEW count \in Nat, NEW flags \in {{}} \cup FieldFlags,
           Enter(loop, count, flags),
           loop = "attributes" => FieldAllowed(flags),
           UNCHANGED <<end, phase, cp, accessFlags>>,
           ptr' \in Nat, ptr' <= end, DepthInv',
           attribute' \in Attribute, AttributeInv'
    PROVE  BodyInv'
<1>1. /\ phase = "loops" /\ Len(stack) \in Nat \ {0}
      /\ stack[1].loop \in loops
    BY HeadOfStack DEF Iterating, InLoop, BodyInv
<1>2. /\ stack' \in Seq(Frames) /\ stack' # <<>> /\ Len(stack') = Len(stack) + 1
      /\ stack'[1].loop = loop /\ stack'[1].flags = flags
      /\ \A d \in 2 .. Len(stack) + 1 :
            /\ stack'[d].loop = stack[d - 1].loop
            /\ stack'[d].flags = stack[d - 1].flags
  <2>1. TypeOK /\ loop \in Loops
      BY DEF BodyInv
  <2>2. /\ stack' \in Seq(Frames) /\ stack' # <<>> /\ Len(stack') = Len(stack) + 1
        /\ stack'[1] = Frame(loop, count, flags)
        /\ \A d \in 2 .. Len(stack) + 1 :
              /\ stack'[d].loop = stack[d - 1].loop
              /\ stack'[d].flags = stack[d - 1].flags
      BY <2>1, EnteredStack
  <2>3. QED
      BY <2>2 DEF Frame
<1>3. TypeOK'
    BY <1>2 DEF BodyInv, TypeOK
<1>4. LoopsNest'
  <2> SUFFICES ASSUME NEW d \in 1 .. Len(stack')
               PROVE  stack'[d].loop \in LoopsAt(Len(stack') + 1 - d)
      BY <1>1 DEF LoopsNest
  <2>1. CASE d = 1
      BY <1>1, <1>2, <2>1
  <2>2. CASE d # 1
    <3>1. d - 1 \in 1 .. Len(stack) /\ d \in 2 .. Len(stack) + 1
        BY <1>1, <1>2, <2>2
    <3>2. Len(stack') + 1 - d = Len(stack) + 1 - (d - 1)
        BY <1>1, <1>2
    <3>3. stack[d - 1].loop \in LoopsAt(Len(stack) + 1 - (d - 1))
        BY <3>1 DEF BodyInv, LoopsNest
    <3>4. QED
        BY <1>2, <3>1, <3>2, <3>3
  <2>3. QED
      BY <2>1, <2>2
<1>5. CursorInv'
  <2> SUFFICES ASSUME NEW d \in 1 .. Len(stack')
               PROVE  stack'[d].loop # "interfaces"
      BY DEF CursorInv
  <2>1. CASE d = 1
      BY <1>1, <1>2, <2>1 DEF LoopsAt
  <2>2. CASE d # 1
    <3>1. d - 1 \in 1 .. Len(stack) /\ d \in 2 .. Len(stack) + 1
        BY <1>1, <1>2, <2>2
    <3>2. stack[d - 1].loop # "interfaces"
      <4>1. CASE Len(stack) = 1
          BY <1>1, <3>1, <4>1
      <4>2. CASE Len(stack) # 1
          BY <3>1, <4>2 DEF BodyInv, CursorInv
      <4>3. QED
          BY <4>1, <4>2
    <3>3. QED
        BY <1>2, <3>1, <3>2
  <2>3. QED
      BY <2>1, <2>2
<1>6. FlagsInv'
  <2> SUFFICES ASSUME NEW d \in 1 .. Len(stack'), stack'[d].loop = "attributes"
               PROVE  FieldAllowed(stack'[d].flags)
      BY DEF BodyInv, FlagsInv, FieldAllowed
  <2>1. CASE d = 1
      BY <1>2, <2>1
  <2>2. CASE d # 1
    <3>1. d - 1 \in 1 .. Len(stack) /\ d \in 2 .. Len(stack) + 1
        BY <1>1, <1>2, <2>2
    <3>2. QED
        BY <1>2, <3>1 DEF BodyInv, FlagsInv
  <2>3. QED
      BY <2>1, <2>2
<1>7. QED
    BY <1>3, <1>4, <1>5, <1>6 DEF BodyInv

(* An exception, the end of the process, and nothing at all.                *)
LEMMA StopKeepsInv ==
    ASSUME BodyInv, Truncated \/ Rejected \/ Crashes \/ UNCHANGED vars
    PROVE  BodyInv'
<1>1. /\ ptr' = ptr /\ end' = end /\ cp' = cp /\ accessFlags' = accessFlags
      /\ stack' = stack /\ attribute' = attribute
      /\ phase' = phase \/ phase' \in {"truncated", "bad_format", "crashed"}
    BY DEF Truncated, Rejected, Crashes, Throw, vars, readerVars, bodyVars
<1>2. TypeOK'
    BY <1>1 DEF BodyInv, TypeOK, Ended
<1>3. LoopsNest' /\ CursorInv' /\ DepthInv' /\ FlagsInv'
    BY <1>1
    DEF BodyInv, LoopsNest, CursorInv, DepthInv, DepthBoundedByBytes,
        FlagsInv, FieldAllowed
<1>4. AttributeInv'
    BY <1>1
    DEF BodyInv, AttributeInv, AttributesEndWhereDeclared, InLoop
<1>5. QED
    BY <1>2, <1>3, <1>4 DEF BodyInv
------------------------------------------------------------------------------
(* How deep each loop is.                                                   *)
LEMMA LevelOfHead ==
    ASSUME BodyInv, NEW loops, InLoop(loops)
    PROVE  /\ Len(stack) \in Nat \ {0}
           /\ stack[1].loop \in loops
           /\ stack[1].loop \in LoopsAt(Len(stack))
<1>1. Len(stack) \in Nat \ {0} /\ stack[1].loop \in loops
    BY HeadOfStack DEF BodyInv
<1>2. stack[1].loop \in LoopsAt(Len(stack) + 1 - 1)
    BY <1>1 DEF BodyInv, LoopsNest
<1>3. Len(stack) + 1 - 1 = Len(stack)
    BY <1>1
<1>4. QED
    BY <1>1, <1>2, <1>3

(* What the conditions on the flags of a class come to.                     *)
LEMMA ClassFlagsExact ==
    ASSUME NEW flags
    PROVE  ClassFlagsOK(flags) <=> ClassAllowed(flags)
BY DEF ClassFlagsOK, ClassAllowed

LEMMA HeaderKeepsInv == BodyInv /\ ClassHeader => BodyInv'
<1> SUFFICES ASSUME BodyInv, ClassHeader PROVE BodyInv'
    OBVIOUS
<1>1. TypeOK /\ ptr \in Nat /\ ptr <= end /\ end \in Nat
    BY UInt32Assumption DEF BodyInv, CursorInv, TypeOK
<1>2. PICK count \in Counts : /\ ensure(ptr + 8, 2 * count)
                              /\ stack' = <<Frame("interfaces", count, {})>>
    BY DEF ClassHeader
<1>3. count \in Nat /\ 2 * count \in Nat
    BY BodyAssumption
<1>4. ptr + 8 <= end
    BY <1>1, EnsuredIsInside DEF ClassHeader
<1>5. (ptr + 8) + 2 * count <= end
    BY <1>1, <1>2, <1>3, <1>4, EnsuredIsInside
<1>6. /\ ptr' = ptr + 8 /\ end' = end /\ cp' = cp /\ attribute' = attribute
      /\ phase' = "loops" /\ accessFlags' \in ClassFlags
      /\ ClassFlagsOK(accessFlags')
    BY DEF ClassHeader, Advance
<1>7. /\ stack' \in Seq(Frames) /\ Len(stack') = 1 /\ stack' # <<>>
      /\ stack'[1].loop = "interfaces" /\ stack'[1].left = count
  <2>1. Frame("interfaces", count, {}) \in Frames
      BY <1>3 DEF Frame, Frames, Loops
  <2>2. QED
      BY <1>2, <2>1 DEF Frame
<1>8. Head(stack') = stack'[1]
    BY <1>7
<1>9. TypeOK'
    BY <1>1, <1>6, <1>7 DEF TypeOK
<1>10. LoopsNest' /\ CursorInv' /\ DepthInv'
    BY <1>1, <1>3, <1>5, <1>6, <1>7
    DEF LoopsNest, LoopsAt, CursorInv, DepthInv, DepthBoundedByBytes
<1>11. AttributeInv'
    BY <1>7, <1>8 DEF AttributeInv, AttributesEndWhereDeclared, InLoop
<1>12. FlagsInv'
  <2>1. ClassAllowed(accessFlags')
      BY <1>6, ClassFlagsExact
  <2>2. QED
      BY <1>7, <2>1 DEF FlagsInv, ClassAllowed
<1>13. QED
    BY <1>9, <1>10, <1>11, <1>12 DEF BodyInv

LEMMA InterfaceKeepsInv == BodyInv /\ Interface => BodyInv'
<1> SUFFICES ASSUME BodyInv, Interface PROVE BodyInv'
    OBVIOUS
<1>1. TypeOK /\ ptr \in Nat /\ end \in Nat
    BY UInt32Assumption DEF BodyInv, TypeOK
<1>2. /\ Iterating({"interfaces"}) /\ InLoop({"interfaces"}) /\ Continue
      /\ ptr' = ptr + 2 /\ end' = end /\ cp' = cp /\ phase' = phase
      /\ accessFlags' = accessFlags /\ attribute' = attribute
    BY DEF Interface, Advance, Iterating
<1>3. /\ Len(stack) = 1 /\ stack[1].loop = "interfaces"
      /\ stack[1] \in Frames /\ stack[1].left > 0
      /\ ptr + 2 * stack[1].left <= end
    BY <1>1, <1>2, LevelOfHead, HeadOfStack DEF BodyInv, CursorInv, Iterating
<1>4. /\ Len(stack') = Len(stack) /\ stack' \in Seq(Frames)
      /\ stack'[1].left = stack[1].left - 1
      /\ stack'[1].loop = "interfaces"
    BY <1>1, <1>2, <1>3, SpentStack DEF Continue
<1>5. stack[1].left \in Nat
    BY <1>3 DEF Frames
<1>6. CursorInv'
    BY <1>1, <1>2, <1>3, <1>4, <1>5 DEF CursorInv
<1>7. Head(stack') = stack'[1]
    BY <1>3, <1>4
<1>8. AttributeInv'
    BY <1>3, <1>4, <1>7 DEF AttributeInv, AttributesEndWhereDeclared, InLoop
<1>9. ptr' \in Nat /\ ptr' >= ptr /\ attribute' \in Attribute
    BY <1>1, <1>2 DEF TypeOK
<1>10. QED
    BY <1>2, <1>6, <1>8, <1>9, ContinueKeepsInv

LEMMA FieldCountKeepsInv == BodyInv /\ FieldCount => BodyInv'
<1> SUFFICES ASSUME BodyInv, FieldCount PROVE BodyInv'
    OBVIOUS
<1>1. /\ TypeOK /\ ptr \in Nat /\ ptr <= end /\ end \in Nat /\ ptr >= 8
    BY UInt32Assumption DEF BodyInv, CursorInv, DepthInv, TypeOK, FieldCount
<1>2. PICK count \in Counts : stack' = <<Frame("fields", count, {})>>
    BY DEF FieldCount
<1>3. Frame("fields", count, {}) \in Frames
    BY <1>2, BodyAssumption DEF Frame, Frames, Loops
<1>4. /\ stack' \in Seq(Frames) /\ Len(stack') = 1 /\ stack' # <<>>
      /\ stack'[1].loop = "fields" /\ Head(stack') = stack'[1]
    BY <1>2, <1>3 DEF Frame
<1>5. /\ ptr' = ptr + 2 /\ end' = end /\ cp' = cp /\ attribute' = attribute
      /\ phase' = "loops" /\ accessFlags' = accessFlags
    BY DEF FieldCount, Advance
<1>6. ptr + 2 <= end
    BY <1>1, EnsuredIsInside DEF FieldCount
<1>7. TypeOK'
    BY <1>1, <1>4, <1>5 DEF TypeOK
<1>8. LoopsNest' /\ CursorInv' /\ DepthInv'
    BY <1>1, <1>4, <1>5, <1>6
    DEF LoopsNest, LoopsAt, CursorInv, DepthInv, DepthBoundedByBytes
<1>9. AttributeInv' /\ FlagsInv'
    BY <1>4, <1>5
    DEF BodyInv, AttributeInv, AttributesEndWhereDeclared, InLoop,
        FlagsInv
<1>10. QED
    BY <1>7, <1>8, <1>9 DEF BodyInv

(* What the chain of conditions on the flags of a field comes to.           *)
LEMMA FieldFlagsExact ==
    ASSUME NEW flags
    PROVE  FieldFlagsOK(flags) <=> FieldAllowed(flags)
BY DEF FieldFlagsOK, FieldAllowed

LEMMA FieldKeepsInv == BodyInv /\ Field => BodyInv'
<1> SUFFICES ASSUME BodyInv, Field PROVE BodyInv'
    OBVIOUS
<1>1. TypeOK /\ ptr \in Nat /\ ptr <= end /\ end \in Nat
    BY UInt32Assumption DEF BodyInv, CursorInv, TypeOK
<1>2. PICK flags \in FieldFlags, count \in Counts :
        FieldFlagsOK(flags) /\ Enter("attributes", count, flags)
    BY DEF Field
<1>3. /\ Iterating({"fields"}) /\ InLoop({"fields"})
      /\ ptr' = ptr + 8 /\ end' = end /\ cp' = cp /\ phase' = phase
      /\ accessFlags' = accessFlags /\ attribute' = NoAttribute
    BY DEF Field, Advance, Iterating
<1>4. Len(stack) = 1 /\ stack[1].loop = "fields" /\ ptr >= 10
    BY <1>3, LevelOfHead DEF LoopsAt, BodyInv, DepthInv
<1>5. count \in Nat
    BY BodyAssumption
<1>6. Len(stack') = 2
    BY <1>1, <1>2, <1>3, <1>4, <1>5, EnteredStack DEF Loops
<1>7. ptr + 8 <= end
    BY <1>1, EnsuredIsInside DEF Field, FieldBytes
<1>8. ptr' \in Nat /\ ptr' <= end /\ attribute' \in Attribute
    BY <1>1, <1>3, <1>7 DEF NoAttribute, Attribute
<1>9. DepthInv'
    BY <1>1, <1>3, <1>4, <1>6
    DEF DepthInv, DepthBoundedByBytes, InLoop
<1>10. AttributeInv'
    BY <1>3, <1>6 DEF AttributeInv, AttributesEndWhereDeclared
<1>11. "attributes" \in LoopsAt(Len(stack) + 1) \cap Loops
    BY <1>4 DEF LoopsAt, Loops
<1>12. {"fields"} \in SUBSET Loops /\ "interfaces" \notin {"fields"}
    BY DEF Loops
<1>13. QED
    BY <1>2, <1>3, <1>5, <1>8, <1>9, <1>10, <1>11, <1>12, FieldFlagsExact,
       EnterKeepsInv
(* The five kinds of attributes.                                            *)
LEMMA AttributeEnds ==
    ASSUME BodyInv, NEW names, NEW len \in Nat, AttributeIs(names, len)
    PROVE  /\ Iterating({"attributes"}) /\ InLoop({"attributes"})
           /\ Len(stack) = 2 /\ stack[1].loop = "attributes"
           /\ ptr \in Nat /\ ptr >= 18 /\ end \in Nat /\ ptr + 6 + len <= end
           /\ attribute' \in Attribute /\ attribute'.end = ptr + 6 + len
           /\ names \subseteq AnnotationAttributes => attribute'.annotations
           /\ cp' = cp /\ phase' = phase /\ accessFlags' = accessFlags
<1>1. TypeOK /\ ptr \in Nat /\ ptr <= end /\ end \in Nat
    BY UInt32Assumption DEF BodyInv, CursorInv, TypeOK
<1>2. Iterating({"attributes"}) /\ InLoop({"attributes"})
    BY DEF AttributeIs, Iterating
<1>3. Len(stack) = 2 /\ stack[1].loop = "attributes"
    BY <1>2, LevelOfHead DEF LoopsAt
<1>4. ptr >= 18
    BY <1>3 DEF BodyInv, DepthInv
<1>5. ptr + 6 <= end
    BY <1>1, EnsuredIsInside DEF AttributeIs
<1>6. (ptr + 6) + len <= end
    BY <1>1, <1>5, EnsuredIsInside DEF AttributeIs
<1>7. PICK name \in names : attribute' =
          [annotations |-> name \in AnnotationAttributes, end |-> ptr + 6 + len]
    BY DEF AttributeIs
<1>8. /\ attribute' \in Attribute /\ attribute'.end = ptr + 6 + len
      /\ names \subseteq AnnotationAttributes => attribute'.annotations
  <2>1. ptr + 6 + len \in Nat
      BY <1>1
  <2>2. (name \in AnnotationAttributes) \in BOOLEAN
      OBVIOUS
  <2>3. attribute' \in Attribute
      BY <1>7, <2>1, <2>2 DEF Attribute
  <2>4. attribute'.annotations = (name \in AnnotationAttributes)
      BY <1>7
  <2>5. attribute'.end = ptr + 6 + len
      BY <1>7
  <2>6. QED
      BY <2>3, <2>4, <2>5
<1>9. cp' = cp /\ phase' = phase /\ accessFlags' = accessFlags
    BY DEF AttributeIs
<1>10. QED
    BY <1>1, <1>2, <1>3, <1>4, <1>6, <1>8, <1>9

(* All but annotations leave the cursor where the attribute ends.           *)
LEMMA PlainAttribute ==
    ASSUME BodyInv, NEW names, NEW len \in Nat, AttributeIs(names, len),
           Continue, Advance(6 + len)
    PROVE  BodyInv'
<1>1. /\ Iterating({"attributes"})
      /\ Len(stack) = 2 /\ stack[1].loop = "attributes"
      /\ ptr \in Nat /\ end \in Nat /\ ptr + 6 + len <= end
      /\ attribute' \in Attribute /\ attribute'.end = ptr + 6 + len
      /\ cp' = cp /\ phase' = phase /\ accessFlags' = accessFlags
    BY AttributeEnds
<1>2. ptr' = ptr + (6 + len) /\ end' = end
    BY DEF Advance
<1>3. /\ Len(stack') = 2
      /\ \A d \in 1 .. 2 : stack'[d].loop = stack[d].loop
    BY <1>1, SpentStack DEF Continue, BodyInv
<1>4. \A d \in 1 .. 2 : stack[d].loop # "interfaces"
    BY <1>1 DEF BodyInv, CursorInv
<1>5. CursorInv'
    BY <1>1, <1>2, <1>3, <1>4 DEF CursorInv
<1>6. AttributeInv'
    BY <1>1, <1>2, <1>3 DEF AttributeInv, AttributesEndWhereDeclared
<1>7. ptr' \in Nat /\ ptr' >= ptr
    BY <1>1, <1>2
<1>8. QED
    BY <1>1, <1>2, <1>5, <1>6, <1>7, ContinueKeepsInv

LEMMA AnnotationsKeepsInv == BodyInv /\ AnnotationsAttribute => BodyInv'
<1> SUFFICES ASSUME BodyInv, NEW len \in AttributeLengths, NEW count \in Counts,
                    AttributeIs(AnnotationAttributes, len),
                    ensure(ptr + 6, 2), Enter("annotations", count, {}),
                    Advance(8)
             PROVE  BodyInv'
    BY DEF AnnotationsAttribute
<1>1. len \in Nat /\ count \in Nat /\ TypeOK
    BY BodyAssumption, UInt32Assumption DEF BodyInv
<1>2. /\ Iterating({"attributes"})
      /\ Len(stack) = 2 /\ stack[1].loop = "attributes"
      /\ ptr \in Nat /\ ptr >= 18 /\ end \in Nat /\ ptr + 6 + len <= end
      /\ attribute' \in Attribute /\ attribute'.annotations
      /\ cp' = cp /\ phase' = phase /\ accessFlags' = accessFlags
    BY <1>1, AttributeEnds
<1>3. ptr' = ptr + 8 /\ end' = end
    BY DEF Advance
<1>4. (ptr + 6) + 2 <= end
    BY <1>1, <1>2, EnsuredIsInside
<1>5. Len(stack') = 3
  <2>1. "annotations" \in Loops /\ {} \in {{}} \cup FieldFlags
      BY DEF Loops
  <2>2. Len(stack') = Len(stack) + 1
      BY <1>1, <1>2, <2>1, EnteredStack
  <2>3. QED
      BY <1>2, <2>2
<1>6. DepthInv'
    BY <1>2, <1>3, <1>5 DEF DepthInv, DepthBoundedByBytes, Iterating, InLoop
<1>7. AttributeInv'
    BY <1>2 DEF AttributeInv, AttributesEndWhereDeclared
<1>8. "annotations" \in LoopsAt(Len(stack) + 1) \cap Loops
    BY <1>2 DEF LoopsAt, Loops
<1>9. {"attributes"} \in SUBSET Loops /\ "interfaces" \notin {"attributes"}
    BY DEF Loops
<1>10. ptr' \in Nat /\ ptr' <= end
    BY <1>2, <1>3, <1>4
<1>11. QED
    BY <1>1, <1>2, <1>3, <1>6, <1>7, <1>8, <1>9, <1>10, EnterKeepsInv

LEMMA AttributeKeepsInv == BodyInv /\ parseFieldAttributes => BodyInv'
<1> SUFFICES ASSUME BodyInv, parseFieldAttributes PROVE BodyInv'
    OBVIOUS
<1>1. AttributeLengths \subseteq Nat
    BY BodyAssumption, UInt32Assumption
<1>2. CASE ConstantValueAttribute
  <2>1. AttributeIs({"ConstantValue"}, 2) /\ Continue /\ Advance(6 + 2)
      BY <1>2 DEF ConstantValueAttribute, ConstantValueLength
  <2>2. QED
      BY <2>1, PlainAttribute
<1>3. CASE MarkerAttribute
  <2>1. /\ AttributeIs({"Synthetic", "Deprecated"}, 0)
        /\ Continue /\ Advance(6 + 0)
      BY <1>3 DEF MarkerAttribute
  <2>2. QED
      BY <2>1, PlainAttribute
<1>4. CASE SignatureAttribute
  <2>1. AttributeIs({"Signature"}, 2) /\ Continue /\ Advance(6 + 2)
      BY <1>4 DEF SignatureAttribute
  <2>2. QED
      BY <2>1, PlainAttribute
<1>5. CASE SkippedAttribute
    BY <1>1, <1>5, PlainAttribute DEF SkippedAttribute
<1>6. QED
    BY <1>2, <1>3, <1>4, <1>5, AnnotationsKeepsInv DEF parseFieldAttributes
------------------------------------------------------------------------------
(* Inside of annotations no step looks for an attribute.                    *)
LEMMA AnnotationKeepsInv == BodyInv /\ Annotation => BodyInv'
<1> SUFFICES ASSUME BodyInv, Annotation PROVE BodyInv'
    OBVIOUS
<1>1. TypeOK /\ ptr \in Nat /\ ptr <= end /\ end \in Nat
    BY UInt32Assumption DEF BodyInv, CursorInv, TypeOK
<1>2. PICK count \in Counts : Enter("pairs", count, {})
    BY DEF Annotation
<1>3. /\ Iterating({"annotations"}) /\ InLoop({"annotations"})
      /\ ptr' = ptr + 4 /\ end' = end /\ cp' = cp /\ phase' = phase
      /\ accessFlags' = accessFlags /\ attribute' = attribute
    BY DEF Annotation, Advance, Iterating
<1>4. Len(stack) = 3
    BY <1>3, LevelOfHead DEF LoopsAt
<1>5. ptr >= 26 /\ attribute.annotations
    BY <1>4 DEF BodyInv, DepthInv, AttributeInv
<1>6. count \in Nat /\ "pairs" \in Loops /\ {} \in {{}} \cup FieldFlags
    BY BodyAssumption DEF Loops
<1>7. Len(stack') = 4
    BY <1>1, <1>2, <1>3, <1>4, <1>6, EnteredStack
<1>8. ptr + 4 <= end
    BY <1>1, EnsuredIsInside DEF Annotation
<1>9. ptr' \in Nat /\ ptr' <= end /\ attribute' \in Attribute
    BY <1>1, <1>3, <1>8 DEF TypeOK
<1>10. DepthInv'
    BY <1>1, <1>3, <1>5, <1>7 DEF DepthInv, DepthBoundedByBytes, InLoop
<1>11. AttributeInv'
    BY <1>3, <1>5 DEF AttributeInv, AttributesEndWhereDeclared
<1>12. "pairs" \in LoopsAt(Len(stack) + 1) \cap Loops
    BY <1>4, <1>6 DEF LoopsAt
<1>13. {"annotations"} \in SUBSET Loops /\ "interfaces" \notin {"annotations"}
    BY DEF Loops
<1>14. QED
    BY <1>2, <1>3, <1>6, <1>9, <1>10, <1>11, <1>12, <1>13, EnterKeepsInv

LEMMA ElementEnds ==
    ASSUME BodyInv, NEW bytes \in Nat, ElementIs(bytes)
    PROVE  /\ Iterating({"pairs", "values"})
           /\ phase = "loops" /\ Len(stack) \in Nat /\ Len(stack) > 3
           /\ ptr \in Nat /\ end \in Nat /\ ptr + 3 + bytes <= end
           /\ 5 * (Len(stack) + 2) <= ptr /\ attribute.annotations
           /\ ptr' = ptr + (3 + bytes) /\ end' = end /\ cp' = cp
           /\ phase' = phase /\ accessFlags' = accessFlags
           /\ attribute' = attribute /\ attribute \in Attribute
<1>1. TypeOK /\ ptr \in Nat /\ ptr <= end /\ end \in Nat
    BY UInt32Assumption DEF BodyInv, CursorInv, TypeOK
<1>2. /\ Iterating({"pairs", "values"}) /\ InLoop({"pairs", "values"})
      /\ ptr' = ptr + (3 + bytes) /\ end' = end /\ cp' = cp
      /\ phase' = phase /\ accessFlags' = accessFlags
      /\ attribute' = attribute
    BY DEF ElementIs, Advance, Iterating
<1>3. Len(stack) \in Nat /\ Len(stack) > 3
  <2>1. /\ Len(stack) \in Nat \ {0}
        /\ stack[1].loop \in {"pairs", "values"}
        /\ stack[1].loop \in LoopsAt(Len(stack))
      BY <1>2, LevelOfHead
  <2>2. LoopsAt(Len(stack)) \cap {"pairs", "values"} # {}
      BY <2>1
  <2>3. Len(stack) \notin {1, 2, 3}
      BY <2>2 DEF LoopsAt
  <2>4. Len(stack) \in Nat /\ Len(stack) \notin {0, 1, 2, 3}
      BY <2>1, <2>3
  <2>5. QED
      BY <2>4, Depths
<1>4. 5 * (Len(stack) + 2) <= ptr /\ attribute.annotations
    BY <1>3 DEF BodyInv, DepthInv, DepthBoundedByBytes, AttributeInv
<1>5. ptr + 3 <= end
    BY <1>1, EnsuredIsInside DEF ElementIs
<1>6. (ptr + 3) + bytes <= end
    BY <1>1, <1>5, EnsuredIsInside DEF ElementIs
<1>7. QED
    BY <1>1, <1>2, <1>3, <1>4, <1>6 DEF TypeOK, InLoop

LEMMA LeafElement ==
    ASSUME BodyInv, NEW bytes \in Nat, ElementIs(bytes), Continue
    PROVE  BodyInv'
<1>1. /\ Iterating({"pairs", "values"})
      /\ phase = "loops" /\ Len(stack) \in Nat /\ Len(stack) > 3
      /\ ptr \in Nat /\ end \in Nat /\ ptr + 3 + bytes <= end
      /\ attribute.annotations
      /\ ptr' = ptr + (3 + bytes) /\ end' = end /\ cp' = cp
      /\ phase' = phase /\ accessFlags' = accessFlags
      /\ attribute' = attribute /\ attribute \in Attribute
    BY ElementEnds
<1>2. /\ Len(stack') = Len(stack)
      /\ \A d \in 1 .. Len(stack) : stack'[d].loop = stack[d].loop
  <2>1. TypeOK /\ stack' = Spent
      BY DEF BodyInv, Continue
  <2>2. /\ Len(Spent) = Len(stack)
        /\ \A d \in 1 .. Len(stack) : Spent[d].loop = stack[d].loop
      BY <1>1, <2>1, SpentStack
  <2>3. QED
      BY <2>1, <2>2
<1>3. \A d \in 1 .. Len(stack) : stack[d].loop # "interfaces"
  <2>1. Len(stack) # 1
      BY <1>1, Depths
  <2>2. QED
      BY <2>1 DEF BodyInv, CursorInv
<1>4. CursorInv'
    BY <1>1, <1>2, <1>3 DEF CursorInv
<1>5. AttributeInv'
    BY <1>1 DEF AttributeInv, AttributesEndWhereDeclared
<1>6. ptr' \in Nat /\ ptr' >= ptr
    BY <1>1
<1>7. QED
    BY <1>1, <1>4, <1>5, <1>6, ContinueKeepsInv

LEMMA NestingElement ==
    ASSUME BodyInv, NEW bytes \in Nat, bytes >= 2, ElementIs(bytes),
           NEW count \in Counts, NEW loop \in {"pairs", "values"},
           Enter(loop, count, {})
    PROVE  BodyInv'
<1>1. /\ Iterating({"pairs", "values"})
      /\ phase = "loops" /\ Len(stack) \in Nat /\ Len(stack) > 3
      /\ ptr \in Nat /\ end \in Nat /\ ptr + 3 + bytes <= end
      /\ 5 * (Len(stack) + 2) <= ptr /\ attribute.annotations
      /\ ptr' = ptr + (3 + bytes) /\ end' = end /\ cp' = cp
      /\ phase' = phase /\ accessFlags' = accessFlags
      /\ attribute' = attribute /\ attribute \in Attribute
    BY ElementEnds
<1>2. count \in Nat /\ loop \in Loops /\ {} \in {{}} \cup FieldFlags
    BY BodyAssumption DEF Loops
<1>3. Len(stack') = Len(stack) + 1
    BY <1>1, <1>2, EnteredStack DEF BodyInv
<1>4. 5 * (Len(stack') + 2) <= ptr'
    BY <1>1, <1>3
<1>5. DepthInv'
    BY <1>1, <1>3, <1>4 DEF DepthInv, DepthBoundedByBytes
<1>6. AttributeInv'
    BY <1>1 DEF AttributeInv, AttributesEndWhereDeclared
<1>7. loop \in LoopsAt(Len(stack) + 1) \cap Loops
    BY <1>1, <1>2 DEF LoopsAt
<1>8. /\ {"pairs", "values"} \in SUBSET Loops
      /\ "interfaces" \notin {"pairs", "values"}
    BY DEF Loops
<1>9. ptr' \in Nat /\ ptr' <= end /\ loop # "attributes"
    BY <1>1
<1>10. QED
    BY <1>1, <1>2, <1>5, <1>6, <1>7, <1>8, <1>9, EnterKeepsInv

LEMMA ElementKeepsInv == BodyInv /\ parseElementValue => BodyInv'
<1> SUFFICES ASSUME BodyInv, parseElementValue PROVE BodyInv'
    OBVIOUS
<1>1. CASE ConstantElement
    BY <1>1, LeafElement DEF ConstantElement
<1>2. CASE EnumElement
    BY <1>2, LeafElement DEF EnumElement
<1>3. CASE AnnotationElement
    BY <1>3, NestingElement DEF AnnotationElement
<1>4. CASE ArrayElement
    BY <1>4, NestingElement DEF ArrayElement, ArrayBytes
<1>5. QED
    BY <1>1, <1>2, <1>3, <1>4 DEF parseElementValue

LEMMA LoopEndKeepsInv == BodyInv /\ LoopEnds => BodyInv'
<1> SUFFICES ASSUME BodyInv, LoopEnds PROVE BodyInv'
    OBVIOUS
<1>1. /\ TypeOK /\ ptr \in Nat
      /\ ptr' = ptr /\ end' = end /\ cp' = cp
      /\ accessFlags' = accessFlags /\ attribute' = attribute
    BY DEF BodyInv, TypeOK, LoopEnds, readerVars
<1>2. /\ InLoop(Loops) /\ phase = "loops" /\ stack' = Tail(stack)
      /\ Head(stack) = stack[1]
      /\ Len(stack) \in Nat \ {0} /\ stack[1].loop \in LoopsAt(Len(stack))
    BY HeadOfStack, LevelOfHead DEF LoopEnds, InLoop, BodyInv
<1>3. /\ stack' \in Seq(Frames) /\ Len(stack') = Len(stack) - 1
      /\ stack' = <<>> <=> Len(stack) = 1
      /\ \A d \in 1 .. Len(stack) - 1 : stack'[d] = stack[d + 1]
    BY <1>1, <1>2, LeftStack
<1>4. /\ phase' \in {"fields", "accepted", "loops"}
      /\ phase' = "loops" <=> Len(stack) # 1
  <2>1. phase' = CASE stack[1].loop = "interfaces" -> "fields"
                   [] stack[1].loop = "fields"     -> "accepted"
                   [] OTHER                        -> "loops"
      BY <1>2 DEF LoopEnds
  <2>2. Len(stack) = 1 => stack[1].loop \in {"interfaces", "fields"}
      BY <1>2 DEF LoopsAt
  <2>3. Len(stack) # 1 =>
            stack[1].loop \in {"attributes", "annotations", "pairs", "values"}
      BY <1>2 DEF LoopsAt
  <2>4. QED
      BY <2>1, <2>2, <2>3
<1>5. TypeOK'
    BY <1>1, <1>3, <1>4 DEF TypeOK, Ended
<1>6. LoopsNest'
  <2>1. ASSUME NEW d \in 1 .. Len(stack')
        PROVE  stack'[d].loop \in LoopsAt(Len(stack') + 1 - d)
    <3>1. /\ d \in 1 .. Len(stack) - 1 /\ d + 1 \in 1 .. Len(stack)
          /\ Len(stack') + 1 - d = Len(stack) + 1 - (d + 1)
      <4>1. Len(stack') = Len(stack) - 1 /\ Len(stack) \in Nat
          BY <1>2, <1>3
      <4>2. d \in 1 .. Len(stack) - 1
          BY <2>1, <4>1
      <4>3. /\ d + 1 \in 1 .. Len(stack)
            /\ (Len(stack) - 1) + 1 - d = Len(stack) + 1 - (d + 1)
          BY <4>1, <4>2, Depths
      <4>4. QED
          BY <4>1, <4>2, <4>3
    <3>2. stack[d + 1].loop \in LoopsAt(Len(stack) + 1 - (d + 1))
        BY <3>1 DEF BodyInv, LoopsNest
    <3>3. QED
        BY <1>3, <3>1, <3>2
  <2>2. phase' \in {"header", "fields"} => stack' = <<>>
      BY <1>3, <1>4
  <2>3. QED
      BY <2>1, <2>2 DEF LoopsNest
<1>7. CursorInv'
  <2>1. ASSUME NEW d \in 1 .. Len(stack') PROVE stack'[d].loop # "interfaces"
    <3>1. /\ d \in 1 .. Len(stack) - 1 /\ d + 1 \in 1 .. Len(stack)
          /\ Len(stack) # 1
        BY <1>2, <1>3, <2>1, Depths
    <3>2. stack[d + 1].loop # "interfaces"
        BY <3>1 DEF BodyInv, CursorInv
    <3>3. QED
        BY <1>3, <3>1, <3>2
  <2>2. ptr' <= end'
      BY <1>1 DEF BodyInv, CursorInv
  <2>3. QED
      BY <2>1, <2>2 DEF CursorInv
<1>8. DepthInv'
    BY <1>1, <1>2, <1>3, <1>4 DEF BodyInv, DepthInv, DepthBoundedByBytes
<1>9. AttributeInv'
  <2>1. Len(stack') > 2 => attribute.annotations
      BY <1>2, <1>3 DEF BodyInv, AttributeInv
  <2>2. ASSUME InLoop({"attributes"})' PROVE attribute.annotations
    <3>1. Len(stack') \in Nat \ {0} /\ stack'[1].loop = "attributes"
      <4>1. stack' # <<>> /\ Head(stack').loop = "attributes"
          BY <1>5, <2>2 DEF InLoop, TypeOK
      <4>2. Len(stack') \in Nat \ {0}
          BY <1>3, <4>1, EmptySeq
      <4>3. Head(stack') = stack'[1]
          BY <1>3, <4>1, <4>2
      <4>4. QED
          BY <4>1, <4>2, <4>3
    <3>2. stack'[1].loop \in LoopsAt(Len(stack') + 1 - 1)
        BY <1>6, <3>1 DEF LoopsNest
    <3>3. Len(stack') = 2
        BY <3>1, <3>2 DEF LoopsAt
    <3>4. Len(stack) > 2
        BY <1>2, <1>3, <3>3, Depths
    <3>5. QED
        BY <3>4 DEF BodyInv, AttributeInv
  <2>3. QED
      BY <1>1, <2>1, <2>2 DEF AttributeInv, AttributesEndWhereDeclared
<1>10. FlagsInv'
    BY <1>1, <1>2, <1>3 DEF BodyInv, FlagsInv, FieldAllowed
<1>11. QED
    BY <1>5, <1>6, <1>7, <1>8, <1>9, <1>10 DEF BodyInv

------------------------------------------------------------------------------
LEMMA BodyInvInit == Init => BodyInv
<1> SUFFICES ASSUME Init PROVE BodyInv
    OBVIOUS
<1>1. /\ ptr = 0 /\ end \in 0 .. UInt32 - 1 /\ stack \in Seq(Frames)
      /\ stack = <<>> /\ Len(stack) = 0 /\ phase = "header"
    BY BodyAssumption, EmptySeq DEF Init, OpenReader
<1>2. TypeOK
    BY <1>1 DEF Init, TypeOK, NoAttribute, Attribute
<1>3. QED
    BY <1>1, <1>2, UInt32Assumption
    DEF Init, BodyInv, LoopsNest, CursorInv, AttributeInv,
        AttributesEndWhereDeclared, InLoop, DepthInv, DepthBoundedByBytes,
        FlagsInv, ClassAllowed

LEMMA BodyInvStep == BodyInv /\ [Next]_vars => BodyInv'
BY HeaderKeepsInv, InterfaceKeepsInv, FieldCountKeepsInv, FieldKeepsInv,
   AttributeKeepsInv, AnnotationKeepsInv, ElementKeepsInv, LoopEndKeepsInv,
   StopKeepsInv
DEF Next, Done

LEMMA BodyInvariant == Spec => []BodyInv
BY BodyInvInit, BodyInvStep, PTL DEF Spec

(* Type correctness; in particular the parser is in a loop whenever it      *)
(* looks at the innermost one.                                              *)
THEOREM BodyTypeCorrect == Spec => []TypeOK
<1>1. BodyInv => TypeOK
    BY DEF BodyInv
<1>2. QED
    BY <1>1, BodyInvariant, PTL

(* After the constant pool no read leaves the buffer, for any file.         *)
THEOREM BodyStaysInside == Spec => []ReadsOnlyTheFile
<1>1. BodyInv => ReadsOnlyTheFile
    BY DEF BodyInv, CursorInv, ReadsOnlyTheFile
<1>2. QED
    BY <1>1, BodyInvariant, PTL

(* Each attribute but those of annotations consumes the length it declares. *)
THEOREM AttributesAreConsumed == Spec => []AttributesEndWhereDeclared
<1>1. BodyInv => AttributesEndWhereDeclared
    BY DEF BodyInv, AttributeInv
<1>2. QED
    BY <1>1, BodyInvariant, PTL

(* The depth of the calls is bounded by the file, at five bytes a call.     *)
THEOREM DepthIsBounded == Spec => []DepthBoundedByBytes
<1>1. BodyInv => DepthBoundedByBytes
    BY DEF BodyInv, DepthInv
<1>2. QED
    BY <1>1, BodyInvariant, PTL

(* The conditions on flags let through the combinations that there may be,  *)
(* and no others.                                                           *)
THEOREM FlagsAreConsistent == Spec => []FlagsConsistent
<1>1. BodyInv => FlagsConsistent
    BY ClassFlagsExact, FieldFlagsExact DEF BodyInv, FlagsInv, FlagsConsistent
<1>2. QED
    BY <1>1, BodyInvariant, PTL

------------------------------------------------------------------------------
(* Progress.                                                                *)

(* The counts that Fuel adds up.                                            *)
LEMMA FuelFacts ==
    ASSUME BodyInv
    PROVE  /\ ptr \in Nat /\ end \in Nat /\ ptr <= end /\ Len(stack) \in Nat
           /\ phase \in {"header", "fields"} => Len(stack) = 0
           /\ UInt32 \in Nat
BY UInt32Assumption, EmptySeq DEF BodyInv, TypeOK, CursorInv, LoopsNest

(* An iteration that reads two bytes pays for the loop that it may enter.   *)
LEMMA IterationPays ==
    ASSUME BodyInv, NEW loops, Iterating(loops),
           NEW bytes \in Nat, bytes >= 2, Advance(bytes),
           \/ Continue
           \/ \E loop \in Loops, count \in Counts,
                 flags \in {{}} \cup FieldFlags : Enter(loop, count, flags)
    PROVE  Fuel' < Fuel
<1>1. /\ ptr \in Nat /\ end \in Nat /\ Len(stack) \in Nat
      /\ ptr' = ptr + bytes /\ end' = end
    BY FuelFacts DEF Advance
<1>2. Len(stack') \in {Len(stack), Len(stack) + 1}
  <2>1. TypeOK /\ Counts \subseteq Nat
      BY BodyAssumption DEF BodyInv
  <2>2. CASE Continue
      BY <2>1, <2>2, SpentStack DEF Continue
  <2>3. CASE ~Continue
      BY <2>1, <2>3, EnteredStack
  <2>4. QED
      BY <2>2, <2>3
<1>3. QED
    BY <1>1, <1>2 DEF Fuel

(* No step is free, for any file: a loop that reads nothing is left.        *)
THEOREM BodyIsPaidFor == Spec => EveryStepIsPaidFor
<1> DEFINE Pays == phase' \in Ended \/ Fuel' < Fuel
<1>1. ASSUME BodyInv, [Next]_vars PROVE [Pays]_vars
  <2>1. /\ ptr \in Nat /\ end \in Nat /\ Len(stack) \in Nat
        /\ phase \in {"header", "fields"} => Len(stack) = 0
      BY <1>1, FuelFacts
  <2>2. CASE ClassHeader
    <3>1. ptr' = ptr + 8 /\ end' = end /\ Len(stack') = 1 /\ Len(stack) = 0
        BY <2>1, <2>2 DEF ClassHeader, Advance
    <3>2. QED
        BY <2>1, <3>1 DEF Fuel
  <2>3. CASE FieldCount
    <3>1. ptr' = ptr + 2 /\ end' = end /\ Len(stack') = 1 /\ Len(stack) = 0
        BY <2>1, <2>3 DEF FieldCount, Advance
    <3>2. QED
        BY <2>1, <3>1 DEF Fuel
  <2>4. CASE Interface
      BY <1>1, <2>4, IterationPays DEF Interface
  <2>5. CASE Field
    <3>1. \E count \in Counts, flags \in FieldFlags :
              Enter("attributes", count, flags)
        BY <2>5 DEF Field
    <3>2. "attributes" \in Loops
        BY DEF Loops
    <3>3. Iterating({"fields"}) /\ Advance(8)
        BY <2>5 DEF Field
    <3>4. QED
        BY <1>1, <3>1, <3>2, <3>3, IterationPays
  <2>6. CASE parseFieldAttributes
    <3>1. /\ Iterating({"attributes"})
          /\ \E bytes \in Nat : bytes >= 2 /\ Advance(bytes)
      <4>1. \A len \in AttributeLengths : 6 + len \in Nat /\ 6 + len >= 2
          BY BodyAssumption, UInt32Assumption
      <4>2. QED
          BY <2>6, <4>1
          DEF parseFieldAttributes, ConstantValueAttribute, MarkerAttribute,
              SignatureAttribute, SkippedAttribute, AnnotationsAttribute,
              AttributeIs
    <3>2. Continue \/ \E count \in Counts : Enter("annotations", count, {})
        BY <2>6
        DEF parseFieldAttributes, ConstantValueAttribute, MarkerAttribute,
            SignatureAttribute, SkippedAttribute, AnnotationsAttribute
    <3>3. "annotations" \in Loops
        BY DEF Loops
    <3>4. QED
        BY <1>1, <3>1, <3>2, <3>3, IterationPays
  <2>7. CASE Annotation
    <3>1. \E count \in Counts : Enter("pairs", count, {})
        BY <2>7 DEF Annotation
    <3>2. "pairs" \in Loops /\ Iterating({"annotations"}) /\ Advance(4)
        BY <2>7 DEF Loops, Annotation
    <3>3. QED
        BY <1>1, <3>1, <3>2, IterationPays
  <2>8. CASE parseElementValue
    <3>1. /\ Iterating({"pairs", "values"})
          /\ \E bytes \in Nat : bytes >= 2 /\ Advance(bytes)
        BY <2>8
        DEF parseElementValue, ConstantElement, EnumElement,
            AnnotationElement, ArrayElement, ArrayBytes, ElementIs
    <3>2. Continue \/ \E loop \in {"pairs", "values"}, count \in Counts :
                         Enter(loop, count, {})
        BY <2>8
        DEF parseElementValue, ConstantElement, EnumElement,
            AnnotationElement, ArrayElement
    <3>3. {"pairs", "values"} \subseteq Loops
        BY DEF Loops
    <3>4. QED
        BY <1>1, <3>1, <3>2, <3>3, IterationPays
  <2>9. CASE LoopEnds
    <3>1. InLoop(Loops) /\ stack' = Tail(stack) /\ TypeOK
        BY <1>1, <2>9 DEF LoopEnds, BodyInv
    <3>2. Len(stack') = Len(stack) - 1 /\ ptr' = ptr /\ end' = end
        BY <2>9, <3>1, LeftStack DEF LoopEnds, readerVars
    <3>3. QED
        BY <2>1, <3>2 DEF Fuel
  <2>10. CASE Truncated \/ Rejected \/ Crashes
      BY <2>10 DEF Truncated, Rejected, Crashes, Throw, Ended
  <2>11. QED
      BY <1>1, <2>2, <2>3, <2>4, <2>5, <2>6, <2>7, <2>8, <2>9, <2>10
      DEF Next, Done
<1>2. QED
    BY <1>1, BodyInvariant, PTL DEF Spec, EveryStepIsPaidFor
============================================================================
