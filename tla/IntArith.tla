------------------------------ MODULE IntArith ------------------------------
(***************************************************************************)
(* The arithmetic builtins of src/expression/builtin_arithmetic.go: how    *)
(* getFunction of +, -, *, /, DIV and % picks a signature and builds the  *)
(* result type (its Flen, Decimal and unsigned flag) from the numeric      *)
(* context of the two argument types, the evalInt of the integer          *)
(* signatures PlusInt, MinusInt, MultiplyInt, MultiplyIntUnsigned,       *)
(* IntDivideInt and ModInt, which check for overflow themselves before they compute the   *)
(* result with Go's wrapping arithmetic, and the evalReal of the real     *)
(* signatures, which test their float64 result against math.MaxFloat64.  *)
(*                                                                         *)
(* The width W stands for 64: every bound the code uses (math.MaxInt64,    *)
(* math.MinInt64, math.MaxUint64) becomes its W-bit counterpart, and every *)
(* Go operation on int64 or uint64 wraps modulo 2^W.  A behaviour is one   *)
(* expression: Init chooses the argument types and the sql mode, one      *)
(* getFunction builds the signature, and an integer signature is then     *)
(* evaluated on argument values of those types.  A float64 is abstracted *)
(* to an exact rational bounded by MaxReal, the stand-in for             *)
(* math.MaxFloat64: the model keeps the overflow tests and leaves out     *)
(* rounding.  The decimal signatures are built but not evaluated: they   *)
(* compute with MyDecimal, outside src/.                                   *)
(***************************************************************************)
EXTENDS Integers

CONSTANTS
    W,          \* bit width of BIGINT (64 in the code)
    NULL,       \* an argument that evaluated to SQL NULL
    FieldTypes, \* the argument types an expression can have
    MaxReal     \* math.MaxFloat64

Modulus == 2^W
MaxInt  == 2^(W-1) - 1          \* math.MaxInt64
MinInt  == -(2^(W-1))           \* math.MinInt64
MaxUint == Modulus - 1          \* math.MaxUint64
Int64   == MinInt..MaxInt
RealVals == -MaxReal..MaxReal   \* the float64 arguments

\* uint64(x): the bits of x read as an unsigned number
U(x) == x % Modulus

\* int64(x): x wrapped to W bits, two's complement
S(x) == LET r == x % Modulus IN IF r > MaxInt THEN r - Modulus ELSE r

AbsInt(x) == IF x < 0 THEN -x ELSE x
MaxOf(x, y) == IF x >= y THEN x ELSE y   \* mathutil.Max
MinOf(x, y) == IF x <= y THEN x ELSE y   \* mathutil.Min

\* Go's integer division truncates toward zero (x / y, y # 0)
Quot(x, y) == LET q == AbsInt(x) \div AbsInt(y)
              IN IF (x < 0) = (y < 0) THEN q ELSE -q

\* The (val, isNull, err) triple every evalInt returns.
Result     == [isNull : BOOLEAN, err : BOOLEAN, val : Int64]
Ok(v)      == [isNull |-> FALSE, err |-> FALSE, val |-> v]
NullResult == [isNull |-> TRUE, err |-> FALSE, val |-> 0]
Overflow   == [isNull |-> TRUE, err |-> TRUE, val |-> 0]   \* ErrOverflow

\* The limits of allegrosql and types the result types are built with
UnspecifiedLength == -1
MaxIntWidth       == 20
MaxRealWidth      == 23
MaxDecimalWidth   == 65
MaxDecimalScale   == 30
PrecIncrement     == 4    \* precIncrement

\* An argument's FieldType: its type class (Tp), Flen, Decimal and the
\* unsigned flag.  "binstr" is a binary string, "hybrid" an enum, set or
\* bit value.
TypeClasses == {"int", "decimal", "double", "string", "binstr", "temporal",
                "hybrid"}
FieldType == [tp : TypeClasses, flen : Int, decimal : Int, unsigned : BOOLEAN]

ASSUME FieldTypes \subseteq FieldType

Signatures == {"PlusInt", "PlusReal", "PlusDecimal",
               "MinusInt", "MinusReal", "MinusDecimal",
               "MultiplyInt", "MultiplyIntUnsigned", "MultiplyReal",
               "MultiplyDecimal", "DivideReal", "DivideDecimal",
               "IntDivideInt", "IntDivideDecimal",
               "ModInt", "ModReal", "ModDecimal"}
IntSignatures == {"PlusInt", "MinusInt", "MultiplyInt", "MultiplyIntUnsigned",
                  "IntDivideInt", "ModInt"}
RealSignatures == {"PlusReal", "MinusReal", "MultiplyReal", "DivideReal",
                   "ModReal"}
DecimalSignatures == {"PlusDecimal", "MinusDecimal", "MultiplyDecimal",
                      "DivideDecimal", "ModDecimal"}

\* Flen and Decimal that getFunction leaves as newBaseBuiltinFuncWithTp
\* set them (outside src/)
BaseTp == [flen |-> "base", decimal |-> "base"]

VARIABLES
    lhsTp, rhsTp,   \* args[0].GetType(), args[1].GetType()
    noUnsignedSub,  \* ALLEGROSQLMode.HasNoUnsignedSubtractionMode()
    divZeroIsError, \* what handleDivisionByZeroError returns (sql mode)
    sig,            \* the signature getFunction built, "none" before
    retTp,          \* bf.tp: its Flen, Decimal and unsigned flag
    a, b,           \* the two argument values, int64 or float64 (or NULL)
    evaluated,      \* evalInt or evalReal has run
    res             \* its result

inputs == <<lhsTp, rhsTp, noUnsignedSub, divZeroIsError>>
vars   == <<inputs, sig, retTp, a, b, evaluated, res>>

\* HasUnsignedFlag(args[i].GetType().Flag)
lhsUnsigned == lhsTp.unsigned
rhsUnsigned == rhsTp.unsigned

-----------------------------------------------------------------------------
(* The result flag getFunction sets on each integer signature.            *)

PlusRetUnsigned(lu, ru) == lu \/ ru
MinusRetUnsigned(lu, ru, nus) == (lu \/ ru) /\ ~nus
MultiplyRetUnsigned(lu, ru) == lu \/ ru
ModRetUnsigned(lu) == lu

-----------------------------------------------------------------------------
(* The result type getFunction builds.                                     *)

\* numericContextResultType: "int", "decimal" or "real"
NumericContextResultType(ft) ==
    CASE ft.tp = "temporal"          -> IF ft.decimal > 0 THEN "decimal" ELSE "int"
      [] ft.tp = "binstr"            -> "int"
      [] ft.tp \in {"int", "decimal"} -> ft.tp
      [] OTHER                       -> "real"

SetFlenDecimal4Int == [flen |-> MaxIntWidth, decimal |-> 0]

SetFlenDecimal4RealOrDecimal(x, y, isReal, isMultiply) ==
    IF x.decimal # UnspecifiedLength /\ y.decimal # UnspecifiedLength
    THEN LET d0  == IF isMultiply THEN x.decimal + y.decimal
                    ELSE MaxOf(x.decimal, y.decimal)
             d   == IF ~isReal /\ d0 > MaxDecimalScale THEN MaxDecimalScale ELSE d0
             dig == IF isMultiply THEN x.flen - x.decimal + y.flen - y.decimal
                    ELSE MaxOf(x.flen - x.decimal, y.flen - y.decimal)
         IN IF x.flen = UnspecifiedLength \/ y.flen = UnspecifiedLength
            THEN [flen |-> UnspecifiedLength, decimal |-> d]
            ELSE [flen |-> MinOf(dig + d + 3, IF isReal THEN MaxRealWidth
                                              ELSE MaxDecimalWidth),
                  decimal |-> d]
    ELSE IF isReal THEN [flen |-> UnspecifiedLength, decimal |-> UnspecifiedLength]
    ELSE [flen |-> MaxDecimalWidth, decimal |-> MaxDecimalScale]

\* the scale of the divisor is left out of the result's length
SetType4DivDecimalNoDecb(x, y) ==
    LET deca == IF x.decimal = UnspecifiedLength THEN 0 ELSE x.decimal
    IN [decimal |-> MinOf(deca + PrecIncrement, MaxDecimalScale),
        flen    |-> IF x.flen = UnspecifiedLength THEN MaxDecimalWidth
                    ELSE MinOf(x.flen + PrecIncrement, MaxDecimalWidth)]

\* types.UnspecifiedFsp is -1, as UnspecifiedLength
SetType4DivDecimal(x, y) ==
    LET deca == IF x.decimal = UnspecifiedLength THEN 0 ELSE x.decimal
        decb == IF y.decimal = UnspecifiedLength THEN 0 ELSE y.decimal
    IN [decimal |-> MinOf(deca + PrecIncrement, MaxDecimalScale),
        flen    |-> IF x.flen = UnspecifiedLength THEN MaxDecimalWidth
                    ELSE MinOf(x.flen + decb + PrecIncrement, MaxDecimalWidth)]

SetType4DivReal == [flen |-> MaxRealWidth, decimal |-> UnspecifiedLength]

SetType4ModRealOrDecimal(x, y, isDecimal) ==
    [decimal |-> IF x.decimal = UnspecifiedLength \/ y.decimal = UnspecifiedLength
                 THEN UnspecifiedLength
                 ELSE LET d == MaxOf(x.decimal, y.decimal)
                      IN IF isDecimal /\ d > MaxDecimalScale THEN MaxDecimalScale ELSE d,
     flen    |-> IF x.flen = UnspecifiedLength \/ y.flen = UnspecifiedLength
                 THEN UnspecifiedLength
                 ELSE MinOf(MaxOf(x.flen, y.flen),
                            IF isDecimal THEN MaxDecimalWidth ELSE MaxRealWidth)]

-----------------------------------------------------------------------------
(* evalInt of each signature, NULL arguments and overflow checks included. *)

PlusIntOverflowsNoNeg(x, y, lu, ru) ==
    CASE lu /\ ru   -> U(x) > MaxUint - U(y)
      [] lu /\ ~ru  -> \/ y < 0 /\ U(S(-y)) > U(x)
                       \/ y > 0 /\ U(x) > MaxUint - U(y)
      [] ~lu /\ ru  -> \/ x < 0 /\ U(S(-x)) > U(y)
                       \/ x > 0 /\ U(y) > MaxUint - U(x)
      [] ~lu /\ ~ru -> x > 0 /\ y > MaxInt - x

PlusIntOverflows(x, y, lu, ru) ==
    CASE lu /\ ru   -> U(x) > MaxUint - U(y)
      [] lu /\ ~ru  -> \/ y < 0 /\ U(S(-y)) > U(x)
                       \/ y > 0 /\ U(x) > MaxUint - U(y)
      [] ~lu /\ ru  -> \/ x < 0 /\ U(S(-x)) > U(y)
                       \/ x > 0 /\ U(y) > MaxUint - U(x)
      [] ~lu /\ ~ru -> \/ x > 0 /\ y > MaxInt - x
                       \/ x < 0 /\ y < MinInt - x

PlusInt(x, y, lu, ru) ==
    IF x = NULL \/ y = NULL THEN NullResult
    ELSE IF PlusIntOverflows(x, y, lu, ru) THEN Overflow
    ELSE Ok(S(x + y))

\* forceToSigned (NO_UNSIGNED_SUBTRACTION) first rejects an unsigned
\* argument above MaxInt, then treats both arguments as signed.
MinusIntOverflowsNoMinInt(x, y, lu, ru, nus) ==
    LET isLU == ~nus /\ lu
        isRU == ~nus /\ ru
    IN \/ nus /\ lu /\ x < 0
       \/ nus /\ ru /\ y < 0
       \/ CASE isLU /\ isRU   -> U(x) < U(y)
            [] isLU /\ ~isRU  -> \/ y >= 0 /\ U(x) < U(y)
                                 \/ y < 0 /\ U(x) > MaxUint - U(S(-y))
            [] ~isLU /\ isRU  -> x < 0 \/ U(x) < U(y)
            [] ~isLU /\ ~isRU -> \/ x > 0 /\ S(-y) > MaxInt - x
                                 \/ x < 0 /\ S(-y) < MinInt - x

MinusIntOverflows(x, y, lu, ru, nus) ==
    LET isLU == ~nus /\ lu
        isRU == ~nus /\ ru
    IN \/ nus /\ lu /\ x < 0
       \/ nus /\ ru /\ y < 0
       \/ CASE isLU /\ isRU   -> U(x) < U(y)
            [] isLU /\ ~isRU  -> \/ y >= 0 /\ U(x) < U(y)
                                 \/ y < 0 /\ U(x) > MaxUint - U(S(-y))
            [] ~isLU /\ isRU  -> x < 0 \/ U(x) < U(y)
            [] ~isLU /\ ~isRU -> \/ x >= 0 /\ y = MinInt
                                 \/ x > 0 /\ S(-y) > MaxInt - x
                                 \/ x < 0 /\ S(-y) < MinInt - x

MinusInt(x, y, lu, ru, nus) ==
    IF x = NULL \/ y = NULL THEN NullResult
    ELSE IF MinusIntOverflows(x, y, lu, ru, nus) THEN Overflow
    ELSE Ok(S(x - y))

\* the overflow test done with int64 instead of uint64 operands
MultiplyIntUnsignedSignedCheck(x, y) ==
    IF x = NULL \/ y = NULL THEN NullResult
    ELSE LET result == S(U(x) * U(y))
         IN IF x # 0 /\ S(Quot(result, x)) # y THEN Overflow ELSE Ok(result)

\* result := unsignedA * unsignedB; overflow iff result/unsignedA # unsignedB
MultiplyIntUnsigned(x, y) ==
    IF x = NULL \/ y = NULL THEN NullResult
    ELSE LET result == (U(x) * U(y)) % Modulus
         IN IF U(x) # 0 /\ result \div U(x) # U(y) THEN Overflow
            ELSE Ok(S(result))

\* an overflow that returns the wrapped product instead of 0
MultiplyIntKeepsResult(x, y) ==
    IF x = NULL \/ y = NULL THEN NullResult
    ELSE LET result == S(x * y)
         IN IF x # 0 /\ S(Quot(result, x)) # y
            THEN [isNull |-> TRUE, err |-> TRUE, val |-> result]
            ELSE Ok(result)

\* result := a * b; overflow iff result/a # b (int64 division wraps too)
MultiplyInt(x, y) ==
    IF x = NULL \/ y = NULL THEN NullResult
    ELSE LET result == S(x * y)
         IN IF x # 0 /\ S(Quot(result, x)) # y THEN Overflow ELSE Ok(result)

\* types.DivInt64, DivUintWithInt and DivIntWithUint (outside src/): the
\* quotient truncated toward zero, or ErrOverflow when it leaves the range
\* of their result (int64, uint64, uint64)
QuotIn(x, y, range) ==
    IF Quot(x, y) \in range THEN [val |-> Quot(x, y), err |-> FALSE]
    ELSE [val |-> 0, err |-> TRUE]
DivInt64(x, y)       == QuotIn(x, y, Int64)
DivUintWithInt(x, y) == QuotIn(x, y, 0..MaxUint)
DivIntWithUint(x, y) == QuotIn(x, y, 0..MaxUint)

\* both unsigned operands divided as int64
IntDivideIntSigned(x, y, lu, ru, dz) ==
    IF y = NULL THEN NullResult
    ELSE IF y = 0 THEN [isNull |-> TRUE, err |-> dz, val |-> 0]
    ELSE IF x = NULL THEN NullResult
    ELSE LET r == CASE lu /\ ru   -> [val |-> S(Quot(x, y)), err |-> FALSE]
                    [] lu /\ ~ru  -> [DivUintWithInt(U(x), y) EXCEPT !.val = S(@)]
                    [] ~lu /\ ru  -> [DivIntWithUint(x, U(y)) EXCEPT !.val = S(@)]
                    [] ~lu /\ ~ru -> DivInt64(x, y)
         IN [isNull |-> r.err, err |-> r.err, val |-> r.val]

\* b is evaluated and tested for zero before a; the switch on signedness
\* divides two unsigned operands itself and casts a uint64 quotient back
\* to int64; return ret, err != nil, err
IntDivideInt(x, y, lu, ru, dz) ==
    IF y = NULL THEN NullResult
    ELSE IF y = 0 THEN [isNull |-> TRUE, err |-> dz, val |-> 0]
    ELSE IF x = NULL THEN NullResult
    ELSE LET r == CASE lu /\ ru   -> [val |-> S(U(x) \div U(y)), err |-> FALSE]
                    [] lu /\ ~ru  -> [DivUintWithInt(U(x), y) EXCEPT !.val = S(@)]
                    [] ~lu /\ ru  -> [DivIntWithUint(x, U(y)) EXCEPT !.val = S(@)]
                    [] ~lu /\ ~ru -> DivInt64(x, y)
         IN [isNull |-> r.err, err |-> r.err, val |-> r.val]

\* the remainder of a negative signed dividend by an unsigned divisor
\* computed without the sign
ModIntNoSign(x, y, lu, ru, dz) ==
    IF y = NULL THEN NullResult
    ELSE IF y = 0 THEN [isNull |-> TRUE, err |-> dz, val |-> 0]
    ELSE IF x = NULL THEN NullResult
    ELSE Ok(CASE lu /\ ru   -> S(U(x) % U(y))
              [] lu /\ ~ru  -> IF y < 0 THEN S(U(x) % U(S(-y)))
                                        ELSE S(U(x) % U(y))
              [] ~lu /\ ru  -> S(U(x) % U(y))
              [] ~lu /\ ~ru -> S(x - y * Quot(x, y)))

\* b is evaluated and tested for zero before a is evaluated
ModInt(x, y, lu, ru, dz) ==
    IF y = NULL THEN NullResult
    ELSE IF y = 0 THEN [isNull |-> TRUE, err |-> dz, val |-> 0]
    ELSE IF x = NULL THEN NullResult
    ELSE Ok(CASE lu /\ ru   -> S(U(x) % U(y))
              [] lu /\ ~ru  -> IF y < 0 THEN S(U(x) % U(S(-y)))
                                        ELSE S(U(x) % U(y))
              [] ~lu /\ ru  -> IF x < 0 THEN S(-S(U(S(-x)) % U(y)))
                                        ELSE S(U(x) % U(y))
              [] ~lu /\ ~ru -> S(x - y * Quot(x, y)))

-----------------------------------------------------------------------------
(* evalReal of each real signature.  A value is a rational <<n, d>>; an   *)
(* argument is an integer of RealVals.                                     *)

RatioOf(x, y) == IF y < 0 THEN <<-x, -y>> ELSE <<x, y>>

\* the overflow test of a positive left operand only
PlusRealNoNeg(x, y) ==
    IF x = NULL \/ y = NULL THEN NullResult
    ELSE IF x > 0 /\ y > MaxReal - x THEN Overflow
    ELSE Ok(<<x + y, 1>>)

\* both arguments are evaluated before the NULL test
PlusReal(x, y) ==
    IF x = NULL \/ y = NULL THEN NullResult
    ELSE IF \/ x > 0 /\ y > MaxReal - x
            \/ x < 0 /\ y < -MaxReal - x THEN Overflow
    ELSE Ok(<<x + y, 1>>)

MinusReal(x, y) ==
    IF x = NULL \/ y = NULL THEN NullResult
    ELSE IF \/ x > 0 /\ -y > MaxReal - x
            \/ x < 0 /\ -y < -MaxReal - x THEN Overflow
    ELSE Ok(<<x - y, 1>>)

\* math.IsInf(a * b, 0): the product is beyond MaxFloat64
MultiplyReal(x, y) ==
    IF x = NULL \/ y = NULL THEN NullResult
    ELSE IF AbsInt(x * y) > MaxReal THEN Overflow
    ELSE Ok(<<x * y, 1>>)

\* a, then b, is evaluated and NULL-tested before b is tested for zero
DivideReal(x, y, dz) ==
    IF x = NULL \/ y = NULL THEN NullResult
    ELSE IF y = 0 THEN [isNull |-> TRUE, err |-> dz, val |-> 0]
    ELSE IF AbsInt(x) > MaxReal * AbsInt(y) THEN Overflow
    ELSE Ok(RatioOf(x, y))

\* b is evaluated and tested for zero before a; math.Mod keeps the sign of
\* the dividend
ModReal(x, y, dz) ==
    IF y = NULL THEN NullResult
    ELSE IF y = 0 THEN [isNull |-> TRUE, err |-> dz, val |-> 0]
    ELSE IF x = NULL THEN NullResult
    ELSE Ok(<<x - y * Quot(x, y), 1>>)

-----------------------------------------------------------------------------
(* The states: any two argument types of FieldTypes, either sql mode.     *)

Init ==
    /\ lhsTp \in FieldTypes /\ rhsTp \in FieldTypes
    /\ noUnsignedSub \in BOOLEAN /\ divZeroIsError \in BOOLEAN
    /\ sig = "none" /\ retTp = [flen |-> 0, decimal |-> 0, unsigned |-> FALSE]
    /\ a = NULL /\ b = NULL /\ evaluated = FALSE /\ res = NullResult

LhsCtx == NumericContextResultType(lhsTp)
RhsCtx == NumericContextResultType(rhsTp)

\* bf := newBaseBuiltinFuncWithTp(...) with the signature's Flen and
\* Decimal fd, and the unsigned flag u
Build(s, fd, u) ==
    /\ sig = "none"
    /\ sig' = s /\ retTp' = [flen |-> fd.flen, decimal |-> fd.decimal, unsigned |-> u]
    /\ UNCHANGED <<inputs, a, b, evaluated, res>>

\* arithmeticPlusFunctionClass.getFunction
PlusGetFunction ==
    CASE "real" \in {LhsCtx, RhsCtx} ->
            Build("PlusReal", SetFlenDecimal4RealOrDecimal(lhsTp, rhsTp, TRUE, FALSE), FALSE)
      [] "decimal" \in {LhsCtx, RhsCtx} ->
            Build("PlusDecimal", SetFlenDecimal4RealOrDecimal(lhsTp, rhsTp, FALSE, FALSE), FALSE)
      [] OTHER ->
            Build("PlusInt", SetFlenDecimal4Int, PlusRetUnsigned(lhsUnsigned, rhsUnsigned))

\* arithmeticMinusFunctionClass.getFunction
MinusGetFunction ==
    CASE "real" \in {LhsCtx, RhsCtx} ->
            Build("MinusReal", SetFlenDecimal4RealOrDecimal(lhsTp, rhsTp, TRUE, FALSE), FALSE)
      [] "decimal" \in {LhsCtx, RhsCtx} ->
            Build("MinusDecimal", SetFlenDecimal4RealOrDecimal(lhsTp, rhsTp, FALSE, FALSE), FALSE)
      [] OTHER ->
            Build("MinusInt", SetFlenDecimal4Int,
                  MinusRetUnsigned(lhsUnsigned, rhsUnsigned, noUnsignedSub))

\* arithmeticMultiplyFunctionClass.getFunction: an unsigned argument picks
\* MultiplyIntUnsigned
MultiplyGetFunction ==
    CASE "real" \in {LhsCtx, RhsCtx} ->
            Build("MultiplyReal", SetFlenDecimal4RealOrDecimal(lhsTp, rhsTp, TRUE, TRUE), FALSE)
      [] "decimal" \in {LhsCtx, RhsCtx} ->
            Build("MultiplyDecimal", SetFlenDecimal4RealOrDecimal(lhsTp, rhsTp, FALSE, TRUE), FALSE)
      [] MultiplyRetUnsigned(lhsUnsigned, rhsUnsigned) ->
            Build("MultiplyIntUnsigned", SetFlenDecimal4Int, TRUE)
      [] OTHER ->
            Build("MultiplyInt", SetFlenDecimal4Int, FALSE)

\* arithmeticDivideFunctionClass.getFunction: never an integer signature
DivideGetFunction ==
    IF "real" \in {LhsCtx, RhsCtx}
    THEN Build("DivideReal", SetType4DivReal, FALSE)
    ELSE Build("DivideDecimal", SetType4DivDecimal(lhsTp, rhsTp), FALSE)

\* arithmeticIntDivideFunctionClass.getFunction
IntDivideGetFunction ==
    IF LhsCtx = "int" /\ RhsCtx = "int"
    THEN Build("IntDivideInt", BaseTp, lhsUnsigned \/ rhsUnsigned)
    ELSE Build("IntDivideDecimal", BaseTp, lhsUnsigned \/ rhsUnsigned)

\* arithmeticModFunctionClass.getFunction: the result is unsigned when the
\* dividend is
ModGetFunction ==
    CASE "real" \in {LhsCtx, RhsCtx} ->
            Build("ModReal", SetType4ModRealOrDecimal(lhsTp, rhsTp, FALSE),
                  ModRetUnsigned(lhsUnsigned))
      [] "decimal" \in {LhsCtx, RhsCtx} ->
            Build("ModDecimal", SetType4ModRealOrDecimal(lhsTp, rhsTp, TRUE),
                  ModRetUnsigned(lhsUnsigned))
      [] OTHER ->
            Build("ModInt", BaseTp, ModRetUnsigned(lhsUnsigned))

\* s.args[i].EvalInt or EvalReal: the arguments' values from D, and the
\* signature's result
Evaluate(D, f(_, _)) ==
    /\ ~evaluated
    /\ \E x, y \in D \cup {NULL} :
          a' = x /\ b' = y /\ res' = f(x, y)
    /\ evaluated' = TRUE
    /\ UNCHANGED <<inputs, sig, retTp>>

EvalPlus ==
    /\ sig = "PlusInt"
    /\ Evaluate(Int64, LAMBDA x, y : PlusInt(x, y, lhsUnsigned, rhsUnsigned))

EvalMinus ==
    /\ sig = "MinusInt"
    /\ Evaluate(Int64, LAMBDA x, y : MinusInt(x, y, lhsUnsigned, rhsUnsigned, noUnsignedSub))

EvalMultiplyInt ==
    /\ sig = "MultiplyInt"
    /\ Evaluate(Int64, MultiplyInt)

EvalMultiplyIntUnsigned ==
    /\ sig = "MultiplyIntUnsigned"
    /\ Evaluate(Int64, MultiplyIntUnsigned)

EvalIntDivide ==
    /\ sig = "IntDivideInt"
    /\ Evaluate(Int64, LAMBDA x, y : IntDivideInt(x, y, lhsUnsigned, rhsUnsigned, divZeroIsError))

EvalMod ==
    /\ sig = "ModInt"
    /\ Evaluate(Int64, LAMBDA x, y : ModInt(x, y, lhsUnsigned, rhsUnsigned, divZeroIsError))

EvalPlusReal ==
    /\ sig = "PlusReal"
    /\ Evaluate(RealVals, PlusReal)

EvalMinusReal ==
    /\ sig = "MinusReal"
    /\ Evaluate(RealVals, MinusReal)

EvalMultiplyReal ==
    /\ sig = "MultiplyReal"
    /\ Evaluate(RealVals, MultiplyReal)

EvalDivideReal ==
    /\ sig = "DivideReal"
    /\ Evaluate(RealVals, LAMBDA x, y : DivideReal(x, y, divZeroIsError))

EvalModReal ==
    /\ sig = "ModReal"
    /\ Evaluate(RealVals, LAMBDA x, y : ModReal(x, y, divZeroIsError))

Next ==
    \/ PlusGetFunction \/ MinusGetFunction \/ MultiplyGetFunction
    \/ DivideGetFunction \/ IntDivideGetFunction \/ ModGetFunction
    \/ EvalPlus \/ EvalMinus \/ EvalMultiplyInt \/ EvalMultiplyIntUnsigned
    \/ EvalIntDivide \/ EvalMod
    \/ EvalPlusReal \/ EvalMinusReal \/ EvalMultiplyReal \/ EvalDivideReal
    \/ EvalModReal

Spec == Init /\ [][Next]_vars


-----------------------------------------------------------------------------
(* The reference: the SQL value of each argument, the exact result of the  *)
(* operation over the integers, and the range of the result type.         *)

Val(x, unsigned) == IF unsigned THEN U(x) ELSE x
LVal == Val(a, lhsUnsigned)
RVal == Val(b, rhsUnsigned)

\* the signedness of the result type getFunction built
RetUnsigned == retTp.unsigned

\* DIV and MOD by zero are NULL; every other integer operation is defined
Defined == sig \in {"IntDivideInt", "ModInt"} => RVal # 0

\* the exact result; MOD takes the sign of the dividend (truncation)
Exact ==
    CASE sig = "PlusInt"  -> LVal + RVal
      [] sig = "MinusInt" -> LVal - RVal
      [] sig \in {"MultiplyInt", "MultiplyIntUnsigned"} -> LVal * RVal
      [] sig = "IntDivideInt" -> Quot(LVal, RVal)
      [] sig = "ModInt"   -> LVal - RVal * Quot(LVal, RVal)

\* Under NO_UNSIGNED_SUBTRACTION both operands of a subtraction are taken
\* as signed, so an unsigned operand above MaxInt is itself out of range.
OperandsRepresentable ==
    sig = "MinusInt" /\ noUnsignedSub =>
        /\ lhsUnsigned => U(a) <= MaxInt
        /\ rhsUnsigned => U(b) <= MaxInt

Representable ==
    /\ OperandsRepresentable
    /\ IF RetUnsigned THEN Exact \in 0..MaxUint ELSE Exact \in Int64

Evaluated(s) == sig = s /\ evaluated /\ a # NULL /\ b # NULL /\ Defined

\* No silent overflow: a non-NULL result of signature s is the exact
\* result read with the result type's signedness.
Sound(s) ==
    sig = s /\ evaluated /\ ~res.isNull =>
        /\ a # NULL /\ b # NULL /\ Defined
        /\ Representable
        /\ Val(res.val, RetUnsigned) = Exact

\* No false overflow: when the exact result fits the result type,
\* signature s returns it rather than an error or NULL.
Complete(s) ==
    Evaluated(s) /\ Representable => ~res.isNull /\ ~res.err

-----------------------------------------------------------------------------
(* Properties.                                                            *)

\* Every evalInt returns (0, true, err) or (0, true, nil) on an error or a
\* NULL, and an int64 otherwise.
TypeOK ==
    /\ lhsTp \in FieldTypes /\ rhsTp \in FieldTypes
    /\ {noUnsignedSub, divZeroIsError, evaluated} \subseteq BOOLEAN
    /\ sig \in Signatures \cup {"none"}
    /\ evaluated => sig \in IntSignatures \cup RealSignatures
    /\ a \in Int64 \cup RealVals \cup {NULL} /\ b \in Int64 \cup RealVals \cup {NULL}
    /\ IF sig \in RealSignatures
       THEN ~res.isNull => res.val[2] > 0
       ELSE res \in Result
    /\ res.isNull => res.val = 0

(* PlusInt's case analysis over the four signedness combinations detects *)
(* exactly the sums that leave BIGINT (UNSIGNED): it never returns a      *)
(* wrapped sum and never rejects a sum that fits.                         *)
PlusIntCorrect ==
    Sound("PlusInt") /\ Complete("PlusInt")

(* MinusInt never returns a wrapped difference: the check                 *)
(* a >= 0 && b == MinInt64 catches the one case where -b wraps.           *)
MinusIntNoSilentOverflow ==
    Sound("MinusInt")

(* MultiplyInt never returns a wrapped product (result/a != b detects     *)
(* every overflow).                                                       *)
MultiplyIntNoSilentOverflow ==
    Sound("MultiplyInt")

(* Neither multiply signature rejects a product that fits its result      *)
(* type: the test result/a != b only fires when the product wrapped.      *)
MultiplyNoFalseOverflow ==
    Complete("MultiplyInt") /\ Complete("MultiplyIntUnsigned")

(* ModInt returns the remainder with the sign of the dividend for every   *)
(* signedness combination, MinInt64 and unsigned values above MaxInt64    *)
(* included, and NULL for a zero divisor.                                 *)
ModIntCorrect ==
    /\ Sound("ModInt") /\ Complete("ModInt")
    /\ sig = "ModInt" /\ evaluated /\ b # NULL /\ RVal = 0 => res.isNull

(* IntDivideInt returns the quotient truncated toward zero, read with    *)
(* the result's signedness, for every signedness combination: two        *)
(* unsigned operands above MaxInt64, a negative dividend of an unsigned   *)
(* divisor (0 or ErrOverflow) and MinInt64 DIV -1 included; it never      *)
(* rejects a quotient that fits, and a zero divisor gives NULL.           *)
IntDivideIntCorrect ==
    /\ Sound("IntDivideInt") /\ Complete("IntDivideInt")
    /\ sig = "IntDivideInt" /\ evaluated /\ b # NULL /\ RVal = 0 => res.isNull

(* The integer digits and the scale a value of an argument type can have, *)
(* and those the exact result of the decimal signature needs: the larger  *)
(* operand plus a carry digit for + and -, the sums for *, the dividend's *)
(* integer digits plus the divisor's scale for / (whose scale is rounded), *)
(* the smaller operand for %.                                              *)
IntDigits(ft) == ft.flen - ft.decimal

Needed ==
    LET il == IntDigits(lhsTp)   ir == IntDigits(rhsTp)
        dl == lhsTp.decimal      dr == rhsTp.decimal
    IN CASE sig \in {"PlusDecimal", "MinusDecimal"} ->
              [int |-> MaxOf(il, ir) + 1, scale |-> MaxOf(dl, dr)]
         [] sig = "MultiplyDecimal" -> [int |-> il + ir, scale |-> dl + dr]
         [] sig = "DivideDecimal"   -> [int |-> il + dr, scale |-> 0]
         [] sig = "ModDecimal"      -> [int |-> MinOf(il, ir), scale |-> MaxOf(dl, dr)]

Specified(ft) == ft.flen # UnspecifiedLength /\ ft.decimal # UnspecifiedLength

(* The result type getFunction builds for a decimal signature holds every *)
(* result of arguments of the two types: it has the scale and the integer *)
(* digits the exact result needs, up to the limits of 30 decimals and 65  *)
(* digits, whichever numeric context (decimal, integer or temporal) each  *)
(* argument brought.                                                       *)
DecimalResultTypeHoldsResult ==
    sig \in DecimalSignatures /\ Specified(lhsTp) /\ Specified(rhsTp) =>
        /\ retTp.decimal >= MinOf(Needed.scale, MaxDecimalScale)
        /\ retTp.flen - retTp.decimal >= MinOf(Needed.int, MaxDecimalWidth - retTp.decimal)

(* The exact result of a real signature, and whether it is within        *)
(* +-MaxFloat64.                                                           *)
RealExact ==
    CASE sig = "PlusReal"     -> <<a + b, 1>>
      [] sig = "MinusReal"    -> <<a - b, 1>>
      [] sig = "MultiplyReal" -> <<a * b, 1>>
      [] sig = "DivideReal"   -> RatioOf(a, b)
      [] sig = "ModReal"      -> <<a - b * Quot(a, b), 1>>

RealInRange(q) == AbsInt(q[1]) <= MaxReal * q[2]

QEq(p, q) == p[1] * q[2] = q[1] * p[2]

(* Each real signature's overflow test agrees with the exact result: a    *)
(* NULL argument gives NULL; a zero divisor of / or % gives NULL with the *)
(* sql mode's division-by-zero error; otherwise the result is the exact   *)
(* one when that is within +-MaxFloat64 and ErrOverflow when it is not,   *)
(* for either sign of either operand.                                      *)
RealArithCorrect ==
    sig \in RealSignatures /\ evaluated =>
        /\ a = NULL \/ b = NULL => res.isNull
        /\ a # NULL /\ b # NULL /\ sig \in {"DivideReal", "ModReal"} /\ b = 0 =>
              res.isNull /\ res.err = divZeroIsError
        /\ a # NULL /\ b # NULL /\ (sig \in {"DivideReal", "ModReal"} => b # 0) =>
              IF RealInRange(RealExact)
              THEN ~res.isNull /\ ~res.err /\ QEq(res.val, RealExact)
              ELSE res.isNull /\ res.err

=============================================================================
