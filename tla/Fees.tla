-------------------------------- MODULE Fees --------------------------------
(***************************************************************************)
(* Fee arithmetic (internal/service/fees_service.go).  An amount is a      *)
(* number of 1 / SubUnits parts of the currency's minor unit, a tax rate a *)
(* number of 1 / RateUnits parts; results are exact.                       *)
(***************************************************************************)
EXTENDS Integers, Sequences, SequencesExt

CONSTANTS
  SubUnits,   \* precision of an amount below the minor unit
  RateUnits,  \* precision of a tax rate
  MaxAmount,  \* amounts are in -1 .. MaxAmount
  MaxParts    \* proration parts are in 0 .. MaxParts

ASSUME FeesAssumption ==
  /\ SubUnits \in Nat \ {0} /\ RateUnits \in Nat \ {0}
  /\ MaxAmount \in Nat /\ MaxParts \in Nat

VARIABLES
  feeCall,   \* [op, amount, by]: the call made, by parts or by rate
  result  \* "" before; "error", or the sequence returned

feeCallVars == <<feeCall, result>>

Calls ==
  {[op |-> "prorate", amount |-> a, by |-> n] : a \in -1 .. MaxAmount, n \in 0 .. MaxParts}
    \union {[op |-> "tax", amount |-> a, by |-> r] : a \in -1 .. MaxAmount, r \in -1 .. RateUnits + 1}

FeesTypeOK ==
  /\ feeCall \in Calls
  /\ result # <<>> /\ result[1] = "ok" => \A i \in 2 .. Len(result) : result[i] \in Int

FeesInit == feeCall \in Calls /\ result = <<>>

-----------------------------------------------------------------------------
(* Banker's rounding of value / unit: the nearest integer, ties to even. *)
RoundBank(value, unit) ==
  LET q == value \div unit
      r == value % unit
  IN  IF 2 * r < unit \/ (2 * r = unit /\ q % 2 = 0) THEN q ELSE q + 1

(* An amount in whole minor units. *)
RoundMoney(amount) == RoundBank(amount, SubUnits)

(* Base share of each part; the first parts get one unit of the remainder. *)
Shares_Floor(minor, parts) == [i \in 1 .. parts |-> minor \div parts]

Shares(minor, parts) ==
  [i \in 1 .. parts |-> minor \div parts + (IF i - 1 < minor % parts THEN 1 ELSE 0)]

ProrateFee ==
  /\ feeCall.op = "prorate" /\ result = <<>>
  /\ result' = IF feeCall.amount < 0 \/ feeCall.by <= 0 THEN <<"error">>
               ELSE <<"ok">> \o Shares(RoundMoney(feeCall.amount), feeCall.by)
  /\ UNCHANGED feeCall

(* <<"ok", tax, net>>, tax in minor units and net in sub-units. *)
TaxSplit ==
  /\ feeCall.op = "tax" /\ result = <<>>
  /\ result' = IF feeCall.amount < 0 \/ feeCall.by < 0 \/ feeCall.by > RateUnits THEN <<"error">>
               ELSE LET tax == RoundBank(feeCall.amount * feeCall.by, SubUnits * RateUnits)
                    IN  <<"ok", tax, feeCall.amount - tax * SubUnits>>
  /\ UNCHANGED feeCall

FeesNext == ProrateFee \/ TaxSplit

FeesSpec == FeesInit /\ [][FeesNext]_feeCallVars

-----------------------------------------------------------------------------
Done(op) == feeCall.op = op /\ result # <<>> /\ result[1] = "ok"
SumOf(s) == FoldSeq(LAMBDA x, y : x + y, 0, s)

(* The parts of a prorated fee are as many as asked for, none is negative, *)
(* no two differ by more than one minor unit, and together they are        *)
(* exactly the rounded fee (ProrateFee's documented invariants).           *)
ProrationIsExact ==
  Done("prorate") =>
    LET parts == Tail(result)
    IN  /\ Len(parts) = feeCall.by
        /\ SumOf(parts) = RoundMoney(feeCall.amount)
        /\ \A i, j \in DOMAIN parts : parts[i] >= 0 /\ parts[i] - parts[j] <= 1

(* The tax is within half a minor unit of the exact tax, an exact half     *)
(* goes to the even side, and tax and net together are the amount.         *)
TaxIsNearest ==
  Done("tax") =>
    LET exact == feeCall.amount * feeCall.by
        unit  == SubUnits * RateUnits
        tax   == result[2]
    IN  /\ 2 * (tax * unit - exact) \in -unit .. unit
        /\ 2 * (tax * unit - exact) \in {-unit, unit} => tax % 2 = 0
        /\ tax * SubUnits + result[3] = feeCall.amount
        /\ feeCall.amount % SubUnits = 0 => result[3] >= 0

=============================================================================
