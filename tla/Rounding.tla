------------------------------- MODULE Rounding -------------------------------
(***************************************************************************)
(* How prices and volumes are fitted to the filters of a pair before an    *)
(* order is sent.  Amounts are integers: a price counts the least unit of  *)
(* the base currency for one unit of the coin, a volume counts units of    *)
(* the coin, their product is a base volume.  Shares (fee, profit) count   *)
(* parts of Unit.  The code computes with reals and multiplies both sides  *)
(* by 10^8 first; what their errors do is the choice Slip of Emulator.     *)
(***************************************************************************)
EXTENDS Integers

CONSTANTS
  Unit,        (* the whole that shares are parts of                      *)
  TradeFee,    (* Market::getTradeFee, BINANCE_FEE                        *)
  TickSize,    (* Market::getPriceTickSize                                *)
  StepSize,    (* Market::getVolumeStepSize                               *)
  MinNotional  (* Market::getMinNotional                                  *)

ASSUME FiltersAssumption == {Unit, TickSize, StepSize} \subseteq Nat \ {0}
ASSUME SharesAssumption == {TradeFee, MinNotional} \subseteq Nat

rounding(value, x) == (x \div value) * value

roundingCeil(value, x) == ((x + value - 1) \div value) * value

(* The least volume of a purchase, (minNotional * (1 + fee)) / price, cut  *)
(* to whole steps.                                                         *)
RaisedVolume(price) ==
  ((MinNotional * (Unit + TradeFee)) \div (Unit * price * StepSize)) * StepSize

FittedOrder(side, price, volume) == [price |-> price, volume |-> volume,
                                     base |-> price * volume, side |-> side]

(* The beginning of BinanceAPI::submitOrder: a price is cut to a tick, the *)
(* volume of a purchase is raised to a step and that of a sale cut, and a  *)
(* purchase that does not exceed the least notional is made larger.        *)
Fitted(side, price, volume) ==
  LET tick == rounding(TickSize, price)
      step == IF side = "Buy" THEN roundingCeil(StepSize, volume)
                              ELSE rounding(StepSize, volume)
      small == side = "Buy" /\ tick * step <= MinNotional
  IN FittedOrder(side, tick, IF small THEN RaisedVolume(tick) ELSE step)

(* IStep::calculateStopLoss: the price at which all purchases of a cycle,  *)
(* with their fees, are sold with the profit and the fee of the sale.      *)
calculateStopLoss(baseVolume, volume, profit) ==
  (baseVolume * (Unit + TradeFee) * (Unit + profit + TradeFee))
    \div (Unit * Unit * volume)
=============================================================================
