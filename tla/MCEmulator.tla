------------------------------ MODULE MCEmulator ------------------------------
(* Instances of Emulator for TLC.  "xa" and "xb" share their base, "yc" is *)
(* a pair whose id is not two names of three letters.                      *)
EXTENDS Emulator

MCPairs == {"xa", "xb", "yc"}
MCOne == {"xa"}
MCCoin == ("xa" :> "a") @@ ("xb" :> "b") @@ ("yc" :> "c")
MCBase == ("xa" :> "x") @@ ("xb" :> "x") @@ ("yc" :> "y")
MCOneCoin == "xa" :> "a"
MCOneBase == "xa" :> "x"
MCCoinSlice == ("xa" :> "a") @@ ("xb" :> "b") @@ ("yc" :> "none")
MCBaseSlice == ("xa" :> "x") @@ ("xb" :> "x") @@ ("yc" :> "none")
MCDeposit == [c \in Currencies |-> CASE c \in {"x", "y"} -> 30 [] c = "c" -> 4 [] OTHER -> 0]
MCPrices == {3, 4}
MCVolumes == {1, 3}
MCSentVolumes == {2, 4, 6, 8, 10, 12, 14, 16}
=============================================================================
