-------------------------------- MODULE Sram --------------------------------
(***************************************************************************)
(* What compute_in_memory of sram.cpp stores for one output: the bias and  *)
(* the dot product of 4-bit inputs and weights, added up tile by tile,     *)
(* beside the definition it stands for.  The accumulator is not cut to 32  *)
(* bits: 1024 inputs, the most there are, move it by 122880 at most.       *)
(***************************************************************************)
EXTENDS Integers, FiniteSetsExt

CONSTANTS
    InSize,     \* NN_IN_SIZE
    TileW       \* timing::TILE_W

ASSUME SramAssumption == InSize \in Nat /\ TileW \in Nat \ {0}

Input == 0 .. InSize - 1

\* clamp_u4 and clamp_s4
ClampU4(v) == IF v < 0 THEN 0 ELSE IF v > 15 THEN 15 ELSE v
ClampS4(v) == IF v < -8 THEN -8 ELSE IF v > 7 THEN 7 ELSE v

TilesIn == (InSize + TileW - 1) \div TileW

TileBase(t) == t * TileW
TileEnd(t)  == IF TileBase(t) + TileW < InSize THEN TileBase(t) + TileW ELSE InSize
Tile(t)     == TileBase(t) .. TileEnd(t) - 1

\* The accumulator after the inputs of tile t.
AfterTile(acc, x, w, t) ==
    LET after[j \in TileBase(t) .. TileEnd(t)] ==
          IF j = TileBase(t) THEN acc
          ELSE after[j - 1] + ClampU4(x[j - 1]) * ClampS4(w[j - 1])
    IN  after[TileEnd(t)]

\* y[i], from b[i], x and W[i].
Logit(b, x, w) ==
    LET after[t \in 0 .. TilesIn] ==
          IF t = 0 THEN b ELSE AfterTile(after[t - 1], x, w, t - 1)
    IN  after[TilesIn]

\* "y[i] = b[i] + sum_j x[j] * W[i][j]"
DotProduct(b, x, w) == b + MapThenSumSet(LAMBDA j : ClampU4(x[j]) * ClampS4(w[j]), Input)

=============================================================================
