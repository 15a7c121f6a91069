--------------------------- MODULE MCMemController ---------------------------
(* Instances of the memory controller for TLC: two words, two values, and  *)
(* the SRAM's computation with the inputs in the first word and the bias in *)
(* the second, where the low bit of the result is stored.                   *)
EXTENDS MemController, Sram

MCCompute(m) ==
    [m EXCEPT ![1] = Logit(m[1], [j \in Input |-> m[0]], [j \in Input |-> 1]) % 2]

\* The tiled sum is the dot product, for values beyond 4 bits too.
ASSUME TiledIsDotProduct ==
    \A b \in {-100, 0, 7}, x \in [Input -> {0, 9, 255}], w \in [Input -> {-128, -8, 3, 127}] :
        Logit(b, x, w) = DotProduct(b, x, w)

=============================================================================
