-------------------------------- MODULE TxSize --------------------------------
(***************************************************************************)
(* TxWeightEstimator (src/src/utils/txSizeEstimator.ts), which bumpP2A and *)
(* completeUnroll pay their fees by: a builder whose state is a record,    *)
(* one operator per method the wallet calls.                               *)
(***************************************************************************)
EXTENDS Integers

InputSize == 32 + 4 + 1 + 4
BaseControlBlockSize == 1 + 32
OutputSize == 8 + 1
P2TROutputSize == 1 + 1 + 32
BaseTxSize == 8 + 2
WitnessHeaderSize == 2
WitnessScaleFactor == 4

Create == [hasWitness |-> FALSE, inputCount |-> 0, outputCount |-> 0,
           inputSize |-> 0, inputWitnessSize |-> 0, outputSize |-> 0]

AddP2AInput(e) ==
    [e EXCEPT !.inputCount = @ + 1, !.inputSize = @ + InputSize]

AddKeySpendInput(e) ==
    [e EXCEPT !.inputCount = @ + 1, !.inputSize = @ + InputSize,
              !.inputWitnessSize = @ + 64 + 1, !.hasWitness = TRUE]

\* The input is counted twice.
AddTapscriptInput(e, leafWitness, leafScript, leafControlBlock) ==
    [e EXCEPT !.inputCount = @ + 2, !.inputSize = @ + InputSize,
              !.inputWitnessSize = @ + leafWitness + 1 + BaseControlBlockSize
                                     + 1 + leafScript + 1 + leafControlBlock,
              !.hasWitness = TRUE]

AddP2TROutput(e) ==
    [e EXCEPT !.outputCount = @ + 1, !.outputSize = @ + OutputSize + P2TROutputSize]

VarIntSize(n) == IF n < 253 THEN 1 ELSE IF n < 65535 THEN 3 ELSE 5

CeilDiv(a, b) == (a + b - 1) \div b

VSize(e) ==
    LET stripped == BaseTxSize + VarIntSize(e.inputCount) + e.inputSize
                      + VarIntSize(e.outputCount) + e.outputSize
        witness == IF e.hasWitness THEN WitnessHeaderSize + e.inputWitnessSize ELSE 0
    IN  CeilDiv(stripped * WitnessScaleFactor + witness, WitnessScaleFactor)
==============================================================================
