--------------------------- MODULE MCSerialWrite ---------------------------
(* Instances of SerialWrite: batches of requests to choose from.           *)
EXTENDS SerialWrite

CONSTANTS a, b, c

Batch(x, y, z) == (a :> x) @@ (b :> y) @@ (c :> z)

MCBatches == {Batch("write", "write", "timedXoff"),
              Batch("write", "write", "xoff"),
              Batch("write", "immediate", "immediate"),
              Batch("write", "immediate", "timedXoff"),
              Batch("write", "write", "write")}

TimedXoff == {(a :> "timedXoff")}
=============================================================================
