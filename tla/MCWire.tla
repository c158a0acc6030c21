------------------------------- MODULE MCWire -------------------------------
EXTENDS Wire

\* Short payloads, two that read as headers, an empty one and one too long.
MCPayloads == {<<>>, <<78>>, <<0, 1>>, write_header(0, 2), write_header(1, 0),
               [i \in 1 .. 9 |-> 78]}

\* Bytes at and beside the limits.  TLC's integers have 31 bits, so the
\* uppermost byte stays below 128.
MCForeignHeaders == {78, 79} \X {78} \X {1, 2} \X {0, 1, 2}
                    \X {0, 127} \X {0} \X {0} \X {0, 1, 8, 9}

=============================================================================
