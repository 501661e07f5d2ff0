---------------------------- MODULE MCNumerics ------------------------------
EXTENDS Vectors

\* Numbers about zero, about the powers of two and at the bounds of an i64,
\* and the zeroes, denormals, halves, infinities and NaNs of an f64.
MCWide == {0, 1, 2, 3, 4, 7, 8, 9, 11, 12, 15, 16, 48, 52, 55, 56, 57, 63, 64, 72, 80, 88, 96, 103, 104, 119,
           120, 121, 124, 126, 127, 128, 129, 132, 176, 184, 192, 200, 216, 224, 240, 247, 248, 249, 252, 255}
MCAddresses == {0, 1, 4, 8, 10, 11, 12, 255}
MCMemory == <<1, 0, 1, 1, 0, 0, 1, 0, 1, 1, 1, 0>>

\* Sixteen one-bit bytes: no bit, all bits, every pair of two-bit lanes and
\* most pairs of four-bit ones, the sign alone, NaNs among the floats.
MCV128s == {<<0, 0, 0, 0, 0, 0, 0, 0, 0, 0, 0, 0, 0, 0, 0, 0>>,
            <<1, 0, 1, 1, 0, 1, 0, 0, 1, 1, 1, 0, 0, 1, 1, 1>>,
            <<1, 1, 0, 1, 1, 0, 0, 1, 0, 0, 1, 1, 1, 1, 1, 0>>,
            <<0, 0, 0, 1, 0, 0, 0, 1, 0, 0, 0, 0, 0, 0, 0, 1>>,
            <<0, 1, 1, 0, 1, 1, 1, 1, 1, 0, 0, 0, 1, 0, 1, 1>>,
            <<1, 1, 1, 1, 1, 1, 1, 1, 1, 1, 1, 1, 1, 1, 1, 1>>}
MCIndices == {<<0, 1, 2, 3, 4, 5, 6, 7, 8, 9, 10, 11, 12, 13, 14, 15>>,
              <<31, 16, 15, 0, 17, 30, 8, 7, 24, 23, 1, 1, 5, 2, 19, 31>>,
              <<15, 16, 17, 255, 128, 0, 31, 32, 14, 3, 3, 9, 127, 240, 1, 10>>}
MCAmounts == {-1, 0, 1, 2, 3, 5, 8, 9, 255, 256, 259}
MCScalars == {0, 1, 2, 5, 7, 15, 16, 119, 128, 255}
MCBytes128 == <<1, 0, 1, 1, 0, 0, 1, 0, 1, 1, 1, 0, 1, 0, 0, 1, 1, 1, 0, 1>>
=============================================================================
