-------------------------- MODULE MCOpSelection -----------------------------
EXTENDS OpSelection

\* Zero, one, the shift amounts beyond the width, the bounds of each integer,
\* and the zeroes, the infinities and a NaN of each float.
MCValues ==
    [i32 |-> {0, 1, 5, 7, 8, 15}, i64 |-> {0, 1, 9, 127, 128, 255},
     f32 |-> {0, 2, 6, 7, 8, 11}, f64 |-> {0, 56, 120, 121, 128, 184}]
MCMemories ==
    <<[bytes |-> <<1, 0, 1, 1, 0, 0, 1, 0, 1, 1, 1, 0>>, is64 |-> FALSE, max |-> 16],
      [bytes |-> <<1, 1, 0, 0, 1, 0, 1, 1, 0, 1>>, is64 |-> TRUE, max |-> 256]>>
MCOffsets == {0, 3, 4, 15, 248}
=============================================================================
