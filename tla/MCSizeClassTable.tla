-------------------------- MODULE MCSizeClassTable --------------------------
(* The table of size_classes.hpp and the requests at its boundaries.       *)
EXTENDS SizeClassTable, Sequences

(* size, pages, batch_size, byte_budget *)
Rows == <<
    <<0, 0, 0, 0>>, <<8, 1, 32, 64000>>, <<16, 1, 32, 64000>>,
    <<32, 1, 32, 64000>>, <<64, 1, 32, 64000>>, <<80, 1, 32, 32000>>,
    <<96, 1, 32, 32000>>, <<112, 1, 32, 32000>>, <<128, 1, 32, 32000>>,
    <<160, 1, 32, 32000>>, <<176, 1, 32, 32000>>, <<208, 1, 32, 32000>>,
    <<256, 1, 32, 32000>>, <<312, 1, 32, 16000>>, <<384, 1, 32, 16000>>,
    <<448, 1, 32, 16000>>, <<512, 1, 32, 16000>>, <<576, 1, 32, 16000>>,
    <<704, 1, 32, 16000>>, <<896, 1, 32, 16000>>, <<1024, 1, 32, 16000>>,
    <<1152, 2, 32, 8000>>, <<1408, 2, 32, 8000>>, <<1792, 2, 32, 8000>>,
    <<2048, 2, 32, 8000>>, <<2688, 2, 24, 8000>>, <<3456, 3, 18, 8000>>,
    <<4096, 1, 16, 8000>>, <<4736, 3, 13, 4000>>, <<6144, 3, 10, 4000>>,
    <<8192, 1, 8, 4000>>, <<9472, 5, 6, 4000>>, <<12288, 3, 5, 4000>>,
    <<16384, 2, 4, 4000>>, <<20480, 5, 3, 2000>>, <<28672, 7, 2, 2000>>,
    <<32768, 4, 2, 2000>>, <<40960, 5, 2, 2000>>, <<49152, 6, 2, 2000>>,
    <<65536, 8, 2, 2000>>, <<73728, 9, 2, 2000>>, <<81920, 10, 2, 2000>>,
    <<98304, 12, 2, 2000>>, <<114688, 14, 2, 2000>>, <<131072, 16, 2, 2000>>,
    <<155648, 19, 2, 2000>>, <<204800, 25, 2, 2000>>, <<262144, 32, 2, 2000>>
>>

MCSizeClasses ==
    [i \in 0 .. Len(Rows) - 1 |->
        [size |-> Rows[i + 1][1], pages |-> Rows[i + 1][2],
         batch_size |-> Rows[i + 1][3], byte_budget |-> Rows[i + 1][4]]]

(* The searches only compare a request with the sizes of the rows, so the  *)
(* sizes, their neighbours and zero stand for all requests.                *)
MCRequests == {0, 1} \cup UNION {{s - 1, s, s + 1} :
                s \in {Rows[i][1] : i \in 2 .. Len(Rows)}}

=============================================================================
