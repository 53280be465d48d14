------------------------------- MODULE MCStreams -------------------------------
(* Small instances of Streams for TLC.                                       *)
EXTENDS Streams

(* Every kind of source and of stage, and the ones that hold files, children *)
(* or a second stream above and below each other.                            *)
MCPipelines ==
    { <<"lines", "parallel", "on_error">>,
      <<"list", "parallel", "map">>,
      <<"list", "parallel", "parallel">>,
      <<"list", "take", "parallel">>,
      <<"files", "flat_map", "parallel">>,
      <<"lines", "parse_csv", "sort">>,
      <<"lines", "on_error", "flat_map">>,
      <<"processes", "parallel", "group">>,
      <<"every", "parallel", "take">>,
      <<"watch", "debounce">>,
      <<"list", "skip", "encode_csv">>,
      <<"files", "where", "inspect">>,
      <<"database", "distinct">>,
      <<"list", "where", "sort">> }

MCMemory == { <<"lines", "parallel">> }
=============================================================================
