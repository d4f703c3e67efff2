--------------------------- MODULE MCTraceBuilder ---------------------------
(* Values for the constants of TraceBuilder: two event names, one of which  *)
(* cannot be stored, a category that cannot, the name of an annotation, a   *)
(* source location, and a callstack of one frame with a function name.      *)
EXTENDS TraceBuilder

MCItems == {"run", "bad_category", "bad_name", "key", "here", "frame", "main", "stack"}
MCKind == [x \in MCItems |->
  CASE x \in {"run", "bad_name"} -> "event_names"
    [] x = "bad_category" -> "event_categories"
    [] x = "key" -> "debug_annotation_names"
    [] x = "here" -> "source_locations"
    [] x = "frame" -> "frames"
    [] x = "main" -> "function_names"
    [] x = "stack" -> "callstacks"]
MCParts == [x \in MCItems |->
  CASE x = "stack" -> {"frame"} [] x = "frame" -> {"main"} [] OTHER -> {}]
MCCategories == {<<>>, <<"bad_category">>}
MCAnnotations == {<<"key">>}
MCCallstacks == {<<"frame", "main", "stack">>}
=============================================================================
