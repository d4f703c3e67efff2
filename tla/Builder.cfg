SPECIFICATION Spec
CONSTANTS
  Items <- MCItems
  Kinds = {"event_names", "event_categories", "debug_annotation_names",
           "source_locations", "frames", "function_names", "callstacks"}
  Kind <- MCKind
  EventKinds = {"event_names", "event_categories", "debug_annotation_names",
                "source_locations", "callstacks"}
  ScalarKinds = {"event_names", "source_locations", "callstacks"}
  Parts <- MCParts
  Unencodable = {"bad_category", "bad_name"}
  Names = {"run", "bad_name"}
  Categories <- MCCategories
  Annotations <- MCAnnotations
  Locations = {"here"}
  Callstacks <- MCCallstacks
  MaxPackets = 3
  MaxNotes = 2
  MaxResets = 1
  MaxBuilders = 2
INVARIANTS TypeOK  
CHECK_DEADLOCK FALSE
