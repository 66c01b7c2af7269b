---------------------------- MODULE MCResultsPage ----------------------------
EXTENDS ResultsPageProperties

MCScripts == <<<<"support", "marginRight">>, <<"page">>>>
MCEventModels == {"addEventListener", "attachEvent"}

\* A browser of today, and Internet Explorer 8 and 6 as the comments of the
\* tests describe them.
Today == [leadingWhitespace |-> TRUE, shrinkWrapBlocks |-> FALSE, reliableHiddenOffsets |-> TRUE,
          byClass |-> TRUE, bySelector |-> TRUE, byMatches |-> TRUE]
IE8   == [leadingWhitespace |-> FALSE, shrinkWrapBlocks |-> FALSE, reliableHiddenOffsets |-> FALSE,
          byClass |-> FALSE, bySelector |-> TRUE, byMatches |-> FALSE]
IE6   == [leadingWhitespace |-> FALSE, shrinkWrapBlocks |-> TRUE, reliableHiddenOffsets |-> FALSE,
          byClass |-> FALSE, bySelector |-> FALSE, byMatches |-> FALSE]
MCLayouts == [m \in MCEventModels |-> IF m = "attachEvent" THEN {IE8, IE6} ELSE {Today}]

MCProps == <<"height", "opacity">>
MCStyleNames == {"display", "overflow", "height", "width", "opacity"}
MCResultLists == {<< >>, <<"file">>, <<"string">>, <<"string", "string">>, <<"file", "string">>}
===============================================================================
