\* Every route, header, error and answer.
SPECIFICATION ResponsesSpec
INVARIANT CountedAsSent
