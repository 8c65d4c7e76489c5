SPECIFICATION TranscriptsSpec
CONSTANTS
  MaxRows = 3
  Deeper = {"grok", "codex", "pi", "openclaw", "dsh", "antigravity"}
  Limit = 2
  LastReplies = 2
INVARIANTS
  CountsAgree
  PagesAgree
  QuotedIsShown
  AnsweredOnce
  FinalAgrees
  GrokFormsAgree
CHECK_DEADLOCK FALSE
