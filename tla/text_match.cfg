\* Every short content and query, and every pair of short tags and filter of one.
CONSTANTS
  Char = {"a", "A", "ae", "AE", " ", "%", "_", "quote", "backslash", ",", "[", "]"}
  ToLower <- MCToLower
  Ascii <- MCAscii
  Blank = " "
  Percent = "%"
  Underscore = "_"
  Quote = "quote"
  Backslash = "backslash"
  Comma = ","
  Open = "["
  Close = "]"
  Given <- MCGiven
  Asked <- MCAsked
  Nothing = Nothing
SPECIFICATION Spec
INVARIANTS
  FindsEveryMatch
  FindsOnlyMatches
