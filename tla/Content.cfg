CONSTANTS
    Words <- MCWords
    MaxWords = 2
    Names <- MCNames
    Afters <- MCAfters
    Texts <- MCTexts
    Attachments <- MCAttachments
    LineLen = 8
SPECIFICATION FairSpec
INVARIANTS FindsFirstKeyword FieldWhole TextRight
PROPERTIES BuildEnds
CHECK_DEADLOCK FALSE
