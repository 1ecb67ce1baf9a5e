CONSTANTS
    Units <- MCUnits
    Wholes <- MCWholes
    Inserted <- MCInserted
    Anywhere = 4
SPECIFICATION MCSpec
INVARIANTS PlainEditsMirrored LexedAsWritten
