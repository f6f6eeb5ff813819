SPECIFICATION MCSpec
CONSTANTS
    Char = {1, 2, 3, 4}
    Star = 9
    MaxLen = 6
    EditLen = 4
    MaxData = 2
    MediumFrom = 2
    StrongFrom = 4
INVARIANTS TypeOK FieldShowsPassword PreviewIsCurrent RulesAgree
PROPERTIES EditsLikeTextField
