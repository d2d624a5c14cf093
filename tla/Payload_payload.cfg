SPECIFICATION Spec
CONSTANTS
    UnsignedLimit = 16777216
    Texts <- SomeTexts
    Foreign <- SomeForeign
    Pictures <- SomePictures
INVARIANTS WritesBehindReads PrintedTextComesBack
           ForeignTextComesBack PictureComesBack
